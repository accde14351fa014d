------------------------------- MODULE Config -------------------------------
(***************************************************************************)
(* How the program's options are read: the key file and the command line   *)
(* merged into one DrdConfig (src/core/drd_config.c).                      *)
(*                                                                         *)
(* A key file and a command line are partial functions: their domain is    *)
(* what was given.  A word is the lower-case form of what was written (the *)
(* code ignores case); a number that does not parse is read as 0, as       *)
(* g_key_file_get_integer does; a path is <<directory, name>>, with the    *)
(* directory Null when the path is relative.  A rejected file or option    *)
(* ends the program and the half-read configuration is dropped, so reading *)
(* is split into what is accepted and what is then the result.             *)
(***************************************************************************)
EXTENDS Integers

CONSTANT Null     \* no value given: neither a text nor a path

Modes == {"user", "system", "handover"}
EncoderModes == {"h264", "rfx", "auto"}
TrueWords == {"true", "yes", "1"}
BoolWords == TrueWords \union {"false", "no", "0"}
MaxPort == 65535

Given(f, key, default) == IF key \in DOMAIN f THEN f[key] ELSE default
Positive(f, key, default) == IF Given(f, key, 0) > 0 THEN f[key] ELSE default
IsWord(f, key, words) == key \in DOMAIN f => f[key] \in words

(* drd_config_parse_bool *)
ParseBool(f, key, default) == IF key \in DOMAIN f THEN f[key] \in TrueWords ELSE default

RefreshPamService(c) ==
    IF c.pam_service_overridden THEN c
    ELSE [c EXCEPT !.pam_service =
              IF c.runtime_mode = "system" THEN "deepin-remote-desktop-system"
                                           ELSE "deepin-remote-desktop"]

(* The default encoding options, under the names of their keys; the change *)
(* threshold, a fraction, in percent.                                      *)
DefaultEncoding ==
    [width |-> 1024, height |-> 768, mode |-> "rfx", enable_diff |-> TRUE,
     h264_bitrate |-> 5000000, h264_framerate |-> 60, h264_qp |-> 15,
     h264_hw_accel |-> FALSE, h264_vm_support |-> FALSE,
     gfx_large_change_threshold |-> 5, gfx_progressive_refresh_interval |-> 6,
     gfx_progressive_refresh_timeout_ms |-> 100]

(* drd_config_init; `base' is the directory relative paths start from.     *)
NewConfig(base) ==
    RefreshPamService(
        [bind_address |-> "0.0.0.0", port |-> 3390, encoding |-> DefaultEncoding,
         certificate_path |-> Null, private_key_path |-> Null,
         nla_username |-> Null, nla_password |-> Null, nla_enabled |-> TRUE,
         runtime_mode |-> "user", pam_service |-> Null, pam_service_overridden |-> FALSE,
         capture_target_fps |-> 60, capture_stats_interval_sec |-> 5, base_dir |-> base])

SetRuntimeModeOnly(c, mode) == [c EXCEPT !.runtime_mode = mode]
(* drd_config_set_runtime_mode_internal *)
SetRuntimeMode(c, mode) ==
    IF c.runtime_mode = mode THEN c ELSE RefreshPamService([c EXCEPT !.runtime_mode = mode])

OverridePamService(c, name) ==
    IF name = "" THEN c
    ELSE [c EXCEPT !.pam_service = name, !.pam_service_overridden = TRUE]

ResolvePath(c, path) == IF path[1] # Null THEN path ELSE <<c.base_dir, path[2]>>
PathGiven(c, f, key, default) == IF key \in DOMAIN f THEN ResolvePath(c, f[key]) ELSE default

-----------------------------------------------------------------------------
(* The key file, group by group.                                           *)
ServerAccepted(f) == "port" \in DOMAIN f => f.port \in 1 .. MaxPort
LoadServer(c, f) ==
    [c EXCEPT !.bind_address = Given(f, "bind_address", @),
              !.port = Given(f, "port", @),
              !.certificate_path = PathGiven(c, f, "certificate", Null),
              !.private_key_path = PathGiven(c, f, "private_key", Null),
              !.encoding.width = Positive(f, "width", @),
              !.encoding.height = Positive(f, "height", @),
              !.capture_target_fps = Positive(f, "target_fps", @),
              !.capture_stats_interval_sec = Positive(f, "stats_interval_sec", @)]

EncodingWords == {"enable_diff", "h264_hw_accel", "h264_vm_support"}
PositiveNumbers == {"h264_bitrate", "h264_framerate", "h264_qp"}
NaturalNumbers == {"gfx_large_change_threshold", "gfx_progressive_refresh_interval",
                   "gfx_progressive_refresh_timeout_ms"}
EncodingAccepted(f) ==
    /\ IsWord(f, "mode", EncoderModes)
    /\ \A key \in EncodingWords : IsWord(f, key, BoolWords)
    /\ \A key \in PositiveNumbers \intersect DOMAIN f : f[key] > 0
    /\ \A key \in NaturalNumbers \intersect DOMAIN f : f[key] >= 0
LoadEncoding(c, f) ==
    [c EXCEPT !.encoding =
        [key \in DOMAIN @ |->
            CASE key \in {"width", "height"} -> @[key]
              [] key \in EncodingWords -> ParseBool(f, key, @[key])
              [] OTHER -> Given(f, key, @[key])]]

(* [auth] mode: only "static" is left, and turns NLA on.                   *)
AuthAccepted(f) ==
    /\ IsWord(f, "auth_mode", {"static"})
    /\ IF "enable_nla" \in DOMAIN f THEN f.enable_nla \in BoolWords ELSE IsWord(f, "nla", BoolWords)
LoadAuth(c, f) ==
    LET nla == IF "auth_mode" \in DOMAIN f THEN TRUE ELSE c.nla_enabled
        credentials ==
            [c EXCEPT !.nla_username = Given(f, "username", @),
                      !.nla_password = Given(f, "password", @),
                      !.nla_enabled = ParseBool(f, "enable_nla", ParseBool(f, "nla", nla))]
    IN OverridePamService(credentials, Given(f, "pam_service", ""))

NlaGiven(f) == "enable_nla" \in DOMAIN f \/ "nla" \in DOMAIN f
ServiceAccepted(f) ==
    /\ IF "runtime_mode" \in DOMAIN f THEN f.runtime_mode \in Modes ELSE IsWord(f, "system", BoolWords)
    /\ ~NlaGiven(f) => IsWord(f, "rdp_sso", BoolWords)
LoadService(c, f) ==
    LET bySystem == IF ParseBool(f, "system", FALSE) THEN "system" ELSE "user"
        moded == IF {"runtime_mode", "system"} \intersect DOMAIN f = {} THEN c
                 ELSE SetRuntimeMode(c, Given(f, "runtime_mode", bySystem))
    IN IF NlaGiven(f) \/ "rdp_sso" \notin DOMAIN f THEN moded
       ELSE [moded EXCEPT !.nla_enabled = ~ParseBool(f, "rdp_sso", FALSE)]

(* drd_config_new_from_file, once the file itself could be read.           *)
FileAccepted(f) ==
    ServerAccepted(f) /\ EncodingAccepted(f) /\ AuthAccepted(f) /\ ServiceAccepted(f)
NewFromFile(f, dir) ==
    LoadService(LoadAuth(LoadEncoding(LoadServer(NewConfig(dir), f), f), f), f)

-----------------------------------------------------------------------------
(* drd_config_merge_cli: what the command line says, then what the result  *)
(* must satisfy.                                                           *)
CliAccepted(cli) ==
    /\ Given(cli, "port", 0) <= MaxPort
    /\ ~("enable_nla" \in DOMAIN cli /\ "disable_nla" \in DOMAIN cli)
    /\ IsWord(cli, "mode", Modes)
    /\ IsWord(cli, "encoder", EncoderModes)

CliOptions(c, cli) ==
    [c EXCEPT !.bind_address = Given(cli, "bind_address", @),
              !.port = Positive(cli, "port", @),
              !.certificate_path = PathGiven(c, cli, "cert", @),
              !.private_key_path = PathGiven(c, cli, "key", @),
              !.nla_username = Given(cli, "nla_username", @),
              !.nla_password = Given(cli, "nla_password", @),
              !.nla_enabled = CASE "enable_nla" \in DOMAIN cli -> TRUE
                                [] "disable_nla" \in DOMAIN cli -> FALSE
                                [] OTHER -> @,
              !.encoding.width = Positive(cli, "width", @),
              !.encoding.height = Positive(cli, "height", @),
              !.encoding.mode = Given(cli, "encoder", @),
              !.encoding.enable_diff = CASE "enable_diff" \in DOMAIN cli -> TRUE
                                         [] "disable_diff" \in DOMAIN cli -> FALSE
                                         [] OTHER -> @,
              !.capture_target_fps = Positive(cli, "capture_fps", @),
              !.capture_stats_interval_sec = Positive(cli, "capture_stats_sec", @)]
MergeCli(c, cli) ==
    IF "mode" \in DOMAIN cli THEN SetRuntimeMode(CliOptions(c, cli), cli.mode)
                             ELSE CliOptions(c, cli)

Empty(text) == text = Null \/ text = ""
CompleteWithoutLogin(c) ==
    /\ c.runtime_mode # "handover" => c.certificate_path # Null /\ c.private_key_path # Null
    /\ ~c.nla_enabled => c.runtime_mode = "system"
    /\ ~Empty(c.pam_service)
Complete(c) ==
    /\ c.runtime_mode # "handover" => c.certificate_path # Null /\ c.private_key_path # Null
    /\ ~c.nla_enabled => c.runtime_mode = "system"
    /\ c.nla_enabled /\ c.runtime_mode # "handover" => ~Empty(c.nla_username) /\ ~Empty(c.nla_password)
    /\ ~Empty(c.pam_service)
MergeAccepted(c, cli) == CliAccepted(cli) /\ Complete(MergeCli(c, cli))

-----------------------------------------------------------------------------
(* What the options mean, read as a reader of the option list would: the   *)
(* command line before the file, the file before the default.              *)
MeantMode(f, cli) ==
    Given(cli, "mode",
          Given(f, "runtime_mode", IF ParseBool(f, "system", FALSE) THEN "system" ELSE "user"))
MeantNla(f, cli) ==
    LET byFile == IF NlaGiven(f) THEN ParseBool(f, "enable_nla", ParseBool(f, "nla", TRUE))
                  ELSE ~ParseBool(f, "rdp_sso", FALSE)
    IN "enable_nla" \in DOMAIN cli \/ (byFile /\ "disable_nla" \notin DOMAIN cli)
MeantPamService(f, cli) ==
    IF Given(f, "pam_service", "") # "" THEN f.pam_service
    ELSE IF MeantMode(f, cli) = "system" THEN "deepin-remote-desktop-system"
                                         ELSE "deepin-remote-desktop"
MeantPort(f, cli) == Positive(cli, "port", Given(f, "port", 3390))
=============================================================================
