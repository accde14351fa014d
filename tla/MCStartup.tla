------------------------------ MODULE MCStartup ------------------------------
(* Key files and command lines: every combination of the keys that decide  *)
(* the mode, NLA and the PAM service, and one variation at a time of the   *)
(* others, well-formed and not.                                            *)
EXTENDS Startup, TLC

Combine(A, B) == {a @@ b : a \in A, b \in B}
Relative(name) == <<Null, name>>
Absolute(name) == <<"/etc", name>>
Tls == [certificate |-> Relative("cert"), private_key |-> Absolute("key")]
Login == [username |-> "drd", password |-> "secret"]

FileModes == {<<>>, [runtime_mode |-> "system"], [runtime_mode |-> "handover"],
              [runtime_mode |-> "greeter"], [system |-> "yes"],
              [system |-> "1", runtime_mode |-> "user"]}
FileNla == {<<>>, [enable_nla |-> "no"], [nla |-> "false"], [enable_nla |-> "yes", nla |-> "no"],
            [rdp_sso |-> "yes"], [rdp_sso |-> "yes", nla |-> "true"], [enable_nla |-> "on"],
            [auth_mode |-> "static", rdp_sso |-> "yes"], [auth_mode |-> "delegate"]}
FilePam == {<<>>, [pam_service |-> "other"], [pam_service |-> ""]}
FileOthers == {[port |-> 8443], [port |-> 0], [port |-> 65536], [width |-> 0, target_fps |-> 30],
               [mode |-> "h264", enable_diff |-> "no"], [mode |-> "vp9"], [h264_bitrate |-> 0],
               [gfx_progressive_refresh_interval |-> 0], [h264_vm_support |-> "maybe"]}
MCFiles ==
    Combine({Tls @@ Login}, Combine(FileModes, Combine(FileNla, FilePam)))
    \union Combine({Tls @@ Login}, FileOthers) \union {Tls, Login}

CliModes == {<<>>} \union {[mode |-> m] : m \in Modes}
CliNla == {<<>>, [enable_nla |-> TRUE], [disable_nla |-> TRUE],
           [enable_nla |-> TRUE, disable_nla |-> TRUE]}
CliOthers == {[port |-> 0], [port |-> 5000], [port |-> 65536], [mode |-> "kiosk"],
              [cert |-> Relative("cert"), key |-> Absolute("key"), nla_username |-> "drd",
               nla_password |-> "secret"],
              [nla_username |-> ""], [encoder |-> "auto", width |-> 800], [encoder |-> "png"],
              [enable_diff |-> TRUE, disable_diff |-> TRUE], [disable_diff |-> TRUE]}
MCClis == Combine(CliModes, CliNla) \union CliOthers
=============================================================================
