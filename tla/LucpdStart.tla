----------------------------- MODULE LucpdStart -----------------------------
(***************************************************************************)
(* From main's arguments to a listening daemon: main of lucpd/src/lucpd.c  *)
(* up to its accept loop, and lucpd/src/lucpd_cfg.c.  The contents of the  *)
(* file are chosen when it is opened.                                      *)
(***************************************************************************)
EXTENDS Lucfg, Sequences, SequencesExt

CONSTANTS
    Tokens,       \* what may stand on the command line
    Atoi,         \* atoi() of a token
    MaxArgs,      \* bound: tokens on the command line
    LucpdFiles    \* the contents a configuration file may have

ASSUME LucpdStartAssumption ==
    /\ Tokens \subseteq STRING /\ Atoi \in [Tokens -> Int] /\ MaxArgs \in Nat
    /\ \A f \in LucpdFiles : \A k \in DOMAIN f :
         f[k] \in [kind : ValueKinds, n : Int]

VARIABLES
    pc,         \* "args", "load", "bind", "listening" or "exited"
    argv, i,    \* argv[0] is not modelled: the first argument is argv[1]
    cfgpath, port, hassetc,
    rc,         \* what lucpd_cfg_load_with_entryArgs returns; main ignores it
    file,       \* the contents of the file that was opened
    cfg         \* g_lucpdcfg

vars == <<pc, argv, i, cfgpath, port, hassetc, rc, file, cfg>>

DefaultCfgFile == "/etc/lucpd.conf"

\* set_default_config; a text is its kind, "default" if the file has none.
NumberDefaults ==
    [max_clients |-> 10, recv_timeout_ms |-> 1000, send_timeout_ms |-> 1000,
     rate_limit_ms |-> 3000, session_timeout_ms |-> 2000, file_retention_min |-> 30]
SwitchKeys == {"validate_version", "validate_crc16"}
StringKeys == {"ip", "log_level", "log_file", "tmp_dir"}
Defaults ==
    [k \in DOMAIN NumberDefaults \cup SwitchKeys \cup StringKeys \cup {"port"} |->
        CASE k = "port" -> 32100
          [] k \in SwitchKeys -> 1
          [] k \in StringKeys -> "default"
          [] OTHER -> NumberDefaults[k]]

\* Mutant: max_clients >= 0.
LimitsFromZero ==
    [max_clients |-> 0..100, recv_timeout_ms |-> 100..10000,
     send_timeout_ms |-> 100..10000, rate_limit_ms |-> 1000..60000,
     session_timeout_ms |-> 1000..30000, file_retention_min |-> 5..1440]

\* The values of each number that are taken over.
Limits ==
    [max_clients |-> 1..100, recv_timeout_ms |-> 100..10000,
     send_timeout_ms |-> 100..10000, rate_limit_ms |-> 1000..60000,
     session_timeout_ms |-> 1000..30000, file_retention_min |-> 5..1440]

\* lucpd_cfg_load_with_file: the settings for what lucfg_open returned.
LoadWithFile(h) ==
    IF ~h.open THEN Defaults
    ELSE [k \in DOMAIN Defaults |->
            LET got == CASE k = "port" -> GetUint16(h, k)
                         [] k \in SwitchKeys -> GetBool(h, k)
                         [] k \in StringKeys -> GetString(h, k)
                         [] OTHER -> GetInt32(h, k)
            IN  IF got.rc = "OK" /\ (k \in DOMAIN Limits => got.out \in Limits[k])
                THEN got.out ELSE Defaults[k]]
-----------------------------------------------------------------------------
Init ==
    /\ pc = "args" /\ argv \in BoundedSeq(Tokens, MaxArgs) /\ i = 1
    /\ cfgpath = DefaultCfgFile /\ port = 32100 /\ hassetc = FALSE
    /\ rc = 0 /\ file = Unreadable /\ cfg = Defaults

HasValue == i + 1 <= Len(argv)
PortOk == Atoi[argv[i + 1]] > 0 /\ Atoi[argv[i + 1]] <= 65535

OptC ==
    /\ pc = "args" /\ i <= Len(argv) /\ argv[i] = "-c" /\ HasValue
    /\ cfgpath' = argv[i + 1]
    /\ i' = i + 2
    /\ UNCHANGED <<pc, argv, port, hassetc, rc, file, cfg>>

OptP ==
    /\ pc = "args" /\ i <= Len(argv) /\ argv[i] = "-p" /\ HasValue /\ PortOk
    /\ port' = Atoi[argv[i + 1]] /\ hassetc' = TRUE
    /\ i' = i + 2
    /\ UNCHANGED <<pc, argv, cfgpath, rc, file, cfg>>

\* An unknown option, an option without its value, or a bad port: the options
\* before it count, those behind it do not.
ArgsError ==
    /\ pc = "args" /\ i <= Len(argv)
    /\ ~(argv[i] = "-c" /\ HasValue) /\ ~(argv[i] = "-p" /\ HasValue /\ PortOk)
    /\ pc' = "load" /\ rc' = -1
    /\ UNCHANGED <<argv, i, cfgpath, port, hassetc, file, cfg>>

ArgsDone ==
    /\ pc = "args" /\ i > Len(argv)
    /\ pc' = "load"
    /\ UNCHANGED <<argv, i, cfgpath, port, hassetc, rc, file, cfg>>

\* Mutant: the file is loaded over the port of the command line.
PortThenFile(loaded) == loaded

\* set_file_and_port.
SetFileAndPort(loaded) == IF hassetc THEN [loaded EXCEPT !.port = port] ELSE loaded

Load(f) ==
    /\ pc = "load"
    /\ file' = f
    /\ \E h \in Open(f) : cfg' = SetFileAndPort(LoadWithFile(h))
    /\ pc' = "bind"
    /\ UNCHANGED <<argv, i, cfgpath, port, hassetc, rc>>

\* socket, bind and listen succeed, or one of them ends the process.
Listen ==
    /\ pc = "bind"
    /\ pc' \in {"listening", "exited"}
    /\ UNCHANGED <<argv, i, cfgpath, port, hassetc, rc, file, cfg>>

Next ==
    \/ OptC \/ OptP \/ ArgsError \/ ArgsDone
    \/ \E f \in LucpdFiles : Load(f)
    \/ Listen

Spec == Init /\ [][Next]_vars
-----------------------------------------------------------------------------
Loaded == pc \in {"bind", "listening", "exited"}

\* The options of a command line, read at once: they come in pairs, those up
\* to the first mistake count, and of a kind the last one.
Ports == 1..65535
Good(k) ==
    \/ argv[2 * k - 1] = "-c"
    \/ argv[2 * k - 1] = "-p" /\ Atoi[argv[2 * k]] \in Ports
Options == {k \in 1..(Len(argv) \div 2) : \A j \in 1..k : Good(j)}
LastOption(name) ==
    {k \in Options : argv[2 * k - 1] = name
                     /\ \A j \in Options : argv[2 * j - 1] = name => j <= k}

\* The daemon starts with the file and the port it was asked for, wherever -c
\* and -p stand: -p beats the file even in front of -c, and a mistake on the
\* command line costs only what stands behind it.
StartsAsAsked ==
    Loaded =>
      /\ \A k \in LastOption("-c") : cfgpath = argv[2 * k]
      /\ LastOption("-c") = {} => cfgpath = DefaultCfgFile
      /\ \A k \in LastOption("-p") : cfg.port = Atoi[argv[2 * k]]

\* What the rest of the daemon relies on, whatever is in the file: at least
\* one client is served, no timeout is zero, and switches are 0 or 1.
ConfigInRange ==
    /\ cfg.max_clients \in 1..100
    /\ \A k \in {"recv_timeout_ms", "send_timeout_ms"} : cfg[k] \in 100..10000
    /\ cfg.session_timeout_ms \in 1000..30000
    /\ cfg.rate_limit_ms \in 1000..60000 /\ cfg.file_retention_min \in 5..1440
    /\ cfg.port \in Ports \cup {0}
    /\ \A k \in SwitchKeys : cfg[k] \in 0..1

\* "key2 = 42  # integer" (lucfg.h:37), "it is stored as long" (lucfg.h:46):
\* what lucpd_cfg_load_with_file makes of the file that was opened has the
\* numbers of the file, where they are within their limits.
FileNumbersCount ==
    Loaded =>
      \A h \in Open(file) : h.open =>
        \A k \in DOMAIN file \cap DOMAIN NumberDefaults :
          file[k].kind = "number" /\ file[k].n \in Limits[k]
            => LoadWithFile(h)[k] = file[k].n
=============================================================================
