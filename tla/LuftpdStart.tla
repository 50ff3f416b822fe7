---------------------------- MODULE LuftpdStart ----------------------------
(***************************************************************************)
(* The start of the FTP daemon: main and the first half of                 *)
(* luftpd_start_server (luftpd/src/luftpd.c), and luftpd_cfg_load_with_file *)
(* (luftpd/src/luftpd_cfg.c), which both of them call.                     *)
(***************************************************************************)
EXTENDS Lucfg

CONSTANT FtpFiles   \* the contents a configuration file may have

ASSUME FtpFilesAssumption ==
    \A f \in FtpFiles : \A k \in DOMAIN f : f[k] \in [kind : ValueKinds, n : Int]

VARIABLES
    fpc,        \* "main", "server", "bind", "serving" or "returned"
    argFile,    \* the file main loads: argv[1], or the default one
    etcFile,    \* /etc/luftpd.conf
    announced,  \* the configuration main has loaded and printed
    g_luftpd_config

ftpVars == <<fpc, argFile, etcFile, announced, g_luftpd_config>>

FtpNumbers ==
    [port |-> 2121, max_connections |-> 10,
     data_port_min |-> 30000, data_port_max |-> 30100]
FtpStrings == {"ip", "root_dir"}
FtpDefaults ==
    [k \in DOMAIN FtpNumbers \cup FtpStrings |->
        IF k \in FtpStrings THEN "default" ELSE FtpNumbers[k]]

\* The settings with an open file.  For a text lucfg_get_string stores the
\* address of the string, where the characters should be ("pointer"), and
\* lucfg_close frees what it points to.
FtpSettings(h) ==
    [k \in DOMAIN FtpDefaults |->
        LET got == CASE k = "port" -> GetUint16(h, k)
                     [] k \in FtpStrings -> GetString(h, k)
                     [] OTHER -> GetInt32(h, k)
        IN  IF got.rc # "OK" THEN FtpDefaults[k]
            ELSE IF k \in FtpStrings THEN "pointer" ELSE got.out]

FtpLoad(h) == IF h.open THEN FtpSettings(h) ELSE FtpDefaults
-----------------------------------------------------------------------------
FtpInit ==
    /\ fpc = "main"
    /\ etcFile \in FtpFiles /\ argFile \in FtpFiles
    /\ announced = FtpDefaults /\ g_luftpd_config = FtpDefaults

\* main gives up, with status 0, if its file cannot be loaded.
MainLoad(h) ==
    /\ fpc = "main"
    /\ g_luftpd_config' = FtpLoad(h) /\ announced' = FtpLoad(h)
    /\ fpc' = IF h.open THEN "server" ELSE "returned"
    /\ UNCHANGED <<argFile, etcFile>>

\* Mutant: a failing load leaves the configuration as it was.
ServerLoadKeeps(h) ==
    /\ fpc = "server"
    /\ g_luftpd_config' = IF h.open THEN FtpSettings(h) ELSE g_luftpd_config
    /\ fpc' = "bind"
    /\ UNCHANGED <<argFile, etcFile, announced>>

\* luftpd_start_server loads the default file over it, or the defaults.
ServerLoad(h) ==
    /\ fpc = "server"
    /\ g_luftpd_config' = FtpLoad(h)
    /\ fpc' = "bind"
    /\ UNCHANGED <<argFile, etcFile, announced>>

\* socket, bind, listen and malloc succeed, or one of them fails.
FtpListen ==
    /\ fpc = "bind"
    /\ fpc' \in {"serving", "returned"}
    /\ UNCHANGED <<argFile, etcFile, announced, g_luftpd_config>>

FtpNext ==
    \/ \E h \in Open(argFile) : MainLoad(h)
    \/ \E h \in Open(etcFile) : ServerLoad(h)
    \/ FtpListen

FtpSpec == FtpInit /\ [][FtpNext]_ftpVars
-----------------------------------------------------------------------------
\* The two files are loaded into the same global, the second after main has
\* announced the first.  The server runs with settings of one file: whatever
\* is not a default was set by /etc/luftpd.conf, even if that cannot be loaded,
\* and no address of main's handle, which is closed, is left.
ServedFromOneFile ==
    fpc \in {"bind", "serving"} =>
      \A k \in DOMAIN FtpDefaults :
        g_luftpd_config[k] # FtpDefaults[k] => k \in DOMAIN etcFile
=============================================================================
