------------------------------ MODULE MCLuftpd ------------------------------
(***************************************************************************)
(* The FTP daemon's table and its paths, which share no state: a behaviour *)
(* is that of one of them, part, and the other stays where it starts.      *)
(***************************************************************************)
EXTENDS LuftpdTable, MCLuftpdPath

VARIABLE part

FtpPartsInit ==
    /\ part \in {"table", "path"}
    /\ Init
    /\ CallInit
    /\ part = "path" \/ (current_dir = PathString(TRUE, <<>>) /\ arg = PathString(FALSE, <<>>))

FtpPartsNext ==
    /\ \/ part = "table" /\ Next /\ UNCHANGED pathVars
       \/ part = "path" /\ Call /\ UNCHANGED vars
    /\ UNCHANGED part
=============================================================================
