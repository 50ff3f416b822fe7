------------------------------ MODULE MCLucpd ------------------------------
(***************************************************************************)
(* The daemon and one client that sends every kind of frame at any time.   *)
(***************************************************************************)
EXTENDS Lucpd

Frame(type, seq, status, major) ==
    [type |-> type, seq |-> seq, status |-> status, major |-> major]

\* Requests of a good and of a bad version, results of both kinds, garbage.
MCFrames ==
    {Frame("UPLOAD_REQUEST", 7, "FAILED", 1),
     Frame("UPLOAD_REQUEST", 8, "FAILED", 2),
     Frame("FTP_LOGIN_RESULT", 7, "SUCCESS", 1),
     Frame("FTP_LOGIN_RESULT", 7, "FAILED", 1),
     Frame("FTP_DOWNLOAD_RESULT", 7, "SUCCESS", 1),
     Frame("FTP_DOWNLOAD_RESULT", 7, "FAILED", 1),
     Frame("MALFORMED", 0, "FAILED", 1)}

\* Next without Refuse: a slot is free whenever the only client connects.  Two
\* clients compete for one in MCLucpDemo.
OneClientNext ==
    \/ \E c \in Conns : Accept(c) \/ Spawn(c) \/ SpawnFails(c)
    \/ LoopTest \/ AcceptClosed \/ CountUp \/ Exit \/ AcceptError \/ HandleSig
    \/ \E c \in Conns : SessionStep(c) \/ ClientStep(c)

OneClientSpec == Init /\ [][OneClientNext]_vars /\ Fairness
=============================================================================
