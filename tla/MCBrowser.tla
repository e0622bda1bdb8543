------------------------------ MODULE MCBrowser ------------------------------
(* One name, under which workers come and go, one page, which no other page   *)
(* can disturb, and threads that change the flag of the broker's connection.  *)
(*                                                                            *)
(* The connection acts on no source and no source on it.  To keep the states  *)
(* from being all pairs of both, this instance has them active one at a time: *)
(* the flag changes as long as no source was heard of, and sources come while *)
(* the flag is as it was at first and everybody has been told so.             *)
EXTENDS Browser

CONSTANTS yard, p1, t1, t2, t3

MCNames == {yard}
MCPages == {p1}
MCThreads == {t1, t2, t3}

NoSource ==
    \A n \in Names : /\ workers[n] = None /\ snapshot[n] = None /\ status[n] = None
                     /\ \A p \in Pages : fetched[p] = None /\ badges[p][n] = None

FlagAtRest == mqtt = "disconnected" /\ misled = {} /\ \A t \in Threads : telling[t] = None

MCNext == Next /\ (NoSource \/ FlagAtRest)'

MCSpec == Init /\ [][MCNext]_vars /\ Fairness

=============================================================================
