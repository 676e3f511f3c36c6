--------------------------- MODULE PortalFetchers ---------------------------
(***************************************************************************)
(* The two ways to a status that do not go through the ICP account pool:   *)
(* the worker of the visa_status_check queue, which searches in a logged-in*)
(* session, and the public inquiry of GDRFA.  They share no state, so each *)
(* behaviour is a behaviour of one of them; which one, is chosen at first. *)
(***************************************************************************)
EXTENDS StatusJobs, GDRFAFetcher

VARIABLE side

fetchersVars == <<vars, gdrfaVars, side>>

FetchersInit == Init /\ GDRFAInit /\ side \in {"jobs", "inquiry"}

FetchersNext ==
    \/ side = "jobs" /\ Next /\ UNCHANGED <<gdrfaVars, side>>
    \/ side = "inquiry" /\ GDRFANext /\ UNCHANGED <<vars, side>>

FetchersSpec == FetchersInit /\ [][FetchersNext]_fetchersVars
-----------------------------------------------------------------------------
\* The types of both.
FetchersTypeOK == TypeOK /\ GDRFATypeOK
=============================================================================
