---------------------------- MODULE OperatorAccess ----------------------------
(***************************************************************************)
(* How an operator gets in and what the browser makes of it: the routes    *)
(* under /auth with their cache, and the tabs of the frontend.  The        *)
(* frontend calls /auth/login only, and an access token is a signed text   *)
(* that the server does not store: the two share no state, so each         *)
(* behaviour is a behaviour of one of them, chosen at first.               *)
(***************************************************************************)
EXTENDS Accounts, Console

VARIABLE side

accessVars == <<accountsVars, consoleVars, side>>

AccessInit == AccountsInit /\ ConsoleInit /\ side \in {"routes", "tabs"}
              /\ (side = "tabs" => redis)
              /\ (side = "routes" => logins = 0 /\ \A t \in Tabs : tab[t].at = LoginPage)

AccessNext ==
    \/ side = "routes" /\ AccountsNext /\ UNCHANGED <<consoleVars, side>>
    \/ side = "tabs" /\ ConsoleNext /\ UNCHANGED <<accountsVars, side>>

AccessSpec == AccessInit /\ [][AccessNext]_accessVars
-----------------------------------------------------------------------------
\* The types of both.
AccessTypeOK == AccountsTypeOK /\ ConsoleTypeOK
=============================================================================
