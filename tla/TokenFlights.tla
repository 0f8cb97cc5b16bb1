---------------------------- MODULE TokenFlights ----------------------------
(***************************************************************************)
(* Token acquisition (packages/core/src/auth.ts): one shared flight per    *)
(* scope, which tries MSAL's silent acquisition and then a browser login,  *)
(* and the callers that join it.                                           *)
(*                                                                         *)
(* The chat scopes' flight is inflightToken (getToken), the others are the *)
(* entries of inflightScopedTokens (getTokenForScope).  They differ in     *)
(* what a failure is: getToken rejects, getTokenForScope answers null.     *)
(* Whether token.json holds a token that is not about to expire is left    *)
(* open at every question: it depends on the time that went by.            *)
(***************************************************************************)
EXTENDS Integers, FiniteSets

CONSTANTS
  Callers,
  Scopes, Chat, NoScope,
  Attempts    \* browser attempts of getTokenForScope

ASSUME TokenAssumption ==
  /\ Chat \in Scopes /\ NoScope \notin Scopes
  /\ Attempts \in Nat \ {0}

VARIABLES
  login,    \* configured once: "secrets", "interactive" or "none"
  flight,   \* "none", "silent", "browser" or "pause", per scope
  attempt,  \* of the flight's browser login
  waiting,  \* the scope whose flight a caller has joined, or NoScope
  told      \* what a caller was told: "nothing", "token", "null" or "rejected"

tokenVars == <<login, flight, attempt, waiting, told>>

Logins == {"secrets", "interactive", "none"}

TokenTypeOK ==
  /\ login \in Logins
  /\ flight \in [Scopes -> {"none", "silent", "browser", "pause"}]
  /\ attempt \in [Scopes -> 0..Attempts]
  /\ waiting \in [Callers -> Scopes \cup {NoScope}]
  /\ told \in [Callers -> {"nothing", "token", "null", "rejected"}]

TokenInit ==
  /\ login \in Logins
  /\ flight = [s \in Scopes |-> "none"] /\ attempt = [s \in Scopes |-> 0]
  /\ waiting = [c \in Callers |-> NoScope] /\ told = [c \in Callers |-> "nothing"]
-----------------------------------------------------------------------------
\* A caller asks for a token: the cache answers at once (getToken looks there in its
\* flight only), or the caller joins the flight of the scope, or starts it.
Ask(c, s) ==
  /\ waiting[c] = NoScope
  /\ \/ /\ s = Chat => flight[s] = "none"
        /\ told' = [told EXCEPT ![c] = "token"]
        /\ UNCHANGED <<flight, attempt, waiting>>
     \/ /\ waiting' = [waiting EXCEPT ![c] = s] /\ told' = [told EXCEPT ![c] = "nothing"]
        /\ flight' = [flight EXCEPT ![s] = IF @ = "none" THEN "silent" ELSE @]
        /\ UNCHANGED attempt

\* The flight is over: it is forgotten, whatever it brought, and all who joined it
\* are told the same.
Settle_KeepsRejected(s, answer) ==
  /\ flight' = IF answer = "rejected" THEN flight ELSE [flight EXCEPT ![s] = "none"]
  /\ attempt' = [attempt EXCEPT ![s] = 0]
  /\ told' = [c \in Callers |-> IF waiting[c] = s THEN answer ELSE told[c]]
  /\ waiting' = [c \in Callers |-> IF waiting[c] = s THEN NoScope ELSE waiting[c]]

Settle(s, answer) ==
  /\ flight' = [flight EXCEPT ![s] = "none"] /\ attempt' = [attempt EXCEPT ![s] = 0]
  /\ told' = [c \in Callers |-> IF waiting[c] = s THEN answer ELSE told[c]]
  /\ waiting' = [c \in Callers |-> IF waiting[c] = s THEN NoScope ELSE waiting[c]]

\* A login that ends without a token is an error for getToken, and null for others.
Failure(s) == IF s = Chat THEN "rejected" ELSE "null"

\* acquireTokenSilent answers, also from MSAL's own cache, or fails, also for want of
\* an account; then a login follows, if one is configured.
SilentEnds(s) ==
  /\ flight[s] = "silent"
  /\ \/ Settle(s, "token")
     \/ login = "none" /\ Settle(s, Failure(s))
     \/ /\ login # "none"
        /\ flight' = [flight EXCEPT ![s] = "browser"] /\ attempt' = [attempt EXCEPT ![s] = 1]
        /\ UNCHANGED <<waiting, told>>

\* A visible browser brings a code and a token within 15 minutes, or does not.
InteractiveEnds(s) ==
  /\ flight[s] = "browser" /\ login = "interactive"
  /\ \E answer \in {"token", "rejected", Failure(s)} : Settle(s, answer)

MaxAttempts(s) == IF s = Chat THEN 1 ELSE Attempts

\* One headless attempt brings a code and a token, fails or times out, which may be
\* tried again; a browser that cannot be launched is an error for every caller.
BrowserEnds(s) ==
  /\ flight[s] = "browser" /\ login = "secrets"
  /\ \/ Settle(s, "token")
     \/ Settle(s, "rejected")
     \/ attempt[s] >= MaxAttempts(s) /\ Settle(s, Failure(s))
     \/ /\ attempt[s] < MaxAttempts(s)
        /\ flight' = [flight EXCEPT ![s] = "pause"]
        /\ UNCHANGED <<attempt, waiting, told>>

\* The next one-time code is due.
PauseEnds(s) ==
  /\ flight[s] = "pause"
  /\ flight' = [flight EXCEPT ![s] = "browser"] /\ attempt' = [attempt EXCEPT ![s] = @ + 1]
  /\ UNCHANGED <<waiting, told>>

FlightStep(s) == SilentEnds(s) \/ InteractiveEnds(s) \/ BrowserEnds(s) \/ PauseEnds(s)
-----------------------------------------------------------------------------
\* Who waits has a flight to wait for, and a flight has somebody who waits.
FlightsShared ==
  \A s \in Scopes : flight[s] # "none" <=> \E c \in Callers : waiting[c] = s
=============================================================================
