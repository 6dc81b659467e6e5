---------------------------- MODULE ChannelAccounts ----------------------------
(***************************************************************************)
(* The accounts of one OAuth platform (platform_accounts.py): the attempts *)
(* to authorize, each a file, the pointer to the current one, the file of  *)
(* every account's token, and accounts.json that lists the accounts.       *)
(*                                                                         *)
(* The page is served by an HTTPServer, one request at a time, so requests *)
(* do not interleave; but a request makes several writes and may stop after*)
(* any of them: the process is killed, or the next write raises.  The      *)
(* owner may post the same callback again, cancel, start anew or           *)
(* disconnect in any order.  The provider answers what it likes.           *)
(***************************************************************************)
EXTENDS Naturals

CONSTANTS Account,    \* external_account_id
          Attempt,    \* attempt ids, each drawn once (token_hex)
          NoAccount, NoAttempt

AccountsAssumption == NoAccount \notin Account /\ NoAttempt \notin Attempt

VARIABLES attempt,    \* the phase in each attempt's file
          overdue,    \* attempts created more than five minutes ago
          current,    \* the attempt of current.json
          token,      \* each account's token file
          listed,     \* the scope of each account in accounts.json
          doing,      \* the request in progress
          exchanged,  \* ghost: how often each attempt's code was sent
          parted      \* ghost: accounts disconnected, and not listed since

accountVars == <<attempt, overdue, current, token, listed, doing, exchanged, parted>>

--------------------------------------------------------------------------------

\* "unused" was never drawn; "gone" was removed after it connected an account.
Phase == {"unused", "WAITING_FOR_AUTHORIZATION", "VERIFYING_IDENTITY",
          "CANCELLED", "TIMED_OUT", "FAILED", "gone"}

OnFile(a) == attempt[a] \notin {"unused", "gone"}

\* Scopes with and without the publish capability; "none" is not listed.
Scope == {"none", "read", "write"}

\* "live" has not expired, or has a refresh token.
Token == {"none", "live", "lapsed"}

\* What a request does next; the last three are places of EditorialHandoff.
Place == {"idle", "point", "exchange", "token", "list", "failing", "attempt",
          "pointer", "unlist", "publish", "succeeded", "raised"}

Doing == [at : Place, attempt : Attempt \cup {NoAttempt},
          account : Account \cup {NoAccount}, scope : Scope]

Idle == [at |-> "idle", attempt |-> NoAttempt, account |-> NoAccount, scope |-> "none"]

Goto(place) == doing' = [doing EXCEPT !.at = place]

SetPhase(a, phase) == attempt' = [attempt EXCEPT ![a] = phase]

Init == /\ attempt = [a \in Attempt |-> "unused"]
        /\ overdue = {}
        /\ current = NoAttempt
        /\ token = [x \in Account |-> "none"]
        /\ listed = [x \in Account |-> "none"]
        /\ doing = Idle
        /\ exchanged = [a \in Attempt |-> 0]
        /\ parted = {}

\* A token that is missing is read as an empty object, which has no expiry
\* (_load_object, _token_requires_reauthorization).
NeedsReauthorization(x) == token[x] = "lapsed"

\* eligible_publish_identities.
Eligible == {x \in Account : listed[x] = "write" /\ ~NeedsReauthorization(x)}

--------------------------------------------------------------------------------
(* Authorization attempts *)

\* start_authorization_attempt: first the attempt's file, then the pointer.
Start(a) == /\ doing = Idle /\ attempt[a] = "unused"
            /\ SetPhase(a, "WAITING_FOR_AUTHORIZATION")
            /\ doing' = [Idle EXCEPT !.at = "point", !.attempt = a]
            /\ UNCHANGED <<overdue, current, token, listed, exchanged, parted>>

Point == /\ doing.at = "point"
         /\ current' = doing.attempt
         /\ doing' = Idle
         /\ UNCHANGED <<attempt, overdue, token, listed, exchanged, parted>>

\* cancel_authorization_attempt asks for the current attempt, in any phase.
Cancel(a) == /\ doing = Idle /\ current = a /\ OnFile(a)
             /\ SetPhase(a, "CANCELLED")
             /\ UNCHANGED <<overdue, current, token, listed, doing, exchanged, parted>>

\* load_authorization_attempt, for the page of any attempt.
ShowAttempt(a) == /\ doing = Idle
                  /\ attempt[a] = "WAITING_FOR_AUTHORIZATION" /\ a \in overdue
                  /\ SetPhase(a, "TIMED_OUT")
                  /\ UNCHANGED <<overdue, current, token, listed, doing, exchanged, parted>>

\* Mutant of Accept: an attempt that was interrupted may be resumed.
AcceptAgain(a) ==
    /\ doing = Idle /\ current = a /\ a \notin overdue
    /\ attempt[a] \in {"WAITING_FOR_AUTHORIZATION", "VERIFYING_IDENTITY"}
    /\ SetPhase(a, "VERIFYING_IDENTITY")
    /\ doing' = [Idle EXCEPT !.at = "exchange", !.attempt = a]
    /\ UNCHANGED <<overdue, current, token, listed, exchanged, parted>>

\* consume_authorization_callback, up to the write before the exchange.
Accept(a) == /\ doing = Idle /\ current = a
             /\ attempt[a] = "WAITING_FOR_AUTHORIZATION" /\ a \notin overdue
             /\ SetPhase(a, "VERIFYING_IDENTITY")
             /\ doing' = [Idle EXCEPT !.at = "exchange", !.attempt = a]
             /\ UNCHANGED <<overdue, current, token, listed, exchanged, parted>>

SendCode == exchanged' = [exchanged EXCEPT ![doing.attempt] = @ + 1]

\* The provider gives a token of whatever account the owner logged in to.
Exchange(x, scope) ==
    /\ doing.at = "exchange"
    /\ SendCode
    /\ doing' = [doing EXCEPT !.at = "token", !.account = x, !.scope = scope]
    /\ UNCHANGED <<attempt, overdue, current, token, listed, parted>>

ExchangeFails == /\ doing.at = "exchange"
                 /\ SendCode
                 /\ Goto("failing")
                 /\ UNCHANGED <<attempt, overdue, current, token, listed, parted>>

\* save_connected_identity: the token, then the list, each in a file of its own.
SaveToken == /\ doing.at = "token"
             /\ token' = [token EXCEPT ![doing.account] = "live"]
             /\ Goto("list")
             /\ UNCHANGED <<attempt, overdue, current, listed, exchanged, parted>>

SaveList == /\ doing.at = "list"
            /\ listed' = [listed EXCEPT ![doing.account] = doing.scope]
            /\ parted' = parted \ {doing.account}
            /\ Goto("attempt")
            /\ UNCHANGED <<attempt, overdue, current, token, exchanged>>

\* Either write raises; then the attempt is recorded as FAILED.
SaveFails == /\ doing.at \in {"token", "list"}
             /\ Goto("failing")
             /\ UNCHANGED <<attempt, overdue, current, token, listed, exchanged, parted>>

RecordFailure == /\ doing.at = "failing"
                 /\ SetPhase(doing.attempt, "FAILED")
                 /\ doing' = Idle
                 /\ UNCHANGED <<overdue, current, token, listed, exchanged, parted>>

\* The attempt has served: its file is removed, then the pointer.
RemoveAttempt == /\ doing.at = "attempt"
                 /\ SetPhase(doing.attempt, "gone")
                 /\ Goto("pointer")
                 /\ UNCHANGED <<overdue, current, token, listed, exchanged, parted>>

RemovePointer == /\ doing.at = "pointer"
                 /\ current' = NoAttempt
                 /\ doing' = Idle
                 /\ UNCHANGED <<attempt, overdue, token, listed, exchanged, parted>>

--------------------------------------------------------------------------------
(* Disconnection, faults and time *)

\* disconnect_identity: the token is unlinked, then the list is written.
Disconnect(x) == /\ doing = Idle /\ listed[x] # "none"
                 /\ token' = [token EXCEPT ![x] = "none"]
                 /\ doing' = [Idle EXCEPT !.at = "unlist", !.account = x]
                 /\ UNCHANGED <<attempt, overdue, current, listed, exchanged, parted>>

Unlist == /\ doing.at = "unlist"
          /\ listed' = [listed EXCEPT ![doing.account] = "none"]
          /\ parted' = parted \cup {doing.account}
          /\ doing' = Idle
          /\ UNCHANGED <<attempt, overdue, current, token, exchanged>>

\* The process is killed, or a write or unlink raises and the request ends with
\* an error page; what was written before remains.
Stop == /\ doing # Idle
        /\ doing' = Idle
        /\ UNCHANGED <<attempt, overdue, current, token, listed, exchanged, parted>>

FiveMinutesPass(a) ==
    /\ attempt[a] = "WAITING_FOR_AUTHORIZATION" /\ a \notin overdue
    /\ overdue' = overdue \cup {a}
    /\ UNCHANGED <<attempt, current, token, listed, doing, exchanged, parted>>

\* expires_at passes for a token without a refresh token.
TokenLapses(x) ==
    /\ token[x] = "live"
    /\ token' = [token EXCEPT ![x] = "lapsed"]
    /\ UNCHANGED <<attempt, overdue, current, listed, doing, exchanged, parted>>

AccountNext ==
    \/ \E a \in Attempt : \/ Start(a) \/ Cancel(a) \/ ShowAttempt(a) \/ Accept(a)
                          \/ FiveMinutesPass(a)
    \/ \E x \in Account : \/ \E scope \in {"read", "write"} : Exchange(x, scope)
                          \/ Disconnect(x) \/ TokenLapses(x)
    \/ Point \/ ExchangeFails \/ SaveToken \/ SaveList \/ SaveFails \/ RecordFailure
    \/ RemoveAttempt \/ RemovePointer \/ Unlist \/ Stop

--------------------------------------------------------------------------------
(* Properties *)

AccountTypeOK == /\ attempt \in [Attempt -> Phase]
                 /\ overdue \subseteq Attempt
                 /\ current \in Attempt \cup {NoAttempt}
                 /\ token \in [Account -> Token]
                 /\ listed \in [Account -> Scope]
                 /\ doing \in Doing
                 /\ exchanged \in [Attempt -> Nat]
                 /\ parted \subseteq Account

\* The code of an attempt is sent to the provider at most once, whatever stops a
\* request or is posted again, and never for an attempt that was answered
\* CANCELLED, TIMED_OUT or FAILED, or that a newer one replaced
\* (consume_authorization_callback writes VERIFYING_IDENTITY first).
CodesAreSpentOnce ==
    [][\A a \in Attempt : exchanged'[a] # exchanged[a] =>
         /\ exchanged[a] = 0
         /\ attempt[a] = "VERIFYING_IDENTITY" /\ current = a]_accountVars

================================================================================
