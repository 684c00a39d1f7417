---------------------------- MODULE RequestRetry ----------------------------
(***************************************************************************)
(* executor.go and credentials.go: one image request between the host's     *)
(* credential store and the helper.                                         *)
(*                                                                          *)
(* executeHelper reads a snapshot of the credentials, one host call for the *)
(* list and one for each entry, and sends it to the helper.  When the       *)
(* helper answers 401 it reads them a second time, and calls the helper     *)
(* again if a token is new.  Meanwhile time passes, tokens expire, the host *)
(* refreshes them and enables or disables entries.  The helper may answer   *)
(* 401 or anything else whatever it was sent: the plugin cannot see why.    *)
(*                                                                          *)
(* Time is counted in ticks, Second of them to a second, so that a fraction *)
(* of a second can be left.  The order of the credentials is left out: the  *)
(* helper goes round all of them.                                           *)
(***************************************************************************)
EXTENDS Naturals

CONSTANTS
    Auth,       \* the entries of the host's credential store
    Expiries,   \* when a token may expire; 0 is a token that does not say
    Timeout,    \* request_timeout of the configuration
    Margin,     \* how long a token must outlive the request (30 s)
    Second,     \* ticks in a second
    Fallback,   \* seconds the helper takes when it is given 0 (30)
    MaxVersion, \* bound: how often an entry may be refreshed
    MaxTime     \* bound: how far time runs

ASSUME TimeAssumption ==
    /\ Expiries \subseteq Nat
    /\ {Timeout, Second} \subseteq Nat \ {0}
    /\ {Margin, Fallback, MaxVersion, MaxTime} \subseteq Nat

Token == [auth : Auth, version : 0..MaxVersion, exp : Expiries]

VARIABLES
    now,            \* the time
    stored,         \* the token the host has for each entry
    enabled,        \* the entries of the list that may be used
    pc,             \* where executeHelper is
    attempt,        \* its loop variable
    deadline,       \* the deadline of its context
    minValidity,    \* the parameter of loadCredentials
    toRead,         \* the entries loadCredentials has still to read
    credentials,    \* the snapshot
    previous,       \* the snapshot of the first attempt
    rejected,       \* history: the tokens of the calls answered 401
    helperDeadline, \* when the helper gives up the call it got
    reply           \* what the client gets

host    == <<stored, enabled>>
reading == <<minValidity, toRead, credentials>>
attempts == <<attempt, previous, rejected>>
vars    == <<now, host, pc, attempts, deadline, reading, helperDeadline, reply>>

Replies == {"none", "image", "credential_expired", "no_credentials", "failed",
            "deadline"}

TypeOK ==
    /\ now \in 0..MaxTime
    /\ stored \in [Auth -> Token]
    /\ enabled \subseteq Auth
    /\ pc \in {"idle", "load", "list", "get", "call", "done"}
    /\ attempt \in {0, 1}
    /\ deadline \in 0..MaxTime
    /\ minValidity \in 0..Timeout
    /\ pc = "list" => minValidity > 0
    /\ toRead \subseteq Auth
    /\ credentials \subseteq Token
    /\ previous \subseteq Token
    /\ rejected \subseteq Token
    /\ helperDeadline \in Nat
    /\ reply \in Replies
    /\ reply # "none" <=> pc = "done"

Init ==
    /\ now = 0
    /\ stored \in [Auth -> {t \in Token : t.version = 0}]
    /\ \A a \in Auth : stored[a].auth = a
    /\ enabled \in SUBSET Auth
    /\ pc = "idle"
    /\ attempt = 0
    /\ deadline = 0
    /\ minValidity = 0
    /\ toRead = {}
    /\ credentials = {}
    /\ previous = {}
    /\ rejected = {}
    /\ helperDeadline = 0
    /\ reply = "none"

-----------------------------------------------------------------------------
(* The locals that no property reads are gone with the function's frame. *)
Conclude(outcome) ==
    /\ pc' = "done"
    /\ reply' = outcome
    /\ deadline' = 0 /\ minValidity' = 0 /\ helperDeadline' = 0
    /\ toRead' = {}
    /\ UNCHANGED <<now, host, attempt, previous, credentials>>

Finish(outcome) == Conclude(outcome) /\ UNCHANGED rejected

Begin ==
    /\ pc = "idle"
    /\ now + Timeout <= MaxTime
    /\ pc' = "load"
    /\ deadline' = now + Timeout
    /\ UNCHANGED <<now, host, attempts, reading, helperDeadline, reply>>

TimeIsUp == now >= deadline

LoadTooLate == pc = "load" /\ TimeIsUp /\ Finish("deadline")

StartLoading ==
    /\ pc = "load"
    /\ ~TimeIsUp
    /\ pc' = "list"
    /\ minValidity' = deadline - now
    /\ UNCHANGED <<now, host, attempts, deadline, toRead, credentials,
                   helperDeadline, reply>>

(* loadCredentials: the list, *)
ListAuths ==
    /\ pc = "list"
    /\ pc' = "get"
    /\ toRead' = enabled
    /\ credentials' = {}
    /\ UNCHANGED <<now, host, attempts, deadline, minValidity, helperDeadline,
                   reply>>

(* An error of loadCredentials; on the second attempt the client gets the   *)
(* error of the first call instead.                                         *)
LoadError == Finish(IF attempt = 0 THEN "no_credentials" ELSE "credential_expired")

ListFails == pc = "list" /\ LoadError

ExpiresBefore(token, time) == token.exp # 0 /\ token.exp <= time

(* Mutant: the token has to last for the margin only. *)
OutlivesMargin(token) == ~ExpiresBefore(token, now + Margin)

OutlivesRequest(token) == ~ExpiresBefore(token, now + minValidity + Margin)

(* then each listed entry, as the store has it by then. *)
GetAuth(a) ==
    /\ pc = "get"
    /\ a \in toRead
    /\ toRead' = toRead \ {a}
    /\ credentials' = credentials \cup {t \in {stored[a]} : OutlivesRequest(t)}
    /\ UNCHANGED <<now, host, pc, attempts, deadline, minValidity, helperDeadline,
                   reply>>

(* The entry is gone, or holds no token: it is passed over. *)
GetFails(a) ==
    /\ pc = "get"
    /\ a \in toRead
    /\ toRead' = toRead \ {a}
    /\ UNCHANGED <<now, host, pc, attempts, deadline, minValidity, credentials,
                   helperDeadline, reply>>

Loaded == pc = "get" /\ toRead = {} /\ credentials # {}

NoCredentials == pc = "get" /\ toRead = {} /\ credentials = {} /\ LoadError

(* Mutant: accounts are compared, not tokens. *)
RefreshedAccount ==
    \E t \in credentials : \A u \in previous : u.auth # t.auth

(* hasRefreshedCredential: a token the first snapshot did not have. *)
Refreshed == \E t \in credentials : t \notin previous

NothingNew ==
    /\ Loaded
    /\ attempt = 1 /\ ~Refreshed
    /\ Finish("credential_expired")

CallTooLate ==
    /\ Loaded
    /\ attempt = 0 \/ Refreshed
    /\ TimeIsUp
    /\ Finish("deadline")

(* Mutant: seconds are rounded down. *)
WholeSecondsLeft == (deadline - now) \div Second

(* remainingTimeoutSeconds rounds up, *)
SecondsLeft == (deadline - now + Second - 1) \div Second

(* and the helper counts them from the moment it reads the call, taking 0   *)
(* for a missing value.  The frame's time in the pipe is left out.          *)
HelperSeconds(seconds) == IF seconds = 0 THEN Fallback ELSE seconds

Call ==
    /\ Loaded
    /\ attempt = 0 \/ Refreshed
    /\ ~TimeIsUp
    /\ pc' = "call"
    /\ helperDeadline' = now + HelperSeconds(SecondsLeft) * Second
    /\ UNCHANGED <<now, host, attempts, deadline, reading, reply>>

-----------------------------------------------------------------------------
(* The answers of helper.Call.                                              *)

CallSucceeds == pc = "call" /\ Finish("image")

(* Status 401.  The first time the credentials are read again, *)
CallRejected ==
    /\ pc = "call"
    /\ attempt = 0
    /\ pc' = "load"
    /\ attempt' = 1
    /\ previous' = credentials
    /\ rejected' = credentials
    /\ helperDeadline' = 0
    /\ UNCHANGED <<now, host, deadline, reading, reply>>

(* the second time it is the answer. *)
CallRejectedAgain ==
    /\ pc = "call"
    /\ attempt = 1
    /\ rejected' = rejected \cup credentials
    /\ Conclude("credential_expired")

CallFails == pc = "call" /\ Finish("failed")

(* Mutant: Call waits for the helper alone. *)
CallNeverExpires == pc = "call" /\ FALSE /\ Finish("deadline")

CallExpires == pc = "call" /\ TimeIsUp /\ Finish("deadline")

-----------------------------------------------------------------------------
(* The host and the clock.                                                  *)

request == <<pc, attempts, deadline, reading, helperDeadline, reply>>

HostRefreshes(a) ==
    /\ stored[a].version < MaxVersion
    /\ \E exp \in Expiries :
         stored' = [stored EXCEPT ![a] = [auth    |-> a,
                                          version |-> stored[a].version + 1,
                                          exp     |-> exp]]
    /\ UNCHANGED <<now, enabled, request>>

HostToggles(a) ==
    /\ enabled' = (enabled \ {a}) \cup ({a} \ enabled)
    /\ UNCHANGED <<now, stored, request>>

Tick ==
    /\ now < MaxTime
    /\ now' = now + 1
    /\ UNCHANGED <<host, request>>

-----------------------------------------------------------------------------
Load ==
    \/ LoadTooLate
    \/ StartLoading
    \/ ListAuths
    \/ ListFails
    \/ \E a \in Auth : GetAuth(a) \/ GetFails(a)
    \/ NoCredentials

Decide == NothingNew \/ CallTooLate \/ Call

Answer == CallSucceeds \/ CallRejected \/ CallRejectedAgain \/ CallFails

(* What happens after the answer no longer matters. *)
Environment ==
    /\ pc # "done"
    /\ \/ \E a \in Auth : HostRefreshes(a) \/ HostToggles(a)
       \/ Tick

Next == Begin \/ Load \/ Decide \/ Answer \/ CallExpires \/ Environment

Spec == Init /\ [][Next]_vars

(* Go runs the goroutine, the host answers its callbacks and time goes on.  *)
(* The helper need not answer.                                              *)
FairSpec ==
    /\ Spec
    /\ WF_vars(Load)
    /\ WF_vars(Decide)
    /\ WF_vars(CallExpires)
    /\ WF_vars(pc # "done" /\ Tick)

-----------------------------------------------------------------------------
(* README.md:191: a token in the snapshot outlives the request, the margin  *)
(* included, however long the host took to hand it over and whichever       *)
(* attempt it is for (credentials.go:46).                                   *)
CredentialsOutliveRequest ==
    \A t \in credentials :
      pc \in {"get", "call"} => t.exp = 0 \/ t.exp > deadline + Margin

(* The helper never gives up a call before the plugin does, and works for   *)
(* it less than a second after the plugin gave up.  Both attempts share one *)
(* deadline, and a rest below a second is not taken for no timeout at all   *)
(* (executor.go:116, main.py:96).                                           *)
HelperDeadlineFits ==
    pc = "call" => deadline <= helperDeadline /\ helperDeadline < deadline + Second

(* A client is told that its credentials expired, and has to sign in again, *)
(* only when there is no token left to try: each one the plugin read last   *)
(* was among those of a call the helper answered 401.  A token the host     *)
(* refreshed in the meantime is tried first (executor.go:71-87).            *)
AuthErrorIsGenuine ==
    reply = "credential_expired" => rejected # {} /\ credentials \subseteq rejected

(* A request that began ends, whether or not the helper ever answers.       *)
RequestEnds == pc # "idle" ~> pc = "done"
=============================================================================
