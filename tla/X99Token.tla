------------------------------ MODULE X99Token ------------------------------
(***************************************************************************)
(* The challenge/response OTP module rlm_x99_token (x99_rlm.c).            *)
(*                                                                         *)
(* A request is a process.  x99_token_authorize runs as one atomic step    *)
(* (it touches no shared state besides the read-only hmac key).            *)
(* x99_token_authenticate is a sequence of steps, one per call into the    *)
(* per-user sync store (x99_get_last_auth, x99_check_failcount,            *)
(* x99_get_sync_data, x99_set_sync_data, x99_reset_failcount,              *)
(* x99_incr_failcount, x99_set_last_auth_pos).  Each such call takes the    *)
(* user's lock on its own (x99_sync.h: x99_acquire_sd_lock), so each is    *)
(* atomic, but the handler as a whole is not: the module is declared       *)
(* RLM_TYPE_THREAD_SAFE and up to Threads requests run it at once.         *)
(*                                                                         *)
(* Data abstraction.  A token challenge is a point <<anchor, n>> of an     *)
(* event-synchronous chain: the n-th challenge after the anchor.  The      *)
(* passcode a card shows for a challenge is identified with that point     *)
(* (the response function is injective on the points of the model).  The  *)
(* initial sync challenge of a user is <<Seed, 0>>; an async challenge c   *)
(* is the point <<c, 0>>.  Time is a whole number of seconds.              *)
(***************************************************************************)
EXTENDS Integers, Sequences, FiniteSets, Functions

CONSTANTS
    Users,          \* user names that may appear in requests
    KnownUsers,     \* users present in the password file
    CardCaps,       \* CardCaps[u] \subseteq {"SM", "AM"}: card_id flags
    Req,            \* request identifiers (one request each)
    Challenges,     \* values x99_get_challenge may return
    Seed,           \* anchor of every user's initial sync challenge
    Passcodes,      \* passcodes a client may type (points and junk)
    ChalReq,        \* the challenge_req keyword
    ResyncReq,      \* the resync_req keyword
    NoPassword,     \* request without User-Password or equivalent
    NoState,        \* request without a State attribute
    NoUser,         \* placeholder user of an unused request slot
    Threads,        \* requests that may run authenticate at once
    MaxTime,        \* bound on the clock
    StoreFaults     \* whether a call into the sync store may fail

\* Configuration items of module_config, before x99_token_instantiate.
CONSTANTS
    ChalDelay, Softfail, Hardfail, AllowSync, AllowAsync, FastSync,
    EWindowSize, EWindow2Size, EWindow2Delay, MaxEWindowSize

ASSUME /\ KnownUsers \subseteq Users
       /\ CardCaps \in [KnownUsers -> SUBSET {"SM", "AM"}]
       /\ Threads \in Nat \ {0}
       /\ {ChalDelay, EWindowSize, EWindow2Size, EWindow2Delay, MaxTime} \subseteq Nat
       /\ {Softfail, Hardfail} \subseteq Int
       /\ AllowSync \/ AllowAsync
       /\ StoreFaults \in BOOLEAN

VARIABLES
    now,        \* time(NULL)
    store,      \* store[u]: the user's sync file (x99_get_sd/x99_set_sd)
    issued,     \* State attributes sent in Access-Challenge replies
    req,        \* req[r]: the request's inputs, locals and progress
    accepted,   \* history: <<user, passcode>> of every RLM_MODULE_OK
    wrong,      \* history: unmatched passcodes since the last success
    lastSoft    \* history: the passcode of the user's last softfail-mode attempt

vars == <<now, store, issued, req, accepted, wrong, lastSoft>>

-----------------------------------------------------------------------------
(* x99_token_instantiate: range checks that rewrite the configuration.     *)

\* A negative softfail becomes the default of 5, a negative hardfail 0
\* (no hard lock); 0 means infinite for both.
SoftfailLimit == IF Softfail < 0 THEN 5 ELSE Softfail
HardfailLimit == IF Hardfail < 0 THEN 0 ELSE Hardfail

FastSyncOn == FastSync /\ AllowSync

EWindow == IF EWindowSize > MaxEWindowSize THEN 0 ELSE EWindowSize

EWindow2 ==
    IF EWindow2Size # 0 /\ (EWindow2Size < EWindow \/ EWindow2Delay = 0)
    THEN 0 ELSE EWindow2Size

\* Capabilities of a user; an unknown user is treated as X99_CF_NONE.
Caps(u) == IF u \in KnownUsers THEN CardCaps[u] ELSE {}

-----------------------------------------------------------------------------
(* Challenges, responses and the sync store (x99_sync.c, not in src/).     *)

\* Mutant: the chain walked the wrong way.
ChainBackward(p, i) == <<p[1], p[2] - i>>

\* The i-th challenge after the stored one (x99_get_sync_data, ewin = i).
Chain(p, i) == <<p[1], p[2] + i>>

\* x99_get_sync_data with ewin = 1 from a given challenge: the next one.
NextChallenge(p) == Chain(p, 1)

\* The async challenge c as a point; its response is the passcode <<c, 0>>.
AsyncChallenge(c) == <<c, 0>>

\* Mutant: hardfail takes effect one failure late.
HardLockedLate(f) == HardfailLimit > 0 /\ f > HardfailLimit

\* x99_check_failcount's disposition of a failure count.
HardLocked(f) == HardfailLimit > 0 /\ f >= HardfailLimit
SoftLocked(f) == SoftfailLimit > 0 /\ f >= SoftfailLimit

Disposition(f) ==
    CASE HardLocked(f) -> "HARD"
      [] SoftLocked(f) -> "SOFT"
      [] OTHER         -> "OK"

-----------------------------------------------------------------------------
(* State attribute: x99_gen_state and the checks of lines 506-553.         *)

\* The State x99_token_authorize attaches for user u and challenge c.
GenState(u, c, resync) ==
    IF "AM" \in Caps(u)
    THEN [chal |-> c, resync |-> resync, then |-> now, prot |-> TRUE,
          mac |-> TRUE]
    ELSE [chal |-> c, resync |-> FALSE, then |-> 0, prot |-> FALSE,
          mac |-> FALSE]

\* What a client can send back: a State it received, one of those with its
\* issue time refreshed or its resync bit flipped (the hmac then no longer
\* matches), or one of the wrong length.
Presentable ==
    {NoState} \cup issued
      \cup {[t EXCEPT !.then = now, !.mac = FALSE] : t \in issued}
      \cup {[t EXCEPT !.resync = ~t.resync, !.mac = FALSE] :
              t \in {s \in issued : s.prot}}
      \cup {[t EXCEPT !.prot = ~t.prot] : t \in issued}

\* Mutant: the hmac comparison of line 532 left out.
StateVerdictNoMac(u, st) ==
    CASE st = NoState                   -> "FAIL"
      [] st.prot # ("AM" \in Caps(u))    -> "INVALID"
      [] now - st.then > ChalDelay       -> "REJECT"
      [] OTHER                           -> "good"

\* Verdict on the State of a non-fast_sync request of user u.
StateVerdict(u, st) ==
    CASE st = NoState                   -> "FAIL"
      [] st.prot # ("AM" \in Caps(u))    -> "INVALID"
      [] ~st.prot                        -> "good"
      [] ~st.mac                         -> "REJECT"
      [] now - st.then > ChalDelay       -> "REJECT"
      [] OTHER                           -> "good"

-----------------------------------------------------------------------------
(* The requests.                                                           *)

FreeReq == [pc |-> "free", u |-> NoUser, pw |-> NoPassword, st |-> NoState,
            fast |-> FALSE, la |-> 0, fc |-> "OK", start |-> 0,
            i |-> 0, pos |-> <<Seed, 0>>, res |-> "none"]

InFlight == {r \in Req : req[r].pc \notin {"free", "authn", "done"}}

\* The handler returns res; the request's locals are discarded.
Finish(r, res) == req' = [req EXCEPT ![r] = [FreeReq EXCEPT !.pc = "done",
                                                        !.res = res]]

Goto(r, pc) == req' = [req EXCEPT ![r].pc = pc]

Init ==
    /\ now = 0
    /\ store = [u \in KnownUsers |->
                  [pos |-> <<Seed, 0>>, fail |-> 0, last |-> 0, apos |-> 0]]
    /\ issued = {}
    /\ req = [r \in Req |-> FreeReq]
    /\ accepted = << >>
    /\ wrong = [u \in KnownUsers |-> 0]
    /\ lastSoft = [u \in KnownUsers |-> NoPassword]

-----------------------------------------------------------------------------
(* x99_token_authorize: emit a challenge, or pass on to authenticate.      *)

\* fast_sync applies to cards with sync mode, and to unknown users.
FastSyncUser(u) == FastSyncOn /\ ("SM" \in Caps(u) \/ u \notin KnownUsers)

Authorize(r) ==
    /\ req[r].pc = "free"
    /\ \E u \in Users, st \in Presentable,
          pw \in Passcodes \cup {NoPassword, ChalReq, ResyncReq} :
         LET q == [FreeReq EXCEPT !.u = u, !.pw = pw, !.st = st]
             \* the resync bit: requested under fast_sync, else always
             resync == IF FastSyncOn THEN FastSyncUser(u) /\ pw = ResyncReq
                                     ELSE TRUE
         IN
         \/ /\ st # NoState                \* a response to a challenge
            /\ req' = [req EXCEPT ![r] = [q EXCEPT !.pc = "authn"]]
            /\ UNCHANGED issued
         \/ /\ st = NoState
            /\ pw = NoPassword
            /\ req' = [req EXCEPT ![r] = [q EXCEPT !.pc = "done",
                                                   !.res = "INVALID"]]
            /\ UNCHANGED issued
         \/ /\ st = NoState                \* fast_sync: try pw as sync
            /\ FastSyncUser(u)
            /\ pw \notin {NoPassword, ChalReq, ResyncReq}
            /\ req' = [req EXCEPT ![r] = [q EXCEPT !.pc = "authn",
                                                   !.fast = TRUE]]
            /\ UNCHANGED issued
         \/ /\ st = NoState                \* gen_challenge
            /\ pw # NoPassword
            /\ ~FastSyncUser(u) \/ pw \in {ChalReq, ResyncReq}
            /\ \E c \in Challenges \ {t.chal : t \in issued} :
                  issued' = issued \cup {GenState(u, c, resync)}
            /\ req' = [req EXCEPT ![r] = [q EXCEPT !.pc = "done",
                                                   !.res = "CHALLENGE"]]
    /\ UNCHANGED <<now, store, accepted, wrong, lastSoft>>

-----------------------------------------------------------------------------
(* x99_token_authenticate, one step per call into the sync store.          *)

\* Lines 471-564: attribute checks, user lookup, State verification, and
\* x99_get_last_auth.
GetLastAuth(r) ==
    LET q == req[r] IN
    /\ q.pc = "authn"
    /\ Cardinality(InFlight) < Threads
    /\ \/ /\ q.pw = NoPassword
          /\ Finish(r, "INVALID")
       \/ /\ q.pw # NoPassword
          /\ q.u \notin KnownUsers
          /\ Finish(r, "REJECT")
       \/ /\ q.pw # NoPassword
          /\ q.u \in KnownUsers
          /\ ~q.fast
          /\ StateVerdict(q.u, q.st) # "good"
          /\ Finish(r, StateVerdict(q.u, q.st))
       \/ /\ q.pw # NoPassword
          /\ q.u \in KnownUsers
          /\ q.fast \/ StateVerdict(q.u, q.st) = "good"
          /\ req' = [req EXCEPT ![r].la = store[q.u].last,
                                ![r].pc = "failcount"]
    /\ UNCHANGED <<now, store, issued, accepted, wrong, lastSoft>>

\* Lines 566-600: x99_check_failcount (which counts a softfail attempt
\* itself) and the ewindow2 branches that follow it.
CheckFailcount(r) ==
    LET q == req[r]
        f == store[q.u].fail
        counted == [store EXCEPT ![q.u].fail = f + 1]
    IN
    /\ q.pc = "failcount"
    /\ \/ /\ Disposition(f) = "HARD"
          /\ Finish(r, "USERLOCK")
          /\ UNCHANGED store
       \/ /\ Disposition(f) = "SOFT"
          /\ EWindow2 = 0
          /\ store' = counted
          /\ Finish(r, "USERLOCK")
       \/ /\ Disposition(f) = "SOFT"
          /\ EWindow2 # 0
          /\ ~q.fast                    \* async: record it, and lock
          /\ store' = counted
          /\ req' = [req EXCEPT ![r].pc = "setpos", ![r].i = 0,
                                ![r].res = "USERLOCK"]
       \/ /\ Disposition(f) = "SOFT"
          /\ EWindow2 # 0
          /\ q.fast                     \* ewindow2 mode
          /\ store' = counted
          /\ req' = [req EXCEPT ![r].fc = "SOFT", ![r].pc = "sync"]
       \/ /\ Disposition(f) = "OK"
          /\ req' = [req EXCEPT ![r].pc =
                       IF "AM" \in Caps(q.u) /\ ~q.fast THEN "async"
                                                       ELSE "sync"]
          /\ UNCHANGED store
    \* an async attempt in softfail breaks a run of sync responses
    /\ lastSoft' = IF Disposition(f) = "SOFT" /\ EWindow2 # 0 /\ ~q.fast
                   THEN [lastSoft EXCEPT ![q.u] = NoPassword] ELSE lastSoft
    /\ UNCHANGED <<now, issued, accepted, wrong>>

\* Lines 602-677: test the response to the challenge carried in State.
VerifyAsync(r) ==
    LET q == req[r]
        match == q.pw = AsyncChallenge(q.st.chal)
    IN
    /\ q.pc = "async"
    /\ \/ /\ match
          /\ ~AllowAsync \/ now - q.la < ChalDelay
          /\ Finish(r, "REJECT")
       \/ /\ match
          /\ AllowAsync
          /\ now - q.la >= ChalDelay
          /\ req' = [req EXCEPT ![r].pc = IF q.st.resync THEN "setsync"
                                                         ELSE "resetfail",
                                ![r].pos = NextChallenge(AsyncChallenge(q.st.chal))]
       \/ /\ ~match
          /\ Goto(r, "sync")
    /\ UNCHANGED <<now, store, issued, accepted, wrong, lastSoft>>

\* Mutant: position 0 accepted as the first of two consecutive responses.
EWindow2OverrideFromZero(start, i, la) ==
    i = start + 1 /\ now - la < EWindow2Delay

\* ewindow2 softfail override (lines 752-760): the 2nd of two consecutive
\* responses, soon enough after the last authentication.
EWindow2Override(start, i, la) ==
    start # 0 /\ i = start + 1 /\ now - la < EWindow2Delay

\* Mutant: the matched challenge is stored instead of the one after it.
ResyncPointStale(S, i) == Chain(S, i)

\* Lines 777-788: the challenge stored after a match at window offset i,
\* x99_get_sync_data(ewin = 1) from the matched one.
ResyncPoint(S, i) == NextChallenge(Chain(S, i))

\* Lines 679-714: enter the sync window search; in ewindow2 mode start at
\* the stored candidate position (x99_get_last_auth_pos).
SyncResponse(r) ==
    LET q == req[r] IN
    /\ q.pc = "sync"
    /\ \/ /\ "SM" \in Caps(q.u) /\ AllowSync
          /\ req' = [req EXCEPT ![r].start =
                       IF q.fc = "SOFT" THEN store[q.u].apos ELSE 0,
                                ![r].pc = "scan"]
          /\ UNCHANGED wrong
       \/ /\ ~("SM" \in Caps(q.u) /\ AllowSync)  \* both modes failed
          /\ req' = [req EXCEPT ![r].pc =
                       IF q.fc # "SOFT" THEN "incrfail" ELSE "setpos",
                                ![r].i = 0, ![r].res = "REJECT"]
          /\ wrong' = [wrong EXCEPT ![q.u] = @ + 1]
    /\ UNCHANGED <<now, store, issued, accepted, lastSoft>>

\* Lines 716-807: x99_get_sync_data for the stored challenge, then test the
\* window start..end.  A match resyncs (x99_set_sync_data) unless it is only
\* an ewindow2 candidate; no match counts a failure (unless softfail already
\* did) and resets the candidate position.
ScanWindow(r) ==
    LET q == req[r]
        S == store[q.u].pos
        end == IF q.fc = "SOFT" THEN EWindow2 ELSE EWindow
        hits == {i \in q.start .. end : Chain(S, i) = q.pw}
    IN
    /\ q.pc = "scan"
    /\ lastSoft' = IF q.fc = "SOFT" THEN [lastSoft EXCEPT ![q.u] = q.pw] ELSE lastSoft
    /\ \/ /\ hits = {}
          /\ req' = [req EXCEPT ![r].pc =
                       IF q.fc # "SOFT" THEN "incrfail" ELSE "setpos",
                                ![r].i = 0, ![r].res = "REJECT"]
          /\ wrong' = [wrong EXCEPT ![q.u] = @ + 1]
       \/ \E i \in hits :
            /\ q.fc = "SOFT"
            /\ ~EWindow2Override(q.start, i, q.la)
            /\ req' = [req EXCEPT ![r].pc = "setpos", ![r].i = i,
                                  ![r].res = "REJECT"]
            /\ UNCHANGED wrong
       \/ \E i \in hits :
            /\ q.fc = "OK" \/ EWindow2Override(q.start, i, q.la)
            /\ req' = [req EXCEPT ![r].pc = "setsync",
                                  ![r].pos = ResyncPoint(S, i)]
            /\ UNCHANGED wrong
    /\ UNCHANGED <<now, store, issued, accepted>>

\* x99_set_sync_data (lines 647-667, 777-788): store the next challenge;
\* its side effects reset the failcount and candidate position and set the
\* last authentication time.
SetSyncData(r) ==
    LET q == req[r] IN
    /\ q.pc = "setsync"
    /\ store' = [store EXCEPT ![q.u] = [pos |-> q.pos, fail |-> 0,
                                        last |-> now, apos |-> 0]]
    /\ Finish(r, "OK")
    /\ accepted' = Append(accepted, <<q.u, q.pw>>)
    /\ wrong' = [wrong EXCEPT ![q.u] = 0]
    /\ lastSoft' = [lastSoft EXCEPT ![q.u] = NoPassword]
    /\ UNCHANGED <<now, issued>>

\* x99_reset_failcount (lines 668-675): "update failcount, last_auth,
\* auth_pos" after an async success without the resync bit.
ResetFailcount(r) ==
    LET q == req[r] IN
    /\ q.pc = "resetfail"
    /\ store' = [store EXCEPT ![q.u].fail = 0, ![q.u].last = now,
                              ![q.u].apos = 0]
    /\ Finish(r, "OK")
    /\ accepted' = Append(accepted, <<q.u, q.pw>>)
    /\ wrong' = [wrong EXCEPT ![q.u] = 0]
    /\ lastSoft' = [lastSoft EXCEPT ![q.u] = NoPassword]
    /\ UNCHANGED <<now, issued>>

\* x99_incr_failcount (lines 796-801).
IncrFailcount(r) ==
    LET q == req[r] IN
    /\ q.pc = "incrfail"
    /\ store' = [store EXCEPT ![q.u].fail = @ + 1]
    /\ Goto(r, "setpos")
    /\ UNCHANGED <<now, issued, accepted, wrong, lastSoft>>

\* x99_set_last_auth_pos (lines 581-585, 802-807), then return the result.
SetLastAuthPos(r) ==
    LET q == req[r] IN
    /\ q.pc = "setpos"
    /\ store' = [store EXCEPT ![q.u].apos = q.i]
    /\ Finish(r, q.res)
    /\ UNCHANGED <<now, issued, accepted, wrong, lastSoft>>

-----------------------------------------------------------------------------
(* Failed calls into the sync store (a file that cannot be read, written  *)
(* or locked).  Each is the error branch after the call.                  *)

\* x99_get_last_auth fails (lines 560-564): RLM_MODULE_FAIL.
GetLastAuthFails(r) ==
    LET q == req[r] IN
    /\ StoreFaults
    /\ q.pc = "authn"
    /\ Cardinality(InFlight) < Threads
    /\ q.pw # NoPassword /\ q.u \in KnownUsers
    /\ q.fast \/ StateVerdict(q.u, q.st) = "good"
    /\ Finish(r, "FAIL")
    /\ UNCHANGED <<now, store, issued, accepted, wrong, lastSoft>>

\* x99_check_failcount returns FAIL_ERR (lines 566-568): RLM_MODULE_USERLOCK.
CheckFailcountErr(r) ==
    /\ StoreFaults
    /\ req[r].pc = "failcount"
    /\ Finish(r, "USERLOCK")
    /\ UNCHANGED <<now, store, issued, accepted, wrong, lastSoft>>

\* Mutant: a failed resync still reports the response as accepted.
ResyncFailsAccepted(r) ==
    /\ StoreFaults
    /\ req[r].pc \in {"setsync", "resetfail"}
    /\ Finish(r, "OK")
    /\ accepted' = Append(accepted, <<req[r].u, req[r].pw>>)
    /\ UNCHANGED <<now, store, issued, wrong, lastSoft>>

\* The resync after a correct response fails: x99_get_sync_data or
\* x99_set_sync_data (lines 654-666, 777-788) or x99_reset_failcount
\* (lines 668-674).  RLM_MODULE_FAIL, and the store is as it was.
ResyncFails(r) ==
    /\ StoreFaults
    /\ req[r].pc \in {"setsync", "resetfail"}
    /\ Finish(r, "FAIL")
    /\ UNCHANGED <<now, store, issued, accepted, wrong, lastSoft>>

\* x99_get_sync_data fails for window slot i (lines 718-727): FAIL, and
\* "last_auth, failcount not updated", though the passcode has already been
\* tested against slots start..i-1 and matched none of them.
ScanFails(r) ==
    LET q == req[r]
        S == store[q.u].pos
    IN
    /\ StoreFaults
    /\ q.pc = "scan"
    /\ \E i \in q.start .. (IF q.fc = "SOFT" THEN EWindow2 ELSE EWindow) :
          /\ \A k \in q.start .. (i - 1) : Chain(S, k) # q.pw
          /\ wrong' = IF i > q.start THEN [wrong EXCEPT ![q.u] = @ + 1] ELSE wrong
    /\ lastSoft' = IF q.fc = "SOFT" THEN [lastSoft EXCEPT ![q.u] = q.pw] ELSE lastSoft
    /\ Finish(r, "FAIL")
    /\ UNCHANGED <<now, store, issued, accepted>>

\* x99_incr_failcount fails (lines 796-801): only logged; the request goes
\* on to x99_set_last_auth_pos and is rejected.
IncrFailcountFails(r) ==
    /\ StoreFaults
    /\ req[r].pc = "incrfail"
    /\ Goto(r, "setpos")
    /\ UNCHANGED <<now, store, issued, accepted, wrong, lastSoft>>

\* x99_set_last_auth_pos fails (lines 581-585, 802-807): only logged.
SetLastAuthPosFails(r) ==
    /\ StoreFaults
    /\ req[r].pc = "setpos"
    /\ Finish(r, req[r].res)
    /\ UNCHANGED <<now, store, issued, accepted, wrong, lastSoft>>

-----------------------------------------------------------------------------
(* Environment: the clock, and the end of the bounded run of requests.     *)

Tick ==
    /\ now < MaxTime
    /\ now' = now + 1
    /\ UNCHANGED <<store, issued, req, accepted, wrong, lastSoft>>

\* No handler is running and no further request will be sent.
Quiescent ==
    /\ \A r \in Req : req[r].pc \in {"free", "done"}
    /\ UNCHANGED vars

Next ==
    \/ \E r \in Req :
         \/ Authorize(r)
         \/ GetLastAuth(r)
         \/ CheckFailcount(r)
         \/ VerifyAsync(r)
         \/ SyncResponse(r)
         \/ ScanWindow(r)
         \/ SetSyncData(r)
         \/ ResetFailcount(r)
         \/ IncrFailcount(r)
         \/ SetLastAuthPos(r)
         \/ GetLastAuthFails(r)
         \/ CheckFailcountErr(r)
         \/ ResyncFails(r)
         \/ ScanFails(r)
         \/ IncrFailcountFails(r)
         \/ SetLastAuthPosFails(r)
    \/ Tick
    \/ Quiescent

Spec == Init /\ [][Next]_vars

-----------------------------------------------------------------------------
(* Properties.                                                             *)

Points == ({Seed} \cup Challenges) \X Nat

TypeOK ==
    /\ now \in 0 .. MaxTime
    /\ store \in [KnownUsers -> [pos: Points, fail: Nat, last: Nat,
                                  apos: Nat]]
    /\ \A r \in Req :
         /\ req[r].pc \in {"free", "authn", "failcount", "async", "sync",
                           "scan", "setsync", "resetfail", "incrfail",
                           "setpos", "done"}
         /\ req[r].fc \in {"OK", "SOFT"}
         /\ req[r].pos \in Points
    /\ accepted \in Seq(KnownUsers \X Passcodes)
    /\ wrong \in [KnownUsers -> Nat]
    /\ lastSoft \in [KnownUsers -> Passcodes \cup {NoPassword}]

\* One-time passwords are one-time: no passcode of a user is accepted by
\* x99_token_authenticate twice, whether through the sync window (which
\* must move past it, lines 777-788) or through an async challenge (whose
\* reuse the chal_delay test of line 633 must refuse).
OtpAcceptedOnce == IsInjective(accepted)

\* Lockout bounds guessing: with hardfail set, no more than hardfail
\* passcodes that match nothing are ever tested for a user after its last
\* success (x99_check_failcount before the test, x99_incr_failcount after).
GuessBound ==
    HardfailLimit > 0 => \A u \in KnownUsers : wrong[u] <= HardfailLimit

\* The ewindow2 softfail override needs two consecutive responses ("User
\* must authenticate twice in a row", line 753): when the window scan of a
\* user in softfail lets in passcode <<a, n>>, the user's previous attempt
\* in softfail mode was <<a, n-1>> (the `start &&` test of line 754 and
\* the reset of the candidate position at line 802 exist for this).
SoftfailNeedsConsecutive ==
    [][\A r \in Req :
         (/\ req[r].pc = "scan" /\ req[r].fc = "SOFT"
          /\ req'[r].pc = "setsync")
           => lastSoft[req[r].u] = <<req[r].pw[1], req[r].pw[2] - 1>>]_vars

\* The State attribute cannot be forged or kept beyond its lifetime: when
\* x99_token_authenticate accepts a protected State (lines 506-546), the
\* server issued a State with that challenge and resync bit, no more than
\* chal_delay seconds ago.
AsyncStateAuthentic ==
    [][\A r \in Req :
         (/\ req[r].pc = "authn" /\ req'[r].pc = "failcount"
          /\ ~req[r].fast /\ req[r].st.prot)
           => \E t \in issued :
                /\ t.chal = req[r].st.chal /\ t.resync = req[r].st.resync
                /\ now - t.then <= ChalDelay]_vars

=============================================================================
