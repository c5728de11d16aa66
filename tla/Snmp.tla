-------------------------------- MODULE Snmp --------------------------------
(***************************************************************************)
(* The SNMP side of the server (src/main/radius_snmp.c): the client tables *)
(* of the RADIUS auth and acct MIBs as get_client and radAuthEntry /       *)
(* radAccEntry answer them, the radiusAuthServConfigReset write method     *)
(* radServReset, and radius_snmp_init as run at startup and on every HUP.  *)
(*                                                                         *)
(* A manager reads a column with GET or walks it with GETNEXT; the SMUX    *)
(* code (not in src/) hands each request's instance suffix to the table    *)
(* handler, as smux.h's FindVarMethod: with exact = 0 the handler must     *)
(* answer the first instance after the suffix and rewrite the suffix to   *)
(* it.  A NULL answer ends the column: the agent moves on to the next one. *)
(* Clients are numbered from 0 (client_findbynumber); an OID index k names *)
(* client k - 1.                                                           *)
(***************************************************************************)
EXTENDS Integers, Sequences

CONSTANTS
    Clients,      \* address family of each client, in client number order
    MaxWalk,      \* answers one walk may collect
    MaxReloads,   \* HUPs the server handles
    MaxTime       \* the last second time(NULL) reaches

\* Columns of radiusAuthClientTable / radiusAccClientTable: the address
\* (IpAddress, IPv4 only) and the others (identifier, counters), which
\* every client has.
Columns == {"address", "other"}

Tables == {"auth", "acct"}

None == -1

\* SuffixSet a manager sends: none, an index, an index with more sub-ids.
MaxIdx == Len(Clients) + 2
SuffixSet == {<<>>} \cup {<<k>> : k \in 0 .. MaxIdx}
              \cup {<<k, 1>> : k \in 0 .. MaxIdx}

ASSUME
    /\ Clients \in Seq({"inet", "inet6"})
    /\ MaxWalk \in Nat /\ MaxReloads \in Nat /\ MaxTime \in Nat

\* client_findbynumber(NULL, i).
FindByNumber(i) == IF i < Len(Clients) THEN i ELSE None

\* get_client with exact = 1 (lines 201-211): one sub-id, not 0.
GetClientExact(suffix) ==
    IF Len(suffix) # 1 \/ suffix[1] = 0 THEN None
    ELSE FindByNumber(suffix[1] - 1)

\* get_client without objid[v->namelen]++: the suffix stays on the request.
GetClientNextNoIncrement(suffix) ==
    IF suffix = <<>> \/ suffix[1] = 0
    THEN [c |-> FindByNumber(0), label |-> 1]
    ELSE [c |-> FindByNumber(suffix[1] - 1), label |-> suffix[1]]

\* get_client with exact = 0 (lines 212-223): the client and the index it
\* rewrites the suffix to.
GetClientNext(suffix) ==
    IF suffix = <<>> \/ suffix[1] = 0
    THEN [c |-> FindByNumber(0), label |-> 1]
    ELSE LET c == FindByNumber(suffix[1] - 1)
         IN  [c |-> c, label |-> IF c # None THEN suffix[1] + 1 ELSE suffix[1]]

\* The column's value for client c (lines 488-546, 340-397): the address
\* column has no value for a client that is not AF_INET.
Entry(col, c) ==
    IF c = None \/ (col = "address" /\ Clients[c + 1] # "inet") THEN None
    ELSE c

GetAnswer(col, suffix) == Entry(col, GetClientExact(suffix))

\* radServReset's RESERVE1 checks (lines 235-244).
Reserve1Ok(type, len, enc, val) ==
    type = "INTEGER" /\ len = "long" /\ enc = "ok" /\ val = 2

\* Scalars of radiusAuthServ / radiusAccServ: the ones radius_snmp.c
\* computes (uptime, reset time, ConfigReset) and the ones it returns from
\* rad_snmp as they are (the ident string and the total counters, which
\* the request code outside src/ increments).
Scalars == {"uptime", "resettime", "configreset", "stored"}

\* radAuthServ / radAccServ (lines 257-330, 403-479) with the clock at now
\* and the times radius_snmp_init stored: TimeTicks are hundredths of a
\* second, sent as the 32 bits of an int32_t (they wrap after 2^32 of
\* them, about 497 days, far beyond the model's clock); reading
\* ConfigReset gives running(4).
TimeTicks(seconds) == seconds * 100
ScalarAnswer(name, now0, start, lastReset) ==
    CASE name = "uptime"      -> TimeTicks(now0 - start)
      [] name = "resettime"   -> TimeTicks(now0 - lastReset)
      [] name = "configreset" -> 4
      [] name = "stored"      -> 0

VARIABLES
    now,          \* time(NULL), in seconds
    startTime,    \* rad_snmp.auth.start_time (acct copies it)
    lastResetTime,\* rad_snmp.auth.last_reset_time (acct copies it)
    lastScalar,   \* the last scalar GET: [name, val]
    started,      \* radius_snmp_init has run once
    initialized,  \* its static flag
    everOn,       \* history: some call ran with snmp = yes
    running,      \* smux_start after smux_stop: the agent serves requests
    registered,   \* [Tables -> number of SMUX_REGISTER_MIB calls]
    reloads,      \* HUPs handled
    hup,          \* a HUP is pending (radius_signal_self or kill -HUP)
    set,          \* phase of the last SET on ConfigReset
    walk,         \* the manager's GETNEXT walk of one column
    lastGet       \* the last GET: [col, suffix, val]

vars == <<now, startTime, lastResetTime, lastScalar, started, initialized, everOn, running, registered, reloads, hup,
          set, walk, lastGet>>

TypeOK ==
    /\ {now, startTime, lastResetTime} \subseteq 0 .. MaxTime
    /\ lastScalar.name \in Scalars \cup {"none"}
    /\ {started, initialized, everOn, running, hup} \subseteq BOOLEAN
    /\ registered \in [Tables -> 0 .. 1]
    /\ reloads \in 0 .. MaxReloads
    /\ set \in {"idle", "reserved", "rejected", "committed", "freed"}
    /\ walk.col \in Columns
    /\ walk.st \in {"idle", "walking", "done", "aborted"}
    /\ walk.at \in SuffixSet
    /\ walk.got \in Seq((1 .. MaxIdx) \X (0 .. Len(Clients) - 1))
    /\ Len(walk.got) <= MaxWalk
    /\ lastGet.val \in {None} \cup (0 .. Len(Clients) - 1)

Init ==
    /\ now = 0 /\ startTime = 0 /\ lastResetTime = 0
    /\ lastScalar = [name |-> "none", val |-> None]
    /\ started = FALSE /\ initialized = FALSE /\ everOn = FALSE
    /\ running = FALSE
    /\ registered = [t \in Tables |-> 0]
    /\ reloads = 0 /\ hup = FALSE
    /\ set = "idle"
    /\ walk = [col |-> "address", st |-> "idle", at |-> <<>>, got |-> <<>>]
    /\ lastGet = [col |-> "address", suffix |-> <<>>, val |-> None]

(***************************************************************************)
(* radius_snmp_init (lines 561-626), called once at startup and again on   *)
(* every HUP; "on" is the value cf_section_parse reads for "snmp".  The    *)
(* first branch (memset) or the second (reset time, failures) only touch   *)
(* counters and times; smux_stop ends the agent; with snmp = no the call   *)
(* returns before "initialized" is set, so a later call with snmp = yes    *)
(* still registers the MIBs.                                               *)
(***************************************************************************)
\* Mutant: the first branch (memset, start time) taken on every call.
InitTimesAlwaysMemset ==
    /\ startTime' = now
    /\ lastResetTime' = now

\* The two branches on "initialized" (lines 566-598): the first call's
\* memset sets the start and reset times to now, a later call only the
\* reset time.  "initialized" is set only by a call with snmp = yes, so
\* every call before that one restarts the start time.
InitTimes ==
    IF initialized
    THEN lastResetTime' = now /\ UNCHANGED startTime
    ELSE startTime' = now /\ lastResetTime' = now

\* radius_snmp_init setting "initialized" before the snmp = no return.
SnmpInitEarlyFlag(on) ==
    /\ InitTimes
    /\ running' = on
    /\ everOn' = (everOn \/ on)
    /\ registered' = IF on /\ ~initialized
                     THEN [t \in Tables |-> registered[t] + 1]
                     ELSE registered
    /\ initialized' = TRUE

\* radius_snmp_init registering the MIBs on every call with snmp = yes.
SnmpInitAlwaysRegister(on) ==
    /\ InitTimes
    /\ running' = on
    /\ everOn' = (everOn \/ on)
    /\ registered' = IF on THEN [t \in Tables |-> registered[t] + 1]
                     ELSE registered
    /\ initialized' = (initialized \/ on)

SnmpInit(on) ==
    /\ InitTimes
    /\ running' = on
    /\ everOn' = (everOn \/ on)
    /\ registered' = IF on /\ ~initialized
                     THEN [t \in Tables |-> registered[t] + 1]
                     ELSE registered
    /\ initialized' = (initialized \/ on)

Boot ==
    /\ ~started
    /\ \E on \in BOOLEAN : SnmpInit(on)
    /\ started' = TRUE
    /\ UNCHANGED <<now, lastScalar, reloads, hup, set, walk, lastGet>>

\* A HUP (the signal radServReset sends, or one from outside) reloads the
\* configuration and calls radius_snmp_init again.
Reload ==
    /\ started /\ reloads < MaxReloads
    /\ \E on \in BOOLEAN : SnmpInit(on)
    /\ reloads' = reloads + 1 /\ hup' = FALSE
    /\ UNCHANGED <<now, lastScalar, started, set, walk, lastGet>>

(***************************************************************************)
(* radServReset (lines 226-254), the write method of the ConfigReset       *)
(* scalars: RESERVE1 validates the value, COMMIT signals a HUP, FREE       *)
(* releases.  The agent calls it whatever snmp_write_access says.          *)
(***************************************************************************)
Reserve1 ==
    /\ running /\ set # "reserved"
    /\ \E type \in {"INTEGER", "OCTETS"}, len \in {"long", "short"},
          enc \in {"ok", "bad"}, val \in {2, 4} :
          set' = IF Reserve1Ok(type, len, enc, val) THEN "reserved" ELSE "rejected"
    /\ UNCHANGED <<now, startTime, lastResetTime, lastScalar,
                   started, initialized, everOn, running, registered, reloads,
                   hup, walk, lastGet>>

Commit ==
    /\ set = "reserved"
    /\ hup' = TRUE /\ set' = "committed"
    /\ UNCHANGED <<now, startTime, lastResetTime, lastScalar,
                   started, initialized, everOn, running, registered, reloads,
                   walk, lastGet>>

Free ==
    /\ set = "reserved"
    /\ set' = "freed"
    /\ UNCHANGED <<now, startTime, lastResetTime, lastScalar,
                   started, initialized, everOn, running, registered, reloads,
                   hup, walk, lastGet>>

(***************************************************************************)
(* radAuthEntry / radAccEntry (lines 331-398, 480-547) on a GET: exact = 1. *)
(***************************************************************************)
Get ==
    /\ running
    /\ \E col \in Columns, suffix \in SuffixSet :
          lastGet' = [col |-> col, suffix |-> suffix,
                      val |-> GetAnswer(col, suffix)]
    /\ UNCHANGED <<now, startTime, lastResetTime, lastScalar,
                   started, initialized, everOn, running, registered, reloads,
                   hup, set, walk>>

(***************************************************************************)
(* radAuthServ / radAccServ on a GET of a scalar.  The acct group answers  *)
(* from the same times (radius_snmp_init copies them), so one group        *)
(* stands for both.                                                        *)
(***************************************************************************)
GetScalar ==
    /\ running
    /\ \E name \in Scalars :
          lastScalar' = [name |-> name,
                         val |-> ScalarAnswer(name, now, startTime, lastResetTime)]
    /\ UNCHANGED <<now, startTime, lastResetTime, started, initialized, everOn,
                   running, registered, reloads, hup, set, walk, lastGet>>

\* A second passes.
Tick ==
    /\ now < MaxTime
    /\ now' = now + 1
    /\ UNCHANGED <<startTime, lastResetTime, lastScalar, started, initialized,
                   everOn, running, registered, reloads, hup, set, walk, lastGet>>

(***************************************************************************)
(* A manager walks one column with GETNEXT: each request carries the      *)
(* suffix of the last answer; a NULL answer ends the column.               *)
(***************************************************************************)
StartWalk ==
    /\ walk.st # "walking"
    /\ \E col \in Columns :
          walk' = [col |-> col, st |-> "walking", at |-> <<>>, got |-> <<>>]
    /\ UNCHANGED <<now, startTime, lastResetTime, lastScalar,
                   started, initialized, everOn, running, registered, reloads,
                   hup, set, lastGet>>

\* radAuthEntry / radAccEntry with exact = 0.
GetNext ==
    /\ running /\ walk.st = "walking"
    /\ LET r == GetClientNext(walk.at)
           v == Entry(walk.col, r.c)
       IN  IF v = None
           THEN walk' = [walk EXCEPT !.st = "done"]
           ELSE /\ Len(walk.got) < MaxWalk
                /\ walk' = [walk EXCEPT !.at = <<r.label>>,
                                        !.got = Append(@, <<r.label, v>>)]
    /\ UNCHANGED <<now, startTime, lastResetTime, lastScalar,
                   started, initialized, everOn, running, registered, reloads,
                   hup, set, lastGet>>

\* The manager gives up on a walk the agent no longer answers.
Timeout ==
    /\ walk.st = "walking" /\ ~running
    /\ walk' = [walk EXCEPT !.st = "aborted"]
    /\ UNCHANGED <<now, startTime, lastResetTime, lastScalar,
                   started, initialized, everOn, running, registered, reloads,
                   hup, set, lastGet>>

Next ==
    \/ Boot \/ Reload
    \/ Reserve1 \/ Commit \/ Free
    \/ Get \/ StartWalk \/ GetNext \/ Timeout
    \/ GetScalar \/ Tick

(***************************************************************************)
(* Fairness.  snmpd forwards the manager's next GETNEXT while the agent    *)
(* runs, and the agent answers each request from the server's event loop   *)
(* (smux_read): GetNext is weakly fair.  A manager whose agent stopped     *)
(* answering times out: Timeout is weakly fair.  Nothing else need happen. *)
(***************************************************************************)
Fairness == WF_vars(GetNext) /\ WF_vars(Timeout)

Spec == Init /\ [][Next]_vars /\ Fairness

-----------------------------------------------------------------------------
(* Properties *)

\* Every walk of a client-table column ends: while the agent runs, each
\* GETNEXT answer must move the suffix past the request
\* (objid[v->namelen]++ in get_client) or be NULL, so snmpwalk reaches the
\* end of the column instead of asking for the same row for ever.  A walk
\* that fills MaxWalk (one more than the rows) without ending is one that
\* would not end.
WalkTerminates ==
    walk.st = "walking" ~> walk.st \in {"done", "aborted"}

\* The uptime a manager reads never goes backwards from one scalar reading
\* to the next: radius_snmp_init restarts start_time only in its first
\* branch, which no call takes once a call with snmp = yes (the only kind
\* after which the agent answers) has set "initialized"; a reload, with
\* snmp on or off, moves only last_reset_time.
UptimeNeverDecreases ==
    [][lastScalar.name = "uptime" /\ lastScalar'.name = "uptime"
         => lastScalar'.val >= lastScalar.val]_vars

\* Each table's MIB is registered with the agent exactly when some call of
\* radius_snmp_init has run with snmp = yes, and never twice, whatever
\* sequence of reloads turned snmp on and off ("initialized" in
\* radius_snmp_init).
MibsRegisteredOnce ==
    \A t \in Tables : registered[t] = IF everOn THEN 1 ELSE 0

\* The rows GETs on indexes 1 .. N return, in order, with their labels.
GetRows(col) ==
    SelectSeq([k \in 1 .. Len(Clients) |-> <<k, GetAnswer(col, <<k>>)>>],
              LAMBDA row : row[2] # None)

\* A finished GETNEXT walk of a column reports the same rows, with the same
\* indexes, as GETs of each index: the FindVarMethod contract that
\* get_client(exact = 0) must honour for radAuthEntry and radAccEntry.
WalkAgreesWithGet ==
    walk.st = "done" => walk.got = GetRows(walk.col)

=============================================================================
