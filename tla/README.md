# Model-checking FreeRADIUS: x99_token, xlat, OpenDirectory and SNMP

This directory holds TLA+ models of the sources under `src/`. They are
checked with TLC. Four parts of the server are modelled:

- `rlm_x99_token` (`modules/rlm_x99_token/x99_rlm.c`): the
  challenge/response one-time-password module. Module `X99Token`.
- String expansion (`main/xlat.c`): the registry of xlat functions and
  `radius_xlat`. Module `XLat`.
- `rlm_opendirectory` (`modules/rlm_opendirectory/rlm_opendirectory.c`):
  password checks and group-based authorization against macOS Directory
  Services. Module `OpenDir`, shown to implement the abstract contract
  `OdAuthContract`.
- SNMP (`main/radius_snmp.c`): the client tables as GET and GETNEXT see
  them, the ConfigReset write, and agent setup on every HUP. Module `Snmp`.

`PROJECT.json` lists the components, the runs, the mutants, the line map
from every definition to the code it models, the findings and the hazards.
Each `MC_*.tla` module instantiates one model for TLC. Each `MC_*.cfg` is one
run. A run is checked with `tlc -workers 2 -config MC_<run>.cfg MC_<Module>`.

## 1. The system

| Component | Source | State | Operations |
|---|---|---|---|
| x99 instance configuration | `x99_rlm.c` 63-281 | `x99_token_t` | `x99_token_instantiate` rewrites out-of-range values (a negative softfail or hardfail, fast_sync, ewindow sizes) |
| ChallengeAuthorizer | `x99_token_authorize` 284-451 | none | passes a State through, rejects a missing password, lets fast_sync passcodes through, or issues a challenge and a State |
| StateCodec | checks at 500-554 (`x99_state.c` is not in src/) | none | a State is a challenge, flags, time and an HMAC; checked for length, HMAC and expiry |
| ResponseAuthenticator | `x99_token_authenticate` 454-819 | per-request locals | State check, failcount, async test, sync window scan, ewindow2 rule, resync or failure count |
| SyncStore | `x99_sync.c` (only `x99_sync.h` in src/) | per user: sync challenge, failcount, last auth time and position | one locked call per operation |
| Xlat registry | `xlat.c` 41-53, 460-612 | `xlat_root`: name to (function, instance, internal) | `xlat_register`, `xlat_unregister`, `xlat_find`, `xlat_free` |
| String expansion | `xlat.c` 64-1221 | none; reads the registry and the request | `radius_xlat`, `decode_attribute`, `xlat_packet`, `valuepair2str`, `xlat_copy` |
| OpenDirectory | `rlm_opendirectory.c` 197-602 | none of its own; the Directory Services (DS) references it opens | `od_authenticate` with `od_check_passwd`, `od_authorize` |
| SNMP client tables | `radius_snmp.c` 193-224, 330-398, 480-547 | none; reads the client list | `get_client`, `radAuthEntry`, `radAccEntry` |
| SNMP setup and reset | `radius_snmp.c` 226-254, 561-626 | `initialized`, the registered MIBs, the agent | `radius_snmp_init` (startup and each HUP), `radServReset` |
| SNMP scalars | `radius_snmp.c` 257-329, 401-478 | global counters | `radAuthServ`, `radAccServ`: uptime, reset time and ConfigReset (`GetScalar`) |

**How they interact.** The server calls `x99_token_authorize` for every
Access-Request. Without a State attribute, it either issues a challenge, which
ends the request, or lets a fast_sync passcode through. The client's next
request carries the State back to `x99_token_authenticate`. That handler
makes a sequence of SyncStore calls. The module is `RLM_TYPE_THREAD_SAFE`
(line 855), so handlers run in parallel. Each store call locks the user's
file on its own, but no lock is held across a handler.

`radius_xlat` expands the `%{...}` templates of configuration strings. The
`%{name:...}` form calls an xlat function that a module registered with
`xlat_register`. Modules register at instantiation and unregister at
detach. The first registration builds the tree and the internal "request"
and "control" entries.

`rlm_opendirectory` is a thread-safe module whose only shared state is in
Directory Services. Each call opens its own DS references.

With `snmp = yes` the server is a SMUX peer of snmpd. `radius_snmp_init`
runs at startup and again on every HUP. snmpd forwards GET, GETNEXT and SET
requests, and the agent code (`smux.c`, not in the repository) calls the
handler of each OID with the instance suffix. A SET of 2 on a ConfigReset
scalar makes `radServReset` send the server a HUP, which reloads the
configuration and so calls `radius_snmp_init` again.

## 2. `X99Token.tla`

**Configuration.** The constants are the configuration items as
radiusd.conf gives them. `SoftfailLimit`, `HardfailLimit`, `FastSyncOn`,
`EWindow` and `EWindow2` are what `x99_token_instantiate` makes of them,
and the handlers read only these. `async_replay` configures a negative
hardfail and `concurrent_replay` a negative softfail, which instantiate
turns into 0 and 5.

**State.**
- `now` is `time(NULL)`.
- `store[u]` is the user's sync file: `pos`, `fail`, `last` and `apos`.
- `issued` is the set of State attributes sent.
- `req[r]` holds a request's inputs, the handler's locals (`la`, `fc`,
  `start`, the matched offset, the challenge to store) and its program
  counter.
- History variables:
  - `accepted`: every user/passcode the handler returned OK for.
  - `wrong`: the unmatched guesses since the last success.
  - `lastSoft[u]`: the passcode of the user's last softfail-mode attempt.
    Its candidate is cleared wherever the code clears `last_auth_pos`.

**Data abstraction.**
- A challenge is a point `<<anchor, n>>`, the n-th event-sync challenge
  after the anchor. The card's response to a point is identified with the
  point.
- A State is a record: challenge, resync bit, issue time, protected, hmac
  valid. Clients may return an issued State, a copy with its time refreshed
  or its resync bit flipped (bad HMAC), or one of the wrong length.

**Actions**, in the code's order:
- `Authorize` is the whole of `x99_token_authorize`.
- `GetLastAuth` (471-564), `CheckFailcount` (566-600) and `VerifyAsync`
  (602-677).
- `SyncResponse` (679-716) and `ScanWindow` (716-807).
- `SetSyncData`, `ResetFailcount`, `IncrFailcount` and `SetLastAuthPos`
  are the store writes.
- `Tick` advances the clock. `Quiescent` is the end of the bounded supply of
  requests.

**Fault model.** With `StoreFaults = TRUE`, each store call may also fail:
`GetLastAuthFails`, `CheckFailcountErr`, `ScanFails`, `ResyncFails`,
`IncrFailcountFails` and `SetLastAuthPosFails`. Each one takes the code's
error path (FAIL, or a logged error and REJECT) and leaves the store
unchanged.

**From the spec.** `x99_sync.c` is not in src/. The store calls' effects
come from the spec and the comments in `x99_rlm.c`:
- `x99_check_failcount` counts a softfail attempt itself (line 796).
- `x99_set_sync_data` and `x99_reset_failcount` reset the failcount and
  position and set the time.

These definitions are marked `spec_modelled` in the map.

## 3. `XLat.tla`

**State.**
- `root` is `xlat_root`: "none" until the first registration, then "live".
- `reg` is the tree, a function from names to `[func, inst, internal]`.
- `exp` observes one `radius_xlat` call: format, buffer size, the registry
  it ran against, the output and any error (`abort` for a failed
  `rad_assert`, `overread` for a read past the format's NUL).

**Actions.**
- `Register` models `xlat_register`. The first call builds the internal
  entries. An internal name is refused and any other name is replaced or
  added.
- `Unregister` models `xlat_unregister`.
- `Expand(f, outlen)` is a caller expanding format `f` into `outlen` bytes.
  It reads the registry and changes nothing else, so a registry step resets
  `exp`.

**The expansion** is a pure function of format, size and registry. It is
written as recursive operators that follow the C code step by step:
- `RadiusXlat` and `XLoop` are the main loop, with its `freespace > 1` test.
  `Escape` handles backslashes. `PctWrite` handles every `%letter`, and
  `DumpPairs` handles `%Z`.
- `DecodeAttribute` covers `%{name}`, `%{name:-default}`,
  `%{name:string}`, `%{#...}` and `%{%{a}:-b}`. It is built from
  `DecodeName`, `NameAt`, `ScanArg`, `DecodeAlternation`, `AltFirst`,
  `AltSecond`, `SkipToClose` and `DoXlat`.
- `XlatPacket` covers `[#]`, `[*]` (`StarLoop`), `[n]` and the packet
  fields (`MagicAttr`).
- `ValuePair2Str` and `XlatCopy` are the value conversion functions.
- The internal entries other than the packet lists are `XlatRegex`
  (`%{0}`: the request's regex match through `strlcpy`, nothing without
  one) and `XlatDebug` (`%{debug:n}`: `atoi` of the string, at most 4, a
  negative level kept, written with `snprintf`).

A format is a sequence of one-character strings, and NUL is the end of the
string. The C code advances pointers in nested loops. Each loop becomes a
step operator, which returns a record, and a next operator, which either
stops or makes one recursive call. Intermediate results are passed on as
arguments rather than named in a LET and read several times. This keeps
TLC's per-expression coverage walk linear.

`rad_copy_variable` (in `util.c`, not in src/) is modelled from its use as
`CopyVariable`: the length of a nested `%{...}`. `vp_prints` is modelled as
`VpPrints`. Both are marked `spec_modelled`.

**Instance** (`MC_XLat.tla`):
- The dictionary has an attribute "a", with two values in the request and
  none in control, and "p", a packet field.
- `%a` has no value and `%u` has one. `%V` is a string. `%Z` runs over a
  password pair and two others.
- There are two module functions, a module name "x", and a module
  configured with the internal name "r". The regex match is "gh"; "d"
  is the name of the debug entry.
- The formats are every string of up to three characters over the
  parser's special characters, plus every concatenation of two of the
  constructs listed in the module.
- Buffer sizes are 2 to 5. `Ample` is 40.

## 4. `OpenDir.tla`

**State.**
- `req[r]` is one handler call: which handler it is, the User-Name and
  password it got, the stage (program counter) of `od_check_passwd`, and
  `held`, the DS references and buffers the call owns.
- It also holds the attribute loop's index and status, and whether
  `pUserLocation`, `pUserName` and `pRecordType` are non-NULL.
- Finally it holds the DS result and the module's return code. For
  `od_authorize` it holds the SACL group's and the NAS's configuration.
- `leaked` is a bag of what calls still held when they returned.

**Actions.**
- `Authenticate` covers lines 427-453 of `od_authenticate`: the attribute
  checks, then the call.
- `od_check_passwd` takes one action per DS call: `OpenService`,
  `AllocBuffer`, `FindNodes`, `GetNodeName`, `OpenNode`, `GetRecordList`,
  `GetRecordEntry`, then `ReadAttr`/`AttrsDone` for the attribute loop,
  then `OpenUserNode` and `DoAuth`.
- When `DirFaults` holds, every DS call may fail. A failure breaks out of
  the `do { } while (0)` to the cleanup, as the code does.
- `Return` is the cleanup (lines 353-396) and `od_authenticate`'s switch on
  the result. Whatever the cleanup does not release goes into `leaked`.
- A NULL `pUserName` or `pRecordType` at `DoAuth` crashes the server, as
  does a NULL location passed to `dsBuildFromPath`, which may also just
  fail. After a crash the model stops (`Halted`).
- `Authorize` is the whole of `od_authorize` in one step. It changes no
  shared state. `AuthorizeResult` follows the code's order: User-Name, SACL
  group, NAS community (uuid or group name), "all users allowed", the
  user's uuid, then the two membership checks. With `DirFaults`,
  `mbr_uid_to_uuid` and the membership calls may fail.

**Contract and refinement.** `OdAuthContract.tla` is what `od_authenticate`
promises, with the DS call chain hidden. Its one variable `call[r]` is a
request slot: idle, pending, or answered with a code. A request without a
User-Name or with no clear-text User-Password is answered INVALID in the
step that receives it. Otherwise it is pending until one `Answer` step,
whose code is OK only for the record's password of an active account,
USERLOCK only for that password of a disabled account, and REJECT only when
the name has no usable record or the password is wrong. With `DirFaults`
a failing directory may also answer USERLOCK or REJECT, but never OK.
`OpenDir`'s `AuthCalls` maps each authenticate request to a slot:
`pc = "done"` is answered with `ret`, any other stage is pending (so the
DS steps of `od_check_passwd` are stuttering steps of the contract, and a
crash leaves the call pending for ever, which the contract allows, since it
says nothing of progress). Authorize requests map to idle slots.
`AuthenticateMeetsContract` is the contract's `Spec` through that
mapping. It holds with and without `DirFaults` (the latter checked by
hand with `DirFaults <- FALSE`).

**Instance** (`MC_OpenDir.tla`):
- Names: an active account, a disabled account and a name without a
  record. Passwords: two. Each record carries the three attributes asked
  for.
- Requests may lack a User-Name or a password, or carry CHAP.
- Two of the three names are local users. One is in the SACL group, and
  one of them, plus the name without a record, are in the NAS groups.

## 5. `Snmp.tla`

**Data.** `Clients` is the client list in `client_findbynumber` order,
given by each client's address family. A column is `"address"` (the
IpAddress column, IPv4 only) or `"other"`; the counter and identifier
columns return a value for every client and differ only in which counter,
so they are one column. A value is the number of the client it belongs to.

**Operators.**
- `GetClientExact` and `GetClientNext` are the two branches of
  `get_client`. The next branch returns the client and the index it
  rewrites the suffix to.
- `Entry` is the switch of `radAuthEntry`/`radAccEntry`: NULL for no client,
  and NULL in the address column for a client that is not `AF_INET`.

**State and actions.**
- `initialized`, `running` (smux started) and `registered` (MIB
  registrations per table) follow `radius_snmp_init`. `Boot` is its first
  call and `Reload` a later one after a HUP; both choose `snmp` on or off,
  as `cf_section_parse` reads it.
- `Reserve1`, `Commit` and `Free` are `radServReset`'s three actions.
  `Reserve1` takes the SET's type, length, encoding and value from small
  sets; `Commit` raises `hup`; `set` is the last phase.
- `Get` is a GET on a column. A manager's walk of one column is
  `StartWalk`, then `GetNext` per request: it sends the last answer's
  suffix, and a NULL answer ends the column. `Timeout` ends a walk the
  agent stopped answering because a reload turned SNMP off.
- `Fairness` is weak fairness of `GetNext` and `Timeout`; section 9 gives
  the justification.
- `now` is `time(NULL)`, advanced by `Tick`. `InitTimes` is the branch of
  `radius_snmp_init` on `initialized`: the first branch (the memset) sets
  `startTime` and `lastResetTime` to now, a later call only
  `lastResetTime`. Because `initialized` is set only by a call with snmp
  on, every call before that one restarts `startTime`.
- `GetScalar` is a GET of a `radAuthServ`/`radAccServ` scalar
  (`ScalarAnswer`): uptime and reset time are hundredths of a second since
  those times (`TimeTicks`; the 32-bit wrap lies far beyond the clock);
  ConfigReset reads 4; the
  ident and the total counters are one stored value. The acct group's
  times are copies of the auth group's, so one group stands for both.
  `lastScalar` is the last answer.

**Instance** (`MC_Snmp.tla`): three clients, the second on IPv6, for
`snmp_tables`; two IPv4 clients for `snmp_walk_duplicates`, so its trace
shows the index bug alone. Walks hold up to four answers, enough for every
row of the three-client table with its duplicate.

## 6. Runs

| Run | Config | Expect | Properties | What it shows |
|---|---|---|---|---|
| async_serial | sync, fast_sync and async, 2 challenges, clock to 3, softfail 1, hardfail 2, ewindow2 2, 3 requests, 1 thread, forged and expired States (275,138 states) | pass | TypeOK, GuessBound, AsyncStateAuthentic, SoftfailNeedsConsecutive | guessing is bounded by hardfail; only issued, unaltered, fresh States pass; leaving softfail through ewindow2 needs two consecutive responses |
| async_replay | async, 1 thread, clock to 2 | violation | OtpAcceptedOnce | finding 1 |
| concurrent_replay | sync, 2 threads | violation | OtpAcceptedOnce | finding 2 |
| faults_serial | sync and fast_sync, 1 challenge, with StoreFaults (61,824 states) | pass | OtpAcceptedOnce | no store failure lets a passcode be accepted twice: a failed resync answers FAIL |
| faults_softfail_row | StoreFaults, hardfail 4, 4 requests | violation | SoftfailNeedsConsecutive | finding 3 |
| xlat_expand | MC_XLat, every format, sizes 2-5 (88,381 states) | pass | TypeOK, TruncationConsistent | a smaller buffer only truncates the expansion, under every registry state, except for the constructs listed below |
| xlat_escape_overflow | MC_XLat | violation | NulInBounds | finding 4 |
| xlat_star_abort | MC_XLat | violation | NoAssertAbort | finding 5 |
| opendir_auth | MC_OpenDir, 2 requests, DirFaults (45,372 states) | pass | TypeOK, AuthenticateMeetsContract, AuthorizeNeedsAccess | od_authenticate implements `OdAuthContract`: no failure or break in the DS call chain authenticates without the record's password of an active account, a request without name or clear-text password is INVALID at once, and each call is answered once; authorization answers OK only after every configured group (SACL or NAS community) has resolved, and then only to a member of each group that applies. The contract's no-fault clause (a usable record with the right password is not rejected) is vacuous under DirFaults and is not checked by this run |
| opendir_node_leak | MC_OpenDir, 1 request, no faults | violation | NothingLeaked | finding 6 |
| snmp_tables | MC_Snmp, 3 clients, 2 HUPs, clock to 1 (356,151 states) | pass | TypeOK, MibsRegisteredOnce, WalkTerminates, UptimeNeverDecreases | each MIB is registered once, exactly when some call ran with SNMP on, whatever sequence of HUPs turned it on and off; under the fairness of section 9 every GETNEXT walk of a client table ends; the uptime a manager reads never goes backwards, across reloads with SNMP on or off |
| snmp_walk_duplicates | MC_Snmp, 2 IPv4 clients | violation | WalkAgreesWithGet | finding 7 |

`TruncationConsistent` exempts the constructs that the code sizes from the
space left on purpose. Each one is a hazard in `PROJECT.json`:
- an unknown backslash escape (finding 4);
- `%{Attr[*]}` (finding 5);
- `%{#...}`, which prints the length of what fit;
- an unknown `%letter`, which is dropped when two bytes are left;
- `%Z`, where each pair is cut short and still ends in a newline.

Every property of a passing run has a mutant in `PROJECT.json`. A mutant is
an operator that changes one mapped definition the way a plausible bug
would: a chain walked backwards, a stale resync point, an off-by-one
hardfail, a State check without the HMAC, a loop end one byte late, a
result initialised to success, a missing `return` after a NAS group lookup fails, an attribute loop one
index too far, a `get_client` that does not advance the suffix, `initialized` set too early or not tested, and the first branch of `radius_snmp_init` (the start time) taken on every call. TLC finds each property violated under its mutant.

## 7. Bounds

- **Three requests** cover every path of the X99 properties: a wrong guess
  that enters softfail, an ewindow2 candidate, and the consecutive
  response or the guess past hardfail. faults_softfail_row needs a fourth
  request, for the failed step between two responses.
- **Clock.** A clock of 1-3 seconds with chal_delay 1 crosses every time
  boundary: State expiry, the replay guard and ewindow2_delay.
- **Passcodes.** The seed chain to offset 3 reaches past ewindow2 from
  every stored position the runs reach.
- **xlat buffer sizes.** Sizes 2-5 include "one byte free", "two free" and
  "shorter than any value". Formats of up to three characters, and pairs
  of constructs, reach every branch of the parser.
- **OpenDir.** Two requests make a leak visible across calls, and one
  suffices for the leak itself.
- **SNMP.** Three clients with an IPv6 one in the middle give a first
  row, a row after a skipped address and a last row; suffixes run past the
  table's end and carry extra sub-ids. Two HUPs give every on/off sequence
  of three calls: off then on (the late registration), on then on (the
  second registration a mutant makes) and on, off, on. A clock of one
  second is enough to read an uptime of 100 before a reload and 0 after
  one, the step by which a restarted start time shows.
- **Symmetry.** Requests and challenges are model values under symmetry.
  This is sound because no property names one.

## 8. Findings

1. **Async replay at the chal_delay boundary** (`x99_rlm.c` 542 against
   633). The State is valid while `now - then <= chal_delay`, but the replay
   guard refuses only while `now - last_auth < chal_delay`. The two come
   from different `time()` calls, so one State and response can pass
   twice at the boundary.
2. **Concurrent double acceptance** (719 against 777). The read of the
   sync data and the resync are separate locked calls in a thread-safe
   module. Two requests with one passcode are both accepted. The spec asks
   for per-user mutual exclusion.
3. **ewindow2 without two responses in a row** (725, 802). A wrong passcode
   whose window scan fails on the store, or whose
   `x99_set_last_auth_pos` fails, leaves the earlier candidate in place.
   The next response then passes the override.
4. **NUL past the buffer** (`xlat.c` 1038/1219). An unknown escape writes
   two bytes after only `freespace > 1` is checked.
5. **rad_assert abort** (`xlat.c` 199/947). `%{Attr[*]}` with a short
   buffer calls `xlat_copy` with outlen 0.
6. **DS references leaked** (`rlm_opendirectory.c` 320). The cleanup never
   releases the following, so each authentication that reaches the user's
   node leaks them:
   - `userNodeRef`, which is never closed;
   - `pUserName`, which is never freed;
   - the record entry and the attribute list, which are never released.
7. **GETNEXT repeats a client** (`radius_snmp.c` 218-221). For index k,
   `get_client` returns client k-1, the one GET(k) returns, and relabels it
   k+1. A walk of any client-table column shows client 0 at indexes 1 and
   2 and every later client under the next client's index.

Further evidence is kept in the hazards' notes. These are reproducible by
changing one line of an existing configuration:
- A per-module string ending in a backslash copies the NUL and keeps
  reading past the format (`xlat.c` 808-809): `INVARIANT NoReadPastEnd` in
  `MC_xlat_expand.cfg`.
- An IPv6 client ends a walk of the address column (`radius_snmp.c` 496,
  347): with `get_client` corrected to return client k for index k,
  `MC_snmp_walk.cfg` with `Clients <- MC_Clients` still breaks
  `WalkAgreesWithGet`.
- `xlat_unregister` removes an internal entry (`xlat.c` 603):
  `INVARIANT InternalsPresent` in `MC_xlat_expand.cfg`.
- A failed `x99_incr_failcount` is not counted (797): `StoreFaults = TRUE`
  in `MC_async_serial.cfg` breaks `GuessBound`.
- Two threads pass the failcount check before either increments it: the
  `concurrent_replay` configuration with hardfail 1 breaks `GuessBound`.
- A DS error in the attribute loop leaves `pUserName` or `pRecordType`
  NULL, and `strlen` or the auth call then crashes the server
  (`rlm_opendirectory.c` 333/348). `opendir_auth` reaches the "crashed"
  stage.

## 9. Fairness and liveness

One run checks a liveness property: `WalkTerminates` in `snmp_tables`,
"a manager's GETNEXT walk of a client table eventually ends, done or
aborted". `Snmp`'s `Spec` has weak fairness of `GetNext` and `Timeout`:
- snmpd forwards the manager's next GETNEXT of a walk it is doing while
  the agent runs, and the agent answers each one from the event loop
  (`smux_read`), so a walk whose agent is up keeps being served;
- a manager whose agent stopped answering (a reload turned SNMP off) gives
  up after its timeout, so the walk is aborted.
No fairness is put on `Boot`, `Reload`, the SET actions or `Get`: nothing
makes an operator HUP the server or a manager send a SET. The property
needs the suffix advanced on every answer (`get_client`'s `objid[v->namelen]++`
at line 221): the mutant `GetClientNextNoIncrement` keeps the old index,
and TLC then finds a walk answered with the same client for ever.

No other run checks liveness, and the other specifications have no
fairness conjunct.
- Every handler modelled here runs to completion on its thread without
  waiting on another: the store locks and the DS calls are held within
  one call. "Every started request finishes" would therefore hold by the
  shape of the model.
- The interesting eventualities depend on clients, and clients need not
  send requests. Examples are "a user who types the card's next responses
  is eventually let in" and "a leaked reference is eventually released",
  which never holds. The code gives no fairness to justify them.
- For SNMP, "a committed ConfigReset is eventually followed by a reload"
  depends on the main loop of `radiusd.c`, which handles the signal and is
  not in the repository.

## 10. Not modelled, and why

- **x99.** Not modelled:
  - the byte layout of the State, the HMAC and DES computations, and the
    password-file lookup. These are pure functions outside src/,
    abstracted as above;
  - the Auth-Type early return (300-307) and the random-source and
    response-function failures. These fail the request before any state
    changes;
  - MS-CHAP handling, prompts and logging;
  - `x99_token_init`/`destroy`, which only draw the HMAC key.
- **xlat.** Not modelled:
  - quoted defaults (`getstring`);
  - the spaces flag of the per-module string;
  - names of 128 characters or more;
  - formats over 256 characters;
  - the request state `xlat_debug` sets (`request->options` and
    `radlog`), which only changes what the request logs;
  - the regex entries `1`..`8`, which differ from `0` only in which match
    they copy;
  - `xlat_free`, which is used only at a debugging shutdown, after which
    nothing here is called.
- **OpenDirectory.** Not modelled:
  - the layout of the 4096-byte buffer. Names and passwords are model
    values, and only a directory name of about 4000 bytes would overflow
    it;
  - `od_instantiate`, which records the instance in `group_inst` that
    nothing reads. It returns its local `result`, which nothing assigns
    (line 172). What the loader (`modules.c`, not in the repository) does
    with that value decides whether the module loads, so it is listed as
    a hazard without a property;
  - `fgetspnam`, which is never called;
  - `od_init`, `od_detach` and `od_destroy`, which only allocate or free
    the instance.
- **SNMP.** Not modelled:
  - the counter values: the memset of `radius_snmp_init` zeroes them, but
    the request code that increments them is outside src/, so the scalar
    handlers' counters are one stored value;
  - `smux_header_generic`'s check of the scalar's instance (in `smux.c`);
  - clocks long enough for the TimeTicks wrap (about 497 days), a hazard
    without a property;
  - `smux.c`, the SMUX protocol and snmpd, which are not in the
    repository. Only their contract with the handlers (`FindVarMethod` in
    `smux.h`) is modelled, as the manager's walk;
  - who may SET: `snmp_write_access` is parsed but never read in the file.
