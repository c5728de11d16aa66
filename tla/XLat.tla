-------------------------------- MODULE XLat --------------------------------
(***************************************************************************)
(* String expansion of src/main/xlat.c: the registry of xlat functions    *)
(* (xlat_register, xlat_unregister, xlat_find) and radius_xlat with       *)
(* decode_attribute, xlat_packet and xlat_copy.                            *)
(*                                                                         *)
(* A format is a sequence of one-character strings; the end of the C      *)
(* string is NUL.  radius_xlat's loop, decode_attribute and the array     *)
(* forms of xlat_packet are recursive operators that return what is       *)
(* written at q, the new read position p and the brace count.  The        *)
(* registry is the state; an expansion reads it.                          *)
(***************************************************************************)
EXTENDS Integers, Sequences, SequencesExt, FiniteSets

CONSTANTS
    Dict,           \* attribute names known to the dictionary (sequences)
    Vps,            \* [list |-> [attribute name |-> values in the list]]
    Magic,          \* [list with a packet |-> [attribute |-> what its packet field prints]]
    PctVps,         \* [letter |-> [vals, ph]]: attribute values a %letter reads, placeholder of its type
    PctStr,         \* [letter |-> the string a %letter copies with strlcpy]
    ZPairs,         \* request pairs for %Z: <<[pw |-> is User-Password, text |-> vp_prints]>>
    RequestName,    \* the internal "request" entry, used for dictionary names
    ControlName,    \* the internal "control" entry
    RegexName,      \* the internal "0" entry: the whole match of the last regex
    DebugName,      \* the internal "debug" entry
    RegexMatch,     \* the request's regex data for %{0}, or NoRegex
    NoRegex,        \* no regex matched the request
    ModNames,       \* names that modules register and unregister
    Funcs,          \* xlat functions of modules (model values)
    ModOut,         \* [Funcs -> the string each function produces]
    Formats,        \* format strings that callers expand
    OutLens,        \* output buffer sizes that callers pass
    Ample,          \* a buffer size no expansion of Formats fills
    Exempt          \* constructs whose output the code sizes differently

VARIABLES
    root,   \* xlat_root: "none" until the first xlat_register, then "live"
    reg,    \* the tree: [name |-> [func, inst, internal]]
    exp     \* the last radius_xlat call and its result (done = FALSE before any)

vars == <<root, reg, exp>>

NUL == ""
NL == "\n"
DigitChars == <<"0", "1", "2", "3", "4", "5", "6", "7", "8", "9">>

\* *p, with NUL at the end of the string.
Ch(f, i) == IF i \in 1..Len(f) THEN f[i] ELSE NUL

\* At most n characters of s: what strlcpy and xlat_copy keep.
TruncTo(s, n) == IF n <= 0 THEN <<>> ELSE SubSeq(s, 1, IF n < Len(s) THEN n ELSE Len(s))

\* snprintf(out, outlen, "%d", n) for the small counts of the model.
IntStr(n) == IF n < 10 THEN <<DigitChars[n + 1]>>
             ELSE <<DigitChars[(n \div 10) + 1], DigitChars[(n % 10) + 1]>>

\* atoi of a run of digits.
Atoi(s) == FoldLeft(LAMBDA acc, d : 10 * acc + (CHOOSE k \in 0..9 : DigitChars[k + 1] = d), 0, s)

\* The entries the first xlat_register creates: the packet lists, the
\* regex match and "debug", all marked internal.
InternalEntries ==
    (RequestName :> [func |-> "packet", inst |-> "request", internal |-> TRUE]) @@
    (ControlName :> [func |-> "packet", inst |-> "control", internal |-> TRUE]) @@
    (RegexName :> [func |-> "regex", inst |-> "none", internal |-> TRUE]) @@
    (DebugName :> [func |-> "debug", inst |-> "none", internal |-> TRUE])

ModEntry(fn) == [func |-> fn, inst |-> "none", internal |-> FALSE]
NoEntry == ModEntry("none")

-----------------------------------------------------------------------------
(* Value conversion.  Intermediate results are passed to the next operator *)
(* as arguments rather than named once and read several times.            *)

\* xlat_copy: copies while more than one byte is free; rad_assert(outlen > 0).
XlatCopy(s, outlen) == TruncTo(s, outlen - 1)

\* valuepair2str: the first value through the escape function, else the
\* type's placeholder through strlcpy.
ValuePair2Str(vals, placeholder, outlen) ==
    IF vals # <<>> THEN XlatCopy(Head(vals), outlen) ELSE TruncTo(placeholder, outlen - 1)

Res(w) == [w |-> w, ret |-> Len(w), err |-> {}]

\* xlat_packet's %{Attr[*]}: each value through valuepair2str with
\* outlen - 1, then a newline; stops when outlen reaches 0.
RECURSIVE StarLoop(_, _)
StarJoin(v, rest) == [w |-> v \o <<NL>> \o rest.w, ret |-> Len(v) + 1 + rest.ret, err |-> rest.err]
StarStep(v, vals, outlen) ==
    StarJoin(v, IF outlen - (Len(v) + 1) = 0 THEN Res(<<>>)
                ELSE StarLoop(vals, outlen - (Len(v) + 1)))
StarLoop(vals, outlen) ==
    IF vals = <<>> THEN Res(<<>>)
    ELSE IF outlen - 1 <= 0 THEN [w |-> <<>>, ret |-> 0, err |-> {"abort"}]
    ELSE StarStep(XlatCopy(Head(vals), outlen - 1), Tail(vals), outlen)

\* The "magic" attributes that are fields of the list's packet, not pairs
\* (Packet-Type, Client-IP-Address, ports, ...): printed with snprintf,
\* strlcpy or valuepair2str, all of which keep outlen - 1 characters; a
\* field that does not apply (an address of the other family, no virtual
\* server) prints nothing.  The "control" list has no packet.
MagicAttr(inst, arg, outlen) ==
    IF inst \in DOMAIN Magic /\ arg \in DOMAIN Magic[inst]
    THEN Res(TruncTo(Magic[inst][arg], outlen - 1))
    ELSE Res(<<>>)

\* %{Name[n]}: the value at index n, if the digits are closed by ']'.
PacketNth(vals, idx, closed, outlen) ==
    IF ~closed \/ idx >= Len(vals) THEN Res(<<>>)
    ELSE Res(ValuePair2Str(<<vals[idx + 1]>>, <<>>, outlen))

\* The digits at the front of the selector: strspn(p + 1, "0123456789").
DigitRunTo(sel, k) == IF k = 0 THEN Len(sel) ELSE k - 1
DigitRun(sel) == DigitRunTo(sel, SelectInSeq(sel, LAMBDA ch : ch \notin ToSet(DigitChars)))

\* The selector after '[': "#]" (the count), "*]" (every value) or "n]".
PacketSelect(vals, sel, nd, outlen) ==
    IF Ch(sel, 1) = "#" /\ Ch(sel, 2) = "]" THEN Res(TruncTo(IntStr(Len(vals)), outlen - 1))
    ELSE IF Ch(sel, 1) = "*" /\ Ch(sel, 2) = "]" THEN StarLoop(vals, outlen)
    ELSE PacketNth(vals, Atoi(SubSeq(sel, 1, nd)), Ch(sel, nd + 1) = "]", outlen)

\* Name[...] with the '[' at lb (0: there is none); Name must be an attribute.
PacketArray(inst, arg, lb, outlen) ==
    IF lb = 0 \/ SubSeq(arg, 1, lb - 1) \notin Dict THEN Res(<<>>)
    ELSE PacketSelect(Vps[inst][SubSeq(arg, 1, lb - 1)], SubSeq(arg, lb + 1, Len(arg)),
                      DigitRun(SubSeq(arg, lb + 1, Len(arg))), outlen)

\* xlat_packet: the format is an attribute name, or Name[#], Name[*], Name[n].
XlatPacket(inst, arg, outlen) ==
    IF arg \in Dict
    THEN IF Vps[inst][arg] = <<>> THEN MagicAttr(inst, arg, outlen)
         ELSE Res(ValuePair2Str(Vps[inst][arg], <<>>, outlen))
    ELSE PacketArray(inst, arg, SelectInSeq(arg, LAMBDA ch : ch = "["), outlen)

\* xlat_regex: the request's regex data through strlcpy, nothing without.
XlatRegex(outlen) ==
    IF RegexMatch = NoRegex THEN Res(<<>>) ELSE Res(TruncTo(RegexMatch, outlen - 1))

\* atoi: an optional sign, then the leading digits.
CAtoi(s) ==
    IF Ch(s, 1) = "-" THEN -Atoi(SubSeq(s, 2, 1 + DigitRun(Tail(s))))
    ELSE Atoi(SubSeq(s, 1, DigitRun(s)))

\* The level xlat_debug sets: atoi of its string, at most 4 (a negative
\* level is kept), 0 for an empty string.  Setting request->options and
\* request->radlog only changes what the request logs.
DebugLevel(arg) == IF arg = <<>> THEN 0 ELSE IF CAtoi(arg) > 4 THEN 4 ELSE CAtoi(arg)

\* xlat_debug: snprintf(out, outlen, "%d", level), whose result is its strlen.
XlatDebug(arg, outlen) ==
    Res(TruncTo(IF DebugLevel(arg) < 0 THEN <<"-">> \o IntStr(-DebugLevel(arg))
                ELSE IntStr(DebugLevel(arg)), outlen - 1))

\* A registered function called with its per-module string.
CallXlat(e, arg, outlen) ==
    CASE e.func = "packet" -> XlatPacket(e.inst, arg, outlen)
      [] e.func = "regex" -> XlatRegex(outlen)
      [] e.func = "debug" -> XlatDebug(arg, outlen)
      [] e.func \notin {"packet", "regex", "debug"} -> Res(XlatCopy(ModOut[e.func], outlen))

\* xlat_find: dictionary names and names with '[' go to "request".
XlatFind(name, R) ==
    LET key == IF name \in Dict \/ Contains(name, "[") THEN RequestName ELSE name
    IN IF key \in DOMAIN R THEN R[key] ELSE NoEntry

-----------------------------------------------------------------------------
(* radius_xlat and decode_attribute.  All return records; errors are      *)
(* "abort" (a failed rad_assert) and "overread" (a read past the NUL).     *)
(* A loop is an operator that does one step and hands the step's record   *)
(* to an operator that either stops or calls the loop again.              *)

\* rad_copy_variable (library code outside these sources): the length of
\* the %{...} at i, or -1.
RECURSIVE CopyVariable(_, _), VarScan(_, _, _)
VarNested(j, len) == IF len < 0 THEN [done |-> TRUE, val |-> -1, next |-> j]
                     ELSE [done |-> FALSE, val |-> 0, next |-> j + len]
VarChar(f, i, j) ==
    CASE Ch(f, j) = NUL -> [done |-> TRUE, val |-> -1, next |-> j]
      [] Ch(f, j) = "}" -> [done |-> TRUE, val |-> j - i + 1, next |-> j]
      [] Ch(f, j) = "\\" -> IF Ch(f, j + 1) = NUL THEN [done |-> TRUE, val |-> -1, next |-> j]
                           ELSE [done |-> FALSE, val |-> 0, next |-> j + 2]
      [] Ch(f, j) = "%" /\ Ch(f, j + 1) = "{" -> VarNested(j, CopyVariable(f, j))
      [] OTHER -> [done |-> FALSE, val |-> 0, next |-> j + 1]
VarNext(f, i, st) == IF st.done THEN st.val ELSE VarScan(f, i, st.next)
VarScan(f, i, j) == VarNext(f, i, VarChar(f, i, j))
CopyVariable(f, i) == VarScan(f, i, i + 2)

\* The loop that skips the rest of %{...} once a value was found.
RECURSIVE SkipToClose(_, _, _, _)
SkipChar(f, p, ob) ==
    CASE f[p] = "\\" -> IF Ch(f, p + 1) = NUL THEN [stop |-> TRUE, p |-> p + 1, ob |-> ob]
                        ELSE [stop |-> FALSE, p |-> p + 2, ob |-> ob]
      [] f[p] = "{" -> [stop |-> FALSE, p |-> p + 1, ob |-> ob + 1]
      [] f[p] = "}" -> [stop |-> FALSE, p |-> p + 1, ob |-> ob - 1]
      [] f[p] \notin {"\\", "{", "}"} -> [stop |-> FALSE, p |-> p + 1, ob |-> ob]
SkipNext(f, ob0, st) ==
    IF st.stop THEN [p |-> st.p, ob |-> st.ob] ELSE SkipToClose(f, st.p, st.ob, ob0)
SkipToClose(f, p, ob, ob0) ==
    IF Ch(f, p) = NUL \/ ob <= ob0 THEN [p |-> p, ob |-> ob]
    ELSE SkipNext(f, ob0, SkipChar(f, p, ob))

\* The loop that copies the per-module string after "name:".
RECURSIVE ScanArg(_, _, _, _, _)
ArgTo(stop, p, arg, ob, err) == [stop |-> stop, p |-> p, arg |-> arg, ob |-> ob, err |-> err]
ArgChar(f, p, arg, ob, delim) ==
    CASE f[p] = "\\" -> IF Ch(f, p + 1) = NUL THEN ArgTo(TRUE, p + 2, arg, ob, {"overread"})
                        ELSE ArgTo(FALSE, p + 2, Append(arg, f[p + 1]), ob, {})
      [] f[p] = ":" /\ Ch(f, p + 1) = "-" -> ArgTo(TRUE, p + 2, arg, ob, {})
      [] f[p] = "{" -> ArgTo(FALSE, p + 1, Append(arg, "{"), ob + 1, {})
      [] f[p] = "}" /\ ob - 1 = delim -> ArgTo(TRUE, p + 1, arg, ob - 1, {})
      [] f[p] = "}" /\ ob - 1 # delim -> ArgTo(FALSE, p + 1, Append(arg, "}"), ob - 1, {})
      [] OTHER -> ArgTo(FALSE, p + 1, Append(arg, f[p]), ob, {})
ArgNext(f, delim, st) ==
    IF st.stop THEN st ELSE ScanArg(f, st.p, st.arg, st.ob, delim)
ScanArg(f, p, arg, ob, delim) ==
    IF Ch(f, p) = NUL THEN ArgTo(TRUE, p, arg, ob, {})
    ELSE ArgNext(f, delim, ArgChar(f, p, arg, ob, delim))

\* After the call: with a value, write it (or its length for %{#...}) and
\* skip to the closing brace; without one, write nothing and stay.
Written(s, r, dolen, outlen) ==
    [p |-> s.p, ob |-> s.ob, err |-> r.err,
     w |-> IF dolen THEN TruncTo(IntStr(r.ret), outlen - 1) ELSE r.w]
Found(f, p, ob, ob0, dolen, outlen, r) ==
    IF r.ret > 0 THEN Written(SkipToClose(f, p, ob, ob0), r, dolen, outlen)
    ELSE [p |-> p, ob |-> ob, err |-> r.err, w |-> <<>>]

\* do_xlat: look the name up, call the function, honour %{#...}.
Called(c, arg, outlen) == IF c = NoEntry THEN Res(<<>>) ELSE CallXlat(c, arg, outlen)
DoXlat(f, p, name, arg, outlen, ob, ob0, dolen, R) ==
    Found(f, p, ob, ob0, dolen, outlen, Called(XlatFind(name, R), arg, outlen))

RECURSIVE XLoop(_, _, _, _, _, _)

\* %{%{first}:-second}: expand first, else second, into q.
AltDone(p, w, ob, err) == [p |-> p, w |-> w, ob |-> ob, err |-> err]
AltPick(p2, r1, r2, ob) ==
    IF r1.out # <<>> \/ r1.err # {} THEN AltDone(p2, r1.out, ob, r1.err)
    ELSE AltDone(p2, r2.out, ob, r2.err)
AltSpan(f, p, len1, p1, expand2, len2, outlen, ob, R) ==
    IF expand2 /\ len2 < 0 THEN AltDone(p1, <<>>, ob, {})
    ELSE IF Ch(f, p1 + len2) # "}" THEN AltDone(p1 + len2, <<>>, ob, {})
    ELSE AltPick(p1 + len2,
                 XLoop(SubSeq(f, p, p + len1 - 1), 1, <<>>, 0, outlen, R),
                 IF expand2 THEN XLoop(SubSeq(f, p1, p1 + len2 - 1), 1, <<>>, 0, outlen, R)
                 ELSE [out |-> TruncTo(SubSeq(f, p1, p1 + len2 - 1), outlen - 1), err |-> {}],
                 ob)
\* The plain second part: up to the next '}' or the end.
EndOr(f, k) == IF k = 0 THEN Len(f) + 1 ELSE k
PlainLenTo(f, p1, k) == EndOr(f, k) - p1
PlainLen(f, p1) == PlainLenTo(f, p1, SelectInSubSeq(f, p1, Len(f), LAMBDA ch : ch = "}"))
AltSecond(f, p, len1, p1, expand2, outlen, ob, R) ==
    AltSpan(f, p, len1, p1, expand2, IF expand2 THEN CopyVariable(f, p1) ELSE PlainLen(f, p1),
            outlen, ob, R)
AltFirst(f, p, len1, outlen, ob, R) ==
    IF len1 < 0 THEN AltDone(p, <<>>, ob, {})
    ELSE IF Ch(f, p + len1) # ":" \/ Ch(f, p + len1 + 1) # "-" THEN AltDone(p, <<>>, ob, {})
    ELSE AltSecond(f, p, len1, p + len1 + 2,
                   Ch(f, p + len1 + 2) = "%" /\ Ch(f, p + len1 + 3) = "{", outlen, ob, R)
DecodeAlternation(f, p, outlen, ob, R) == AltFirst(f, p, CopyVariable(f, p), outlen, ob, R)

\* %{name:string}: the string scanned; "name:{string}" is delimited by its brace.
ModuleString(f, name, s, delim, outlen, ob0, dolen, R) ==
    IF s.err # {} THEN [p |-> s.p, w |-> <<>>, ob |-> s.ob, err |-> s.err]
    ELSE DoXlat(f, IF s.ob = delim /\ Ch(f, s.p) = ":" /\ Ch(f, s.p + 1) = "-" THEN s.p + 2 ELSE s.p,
                name, s.arg, outlen, s.ob, ob0, dolen, R)

\* The name runs from p to stop, the first '}', ':' or the NUL.
NameAt(f, stop, name, outlen, ob0, dolen, R) ==
    IF Ch(f, stop) = NUL THEN [p |-> stop, w |-> <<>>, ob |-> ob0 + 1, err |-> {}]
    ELSE IF Ch(f, stop) = ":" /\ Ch(f, stop + 1) # "-"
    THEN ModuleString(f, name,
                      ScanArg(f, IF Ch(f, stop + 1) = "{" THEN stop + 2 ELSE stop + 1, <<>>,
                              IF Ch(f, stop + 1) = "{" THEN ob0 + 2 ELSE ob0 + 1,
                              IF Ch(f, stop + 1) = "{" THEN ob0 + 1 ELSE ob0),
                      IF Ch(f, stop + 1) = "{" THEN ob0 + 1 ELSE ob0, outlen, ob0, dolen, R)
    ELSE DoXlat(f, IF Ch(f, stop) = "}" THEN stop + 1 ELSE stop + 2, name, name, outlen,
                IF Ch(f, stop) = "}" THEN ob0 ELSE ob0 + 1, ob0, dolen, R)

\* %{name}, %{name:-...} and %{name:string}.
NameEnd(f, p, stop, outlen, ob0, dolen, R) ==
    NameAt(f, stop, SubSeq(f, p, stop - 1), outlen, ob0, dolen, R)
DecodeName(f, p, outlen, ob0, dolen, R) ==
    NameEnd(f, p, EndOr(f, SelectInSubSeq(f, p, Len(f), LAMBDA ch : ch \in {"}", ":"})),
            outlen, ob0, dolen, R)

\* decode_attribute, called with p at the '{' after '%'.
DecodeAttribute(f, p, outlen, ob0, R) ==
    LET dolen == Ch(f, p + 1) = "#"
        q     == IF dolen THEN p + 2 ELSE p + 1
    IN IF Ch(f, q) = "%" /\ Ch(f, q + 1) = "{"
       THEN DecodeAlternation(f, q, outlen, ob0 + 1, R)
       ELSE DecodeName(f, q, outlen, ob0, dolen, R)

\* The backslash escapes of radius_xlat.
Escape(d) == CASE d = "\\" -> <<"\\">>
               [] d = "t" -> <<"\t">>
               [] d = "n" -> <<NL>>
               [] OTHER -> <<"\\", d>>

\* vp_prints into a buffer of n bytes (library code): what fits before the NUL.
VpPrints(text, n) == TruncTo(text, n - 1)

\* %Z: a tab, the pair, a newline for each pair but User-Password while
\* more than three bytes are free.
RECURSIVE DumpPairs(_, _)
DumpPairs(vps, freespace) ==
    IF vps = <<>> \/ freespace <= 3 THEN <<>>
    ELSE IF Head(vps).pw THEN DumpPairs(Tail(vps), freespace)
    ELSE LET t == VpPrints(Head(vps).text, freespace - 2)
         IN <<"\t">> \o t \o <<NL>> \o DumpPairs(Tail(vps), freespace - (Len(t) + 2))

\* The single-letter cases of the '%' switch: %%, the letters that print an
\* attribute through valuepair2str, the letters that strlcpy a string (the
\* directories, "Verified" and the request times), and %Z.
KnownPct == {"%", "Z"} \cup DOMAIN PctVps \cup DOMAIN PctStr
PctWrite(d, freespace) ==
    CASE d = "%" -> <<"%">>
      [] d \in DOMAIN PctVps -> ValuePair2Str(PctVps[d].vals, PctVps[d].ph, freespace)
      [] d \in DOMAIN PctStr -> TruncTo(PctStr[d], freespace - 1)
      [] d = "Z" -> DumpPairs(ZPairs, freespace)

\* Mutant: the free-space test off by one.
LoopEndsLate(c, freespace) == c = NUL \/ freespace <= 0

\* The loop ends at the NUL or when at most one byte is free.
LoopEnds(c, freespace) == c = NUL \/ freespace <= 1

\* One pass of radius_xlat's loop at read position i with fs bytes free.
LoopTo(j, w, ob) == [stop |-> FALSE, j |-> j, w |-> w, ob |-> ob, err |-> {}]
Decoded(r) == [stop |-> r.err # {}, j |-> r.p, w |-> r.w, ob |-> r.ob, err |-> r.err]
LoopStep(f, i, ob, fs, R) ==
    LET c == Ch(f, i)
        d == Ch(f, i + 1)
    IN IF c \notin {"%", "$", "\\"}
       THEN IF c = "}" /\ ob > 0 THEN LoopTo(i + 1, <<>>, ob - 1) ELSE LoopTo(i + 1, <<c>>, ob)
       ELSE IF d = NUL THEN [LoopTo(i + 1, <<c>>, ob) EXCEPT !.stop = TRUE]
       ELSE CASE c = "\\" -> LoopTo(i + 2, Escape(d), ob)
              [] c = "$" -> LoopTo(i + 1, <<>>, ob)
              [] c = "%" /\ d = "{" -> Decoded(DecodeAttribute(f, i + 1, fs, ob, R))
              [] c = "%" /\ d \in KnownPct -> LoopTo(i + 2, PctWrite(d, fs), ob)
              [] c = "%" /\ d \notin KnownPct \cup {"{"} ->
                    IF fs > 2 THEN LoopTo(i + 2, <<"%", d>>, ob) ELSE LoopTo(i + 1, <<>>, ob)

LoopNext(f, out, outlen, R, st) ==
    IF st.stop THEN [out |-> out \o st.w, err |-> st.err]
    ELSE XLoop(f, st.j, out \o st.w, st.ob, outlen, R)

\* radius_xlat's main loop, from read position i with out already written.
XLoop(f, i, out, ob, outlen, R) ==
    IF LoopEnds(Ch(f, i), outlen - Len(out)) THEN [out |-> out, err |-> {}]
    ELSE LoopNext(f, out, outlen, R, LoopStep(f, i, ob, outlen - Len(out), R))

RadiusXlat(f, outlen, R) == XLoop(f, 1, <<>>, 0, outlen, R)


-----------------------------------------------------------------------------
(* The registry and the calls on it. *)

\* exp only observes radius_xlat, which changes neither root nor reg: a
\* registry call clears it, and one expansion is observed per registry
\* state, which reaches every registry state, format and size.
NoExp == [done |-> FALSE, fmt |-> <<>>, outlen |-> 0, reg |-> [n \in {} |-> NoEntry],
          out |-> <<>>, err |-> {}]

Init ==
    /\ root = "none"
    /\ reg = [n \in {} |-> NoEntry]
    /\ exp = NoExp

\* Mutant: "c->internal = TRUE" applied to every registered name.
RegisterMarksInternal(n, fn) ==
    LET r0 == IF root = "none" THEN InternalEntries ELSE reg
    IN /\ root' = "live"
       /\ reg' = IF n \in DOMAIN r0 /\ r0[n].internal THEN r0
                 ELSE [x \in DOMAIN r0 \cup {n} |->
                         IF x = n THEN [ModEntry(fn) EXCEPT !.internal = TRUE] ELSE r0[x]]
       /\ exp' = NoExp

\* xlat_register: the first call builds the tree and the internal entries;
\* an existing entry is replaced unless it is internal; else a new entry.
Register(n, fn) ==
    LET r0 == IF root = "none" THEN InternalEntries ELSE reg
    IN /\ root' = "live"
       /\ reg' = IF n \in DOMAIN r0 /\ r0[n].internal THEN r0
                 ELSE [x \in DOMAIN r0 \cup {n} |-> IF x = n THEN ModEntry(fn) ELSE r0[x]]
       /\ exp' = NoExp

\* xlat_unregister: deletes the node of that name, whatever it holds.
Unregister(n) ==
    /\ root = "live"
    /\ n \in DOMAIN reg
    /\ reg' = [x \in DOMAIN reg \ {n} |-> reg[x]]
    /\ exp' = NoExp
    /\ UNCHANGED root

\* radius_xlat(out, outlen, fmt, request, NULL), escaping with xlat_copy.
Observed(f, outlen, r) ==
    [done |-> TRUE, fmt |-> f, outlen |-> outlen, reg |-> reg, out |-> r.out, err |-> r.err]
Expand(f, outlen) ==
    /\ root = "live"
    /\ ~exp.done
    /\ exp' = Observed(f, outlen, RadiusXlat(f, outlen, reg))
    /\ UNCHANGED <<root, reg>>

Next ==
    \/ \E n \in ModNames, fn \in Funcs : Register(n, fn)
    \/ \E n \in ModNames : Unregister(n)
    \/ \E f \in Formats, outlen \in OutLens : Expand(f, outlen)

Spec == Init /\ [][Next]_vars

-----------------------------------------------------------------------------
(* Properties. *)

Entries == [func : Funcs \cup {"packet", "regex", "debug"}, inst : {"request", "control", "none"},
            internal : BOOLEAN]

TypeOK ==
    /\ root \in {"none", "live"}
    /\ DOMAIN reg \subseteq ModNames \cup DOMAIN InternalEntries
    /\ \A n \in DOMAIN reg : reg[n] \in Entries
    /\ \A n \in DOMAIN reg : reg[n].internal => n \in DOMAIN InternalEntries
    /\ exp.done => exp.fmt \in Formats /\ exp.outlen \in OutLens
    /\ exp.err \subseteq {"abort", "overread"}

\* Constructs whose expansion the code sizes from the space left rather than
\* by truncating the full result: an unknown backslash escape (two bytes
\* written with one checked), %{Attr[*]}, %{#...} (the length of what fit)
\* an unknown %letter (dropped when two bytes are left) and %Z (each pair
\* cut short and still closed with a newline).
UnknownEscape(f) == \E i \in 1..Len(f) : f[i] = "\\" /\ Ch(f, i + 1) \notin {"\\", "t", "n", NUL}
StarRef(f) == \E i \in 1..Len(f) - 2 : SubSeq(f, i, i + 2) = <<"[", "*", "]">>
DumpRef(f) == \E i \in 1..Len(f) - 1 : f[i] = "%" /\ f[i + 1] = "Z"
LengthRef(f) == \E i \in 1..Len(f) : f[i] = "{" /\ Ch(f, i + 1) = "#"
UnknownPct(f) == \E i \in 1..Len(f) : f[i] = "%" /\ Ch(f, i + 1) \notin KnownPct \cup {"{", NUL}
Exempted(f) ==
    \/ "escape" \in Exempt /\ UnknownEscape(f)
    \/ "star" \in Exempt /\ StarRef(f)
    \/ "length" \in Exempt /\ LengthRef(f)
    \/ "percent" \in Exempt /\ UnknownPct(f)
    \/ "dump" \in Exempt /\ DumpRef(f)

\* exp.out is the first outlen - 1 characters of the result full.
TruncatesTo(full) ==
    exp.err = {} /\ full.err = {} => exp.out = TruncTo(full.out, exp.outlen - 1)

\* radius_xlat into a buffer of outlen bytes yields exactly the first
\* outlen - 1 characters of what it yields into an ample buffer, with the
\* same registry: running out of space (the freespace checks of the main
\* loop, decode_attribute, xlat_packet and xlat_copy) only truncates.
TruncationConsistent ==
    exp.done /\ ~Exempted(exp.fmt) => TruncatesTo(RadiusXlat(exp.fmt, Ample, exp.reg))

\* The terminating NUL that radius_xlat writes at q stays inside out[0..outlen-1].
NulInBounds == exp.done => Len(exp.out) < exp.outlen

\* No expansion trips a rad_assert (xlat_copy asserts outlen > 0).
NoAssertAbort == exp.done => "abort" \notin exp.err

\* No expansion reads the format past its terminating NUL.
NoReadPastEnd == exp.done => "overread" \notin exp.err

\* The internal entries ("not allowed to re-define these") stay registered
\* with their packet functions once the tree exists.
InternalsPresent ==
    root = "live" => \A n \in DOMAIN InternalEntries :
                        n \in DOMAIN reg /\ reg[n] = InternalEntries[n]

=============================================================================
