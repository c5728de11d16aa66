------------------------------- MODULE MC_XLat -------------------------------
(***************************************************************************)
(* Instance of XLat for TLC: a dictionary attribute "a" with two values in *)
(* the request and none in the control list, and "p", a field of the       *)
(* request packet; %a with no value, %u with one, %V, and %Z over a        *)
(* password pair and two others; a module name "x", and a module           *)
(* configured with the internal name "r"; "0" names the regex match "gh"  *)
(* and "d" is "debug".  Formats are every string of up to three           *)
(* characters over the parser's special characters plus a letter, and     *)
(* every concatenation of two of the constructs below.                     *)
(***************************************************************************)
EXTENDS XLat, TLC

CONSTANTS m1, m2

MC_Dict == {<<"a">>, <<"p">>}
MC_PctVps == ("a" :> [vals |-> <<>>, ph |-> <<"0">>]) @@
             ("u" :> [vals |-> <<<<"b", "o">>>>, ph |-> <<"_">>])
MC_PctStr == "V" :> <<"V", "e">>
MC_ZPairs == <<[pw |-> TRUE, text |-> <<"p">>], [pw |-> FALSE, text |-> <<"u", "b">>],
               [pw |-> FALSE, text |-> <<"n">>]>>
MC_RequestName == <<"r">>
MC_ControlName == <<"c">>
MC_RegexName == <<"0">>
MC_DebugName == <<"d">>
MC_RegexMatch == <<"g", "h">>
MC_ModNames == {<<"x">>, <<"r">>}
MC_Vps == [l \in {"request", "control"} |->
             [n \in MC_Dict |-> IF l = "request" /\ n = <<"a">> THEN <<<<"v", "w">>, <<"u">>>> ELSE <<>>]]
MC_Magic == "request" :> (<<"p">> :> <<"A", "c">>)
MC_ModOut == [f \in {m1, m2} |-> IF f = m1 THEN <<"m">> ELSE <<"n", "o">>]

Chars == {"a", "x", "%", "\\", "{", "}", ":", "-", "#", "$"}

Constructs == {
    <<"a">>, <<"}">>, <<"\\", "a">>, <<"\\", "\\">>, <<"%", "x">>, <<"%", "a">>,
    <<"%", "u">>, <<"%", "V">>, <<"%", "Z">>,
    <<"%", "{", "a", "}">>,                                   \* %{a}
    <<"%", "{", "p", "}">>,                                   \* %{p}
    <<"%", "{", "x", "}">>,                                   \* %{x}
    <<"%", "{", "#", "a", "}">>,                              \* %{#a}
    <<"%", "{", "a", "[", "*", "]", "}">>,                    \* %{a[*]}
    <<"%", "{", "a", "[", "#", "]", "}">>,                    \* %{a[#]}
    <<"%", "{", "a", "[", "1", "]", "}">>,                    \* %{a[1]}
    <<"%", "{", "a", ":", "-", "x", "}">>,                    \* %{a:-x}
    <<"%", "{", "x", ":", "a", "}">>,                         \* %{x:a}
    <<"%", "{", "x", ":", "{", "a", "}", "}">>,               \* %{x:{a}}
    <<"%", "{", "x", ":", "\\">>,                             \* %{x:\
    <<"%", "{", "a", ":", "-", "%", "{", "x", "}", "}">>,     \* %{a:-%{x}}
    <<"%", "{", "%", "{", "x", "}", ":", "-", "%", "{", "a", "}", "}">>, \* %{%{x}:-%{a}}
    <<"%", "{", "%", "{", "r", "}", ":", "-", "a", "}">>,     \* %{%{r}:-a}
    <<"%", "{", "0", "}">>,                                   \* %{0}
    <<"%", "{", "d", "}">>,                                   \* %{d}
    <<"%", "{", "d", ":", "7", "}">>,                         \* %{d:7}
    <<"%", "{", "d", ":", "{", "-", "1", "}", "}">>}          \* %{d:{-1}}

MC_Formats == SeqOf(Chars, 3) \cup {c1 \o c2 : c1, c2 \in Constructs \cup {<<>>}}

=============================================================================
