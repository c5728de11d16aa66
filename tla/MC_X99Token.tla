---------------------------- MODULE MC_X99Token ----------------------------
(* Instantiation of X99Token for TLC: one user with a card in both modes. *)
EXTENDS X99Token, TLC

CONSTANTS Wrong   \* a passcode that is no response of any challenge

\* Seed chain responses reachable by the windows, async responses to the
\* challenges and the next challenge after each, and junk.
MC_Passcodes ==
    {<<Seed, n>> : n \in 0 .. 3}
      \cup {<<c, n>> : c \in Challenges, n \in 0 .. 1}
      \cup {Wrong}

MC_CardCaps == [u \in KnownUsers |-> {"SM", "AM"}]

MC_Symmetry == Permutations(Req) \cup Permutations(Challenges)

\* A negative softfail or hardfail in radiusd.conf, which
\* x99_token_instantiate replaces.
MC_NegativeFail == -1
=============================================================================
