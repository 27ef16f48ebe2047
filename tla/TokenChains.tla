---------------------------- MODULE TokenChains -----------------------------
(***************************************************************************)
(* What refresh tokens promise: signing in opens a chain; a token may be    *)
(* exchanged once, for the chain's next token; any set of tokens may be     *)
(* ended, and none ever comes back.  SessionAuth implements this module.    *)
(***************************************************************************)
CONSTANTS Jtis, NoJti

VARIABLES root,    \* the first token of the chain each issued token is in
          usable   \* the tokens that can still be exchanged

vars == <<root, usable>>

Fresh(j) == root[j] = NoJti

Init == root = [j \in Jtis |-> NoJti] /\ usable = {}

Open(j) ==
  /\ Fresh(j)
  /\ root' = [root EXCEPT ![j] = j]
  /\ usable' = usable \cup {j}

Exchange(j, s) ==
  /\ j \in usable /\ Fresh(s)
  /\ root' = [root EXCEPT ![s] = root[j]]
  /\ usable' = (usable \ {j}) \cup {s}

End(S) ==
  /\ usable' = usable \ S
  /\ UNCHANGED root

Next == \/ \E j \in Jtis : Open(j)
        \/ \E j, s \in Jtis : Exchange(j, s)
        \/ \E S \in SUBSET Jtis : End(S)

Spec == Init /\ [][Next]_vars

\* A chain has at most one token that can still be exchanged.
OneUsablePerChain == \A j, k \in usable : root[j] = root[k] => j = k
=============================================================================
