----------------------------- MODULE MCUtxoStore -----------------------------
(***************************************************************************)
(* A block tree with two branches for HistoryIndex, and so for UtxoStore,  *)
(* which it extends.  G is at height 0.                                    *)
(*   Branch A: A1 spends o1 and creates o2 and o3; A2 spends o2 and        *)
(*     creates and spends o4; A3 spends o3 and creates o5.                 *)
(*   Branch B: B1 creates o3 only; B2 mines the transaction of o2 one      *)
(*     block later than branch A, and spends o1 and o3.                    *)
(* Script p is paid by G, q by A1 and on the other branch first by B2, r   *)
(* by A2 only.  Each outpoint is a transaction of its own, so that those   *)
(* of o2 and o3 are mined at different heights of the two branches.        *)
(***************************************************************************)
EXTENDS HistoryIndex

CONSTANTS G, A1, A2, A3, B1, B2, o1, o2, o3, o4, o5, p, q, r

MCBlock == {G, A1, A2, A3, B1, B2}
MCOut   == {o1, o2, o3, o4, o5}

MCParent ==
    [b \in MCBlock |->
        CASE b = G -> Root [] b \in {A1, B1} -> G [] b = A2 -> A1
          [] b = A3 -> A2  [] b = B2 -> B1]

MCHeight ==
    [t \in MCBlock \cup {Root} |->
        CASE t = Root -> -1 [] t = G -> 0 [] t \in {A1, B1} -> 1
          [] t \in {A2, B2} -> 2 [] t = A3 -> 3]

MCCreates ==
    [b \in MCBlock |->
        CASE b = G -> {o1} [] b = A1 -> {o2, o3} [] b = A2 -> {o4} [] b = A3 -> {o5}
          [] b = B1 -> {o3} [] b = B2 -> {o2}]

MCSpends ==
    [b \in MCBlock |->
        CASE b = G -> {} [] b = A1 -> {o1} [] b = A2 -> {o2, o4} [] b = A3 -> {o3}
          [] b = B1 -> {} [] b = B2 -> {o1, o3}]

MCBorn[t \in MCBlock \cup {Root}] ==
    IF t = Root THEN [o \in MCOut |-> -1]
    ELSE [o \in MCOut |-> IF o \in MCCreates[t] THEN MCHeight[t] ELSE MCBorn[MCParent[t]][o]]

MCLive[t \in MCBlock \cup {Root}] ==
    IF t = Root THEN {}
    ELSE (MCLive[MCParent[t]] \cup MCCreates[t]) \ MCSpends[t]

MCScript == {p, q, r}
MCPaysTo == [o \in MCOut |-> CASE o \in {o1, o3} -> p [] o \in {o2, o5} -> q [] o = o4 -> r]
MCTxOf   == [o \in MCOut |-> o]

MCSeen[t \in MCBlock \cup {Root}] ==
    IF t = Root THEN [s \in MCScript |-> -1]
    ELSE [s \in MCScript |->
            IF MCSeen[MCParent[t]][s] = -1 /\ \E o \in MCCreates[t] : MCPaysTo[o] = s
            THEN MCHeight[t] ELSE MCSeen[MCParent[t]][s]]

MCMined[t \in MCBlock \cup {Root}] ==
    IF t = Root THEN [v \in MCOut |-> Root]
    ELSE [v \in MCOut |-> IF v \in MCCreates[t] THEN t ELSE MCMined[MCParent[t]][v]]
=============================================================================
