------------------------------ MODULE HttpProofs ------------------------------
(***************************************************************************)
(* For every number of hosts, transactions and connections and all limits, *)
(* failing connections and restarts included: the counters of the manager  *)
(* agree with its lists and never go past mMaxConns, a transaction is in   *)
(* one place and closed ones in none, no active connection is forgotten,   *)
(* and nothing waits while no connection is active.                        *)
(***************************************************************************)
EXTENDS HttpConnectionMgr, ListFacts, FiniteSetTheorems, TLAPS

MgrType == [mPendingQ : [Hosts -> Seq(Transactions)],
            mActiveConns : [Hosts -> SUBSET Conns], mIdleConns : [Hosts -> Seq(Conns)],
            mNumActiveConns : Nat, mNumIdleConns : Nat]

\* The books of a manager m, the one of a state or one halfway in a handler.
MgrOK(m) ==
    /\ m \in MgrType
    /\ m.mNumActiveConns = Cardinality(Active(m)) /\ m.mNumIdleConns = Cardinality(Idle(m))
    /\ Active(m) \cap Idle(m) = {}
    /\ \A h \in Hosts : Distinct(m.mIdleConns[h]) /\ Distinct(m.mPendingQ[h])
    /\ \A g, h \in Hosts : g # h =>
         /\ m.mActiveConns[g] \cap m.mActiveConns[h] = {}
         /\ ToSet(m.mIdleConns[g]) \cap ToSet(m.mIdleConns[h]) = {}

LEMMA MgrTypes ==
    ASSUME NEW m \in MgrType
    PROVE  /\ m.mPendingQ \in [Hosts -> Seq(Transactions)]
           /\ m.mActiveConns \in [Hosts -> SUBSET Conns]
           /\ m.mIdleConns \in [Hosts -> Seq(Conns)]
           /\ m.mNumActiveConns \in Nat /\ m.mNumIdleConns \in Nat
BY DEF MgrType

LEMMA ListTypes ==
    ASSUME NEW m \in MgrType
    PROVE  /\ Active(m) \in SUBSET Conns /\ Idle(m) \in SUBSET Conns
           /\ \A h \in Hosts : /\ ToSet(m.mIdleConns[h]) \subseteq Idle(m)
                               /\ m.mActiveConns[h] \subseteq Active(m)
           /\ IsFiniteSet(Active(m)) /\ IsFiniteSet(Idle(m))
           /\ Cardinality(Active(m)) \in 0 .. Cardinality(Conns)
           /\ Cardinality(Idle(m)) \in 0 .. Cardinality(Conns)
<1>1. Active(m) \in SUBSET Conns
  BY MgrTypes DEF Active
<1>2. ASSUME NEW h \in Hosts PROVE ToSet(m.mIdleConns[h]) \subseteq Conns
  <2>1. m.mIdleConns[h] \in Seq(Conns)
    BY MgrTypes
  <2> QED BY <2>1, ToSetContains
<1>3. Idle(m) \in SUBSET Conns
  BY <1>2 DEF Idle
<1>4. IsFiniteSet(Conns)
  BY HttpAssumption
<1>5. /\ IsFiniteSet(Active(m)) /\ Cardinality(Active(m)) <= Cardinality(Conns)
      /\ IsFiniteSet(Idle(m)) /\ Cardinality(Idle(m)) <= Cardinality(Conns)
  BY <1>1, <1>3, <1>4, FS_Subset
<1>6. Cardinality(Active(m)) \in Nat /\ Cardinality(Idle(m)) \in Nat /\ Cardinality(Conns) \in Nat
  BY <1>4, <1>5, FS_CardinalityType
<1>7. \A h \in Hosts : ToSet(m.mIdleConns[h]) \subseteq Idle(m) /\ m.mActiveConns[h] \subseteq Active(m)
  BY DEF Active, Idle
<1> QED BY <1>1, <1>3, <1>5, <1>6, <1>7

-----------------------------------------------------------------------------
(* What each change of a manager does to its fields, and that it keeps the  *)
(* books.                                                                   *)
LEMMA DropFields ==
    ASSUME NEW m \in MgrType, NEW h \in Hosts, NEW n \in 0 .. Len(m.mIdleConns[h]),
           n <= m.mNumIdleConns
    PROVE  /\ DropOldest(m, h, n) \in MgrType
           /\ DropOldest(m, h, n).mPendingQ = m.mPendingQ
           /\ DropOldest(m, h, n).mActiveConns = m.mActiveConns
           /\ DropOldest(m, h, n).mNumActiveConns = m.mNumActiveConns
           /\ DropOldest(m, h, n).mNumIdleConns = m.mNumIdleConns - n
           /\ DropOldest(m, h, n).mIdleConns =
                [m.mIdleConns EXCEPT ![h] = SubSeq(@, n + 1, Len(@))]
<1>1. m.mIdleConns \in [Hosts -> Seq(Conns)] /\ m.mNumIdleConns \in Nat
  BY MgrTypes
<1>2. m.mIdleConns[h] \in Seq(Conns)
  BY <1>1
<1>3. SubSeq(m.mIdleConns[h], n + 1, Len(m.mIdleConns[h])) \in Seq(Conns)
  BY <1>2
<1>4. m.mNumIdleConns - n \in Nat
  BY <1>1
<1>5. DropOldest(m, h, n) =
        [m EXCEPT !.mIdleConns =
                    [m.mIdleConns EXCEPT ![h] = SubSeq(@, n + 1, Len(@))],
                  !.mNumIdleConns = m.mNumIdleConns - n]
  BY DEF DropOldest, MgrType
<1>. PICK f : f = [m.mIdleConns EXCEPT ![h] = SubSeq(@, n + 1, Len(@))]
  OBVIOUS
<1>6. f \in [Hosts -> Seq(Conns)]
  BY <1>1, <1>3
<1>7. DropOldest(m, h, n) = [m EXCEPT !.mIdleConns = f, !.mNumIdleConns = m.mNumIdleConns - n]
  BY <1>5
<1> QED BY <1>4, <1>6, <1>7 DEF MgrType

\* Fewer idle connections.
LEMMA IdleShrinks ==
    ASSUME NEW m, MgrOK(m), NEW p \in MgrType,
           p.mPendingQ = m.mPendingQ, p.mActiveConns = m.mActiveConns,
           p.mNumActiveConns = m.mNumActiveConns, p.mNumIdleConns = Cardinality(Idle(p)),
           \A h \in Hosts : /\ Distinct(p.mIdleConns[h])
                            /\ ToSet(p.mIdleConns[h]) \subseteq ToSet(m.mIdleConns[h])
    PROVE  MgrOK(p) /\ Active(p) = Active(m) /\ Idle(p) \subseteq Idle(m)
<1>1. Active(p) = Active(m)
  BY DEF Active
<1>2. Idle(p) \subseteq Idle(m)
  BY DEF Idle
<1>3. Active(p) \cap Idle(p) = {}
  BY <1>1, <1>2 DEF MgrOK
<1>4. \A g, h \in Hosts : g # h =>
         /\ p.mActiveConns[g] \cap p.mActiveConns[h] = {}
         /\ ToSet(p.mIdleConns[g]) \cap ToSet(p.mIdleConns[h]) = {}
  BY DEF MgrOK
<1>5. p.mNumActiveConns = Cardinality(Active(p))
  BY <1>1 DEF MgrOK
<1>6. \A h \in Hosts : Distinct(p.mIdleConns[h]) /\ Distinct(p.mPendingQ[h])
  BY DEF MgrOK
<1> QED BY <1>1, <1>2, <1>3, <1>4, <1>5, <1>6 DEF MgrOK

LEMMA DropOK ==
    ASSUME NEW m, MgrOK(m), NEW h \in Hosts, NEW n \in 0 .. Len(m.mIdleConns[h])
    PROVE  /\ MgrOK(DropOldest(m, h, n))
           /\ DropOldest(m, h, n).mPendingQ = m.mPendingQ
           /\ DropOldest(m, h, n).mActiveConns = m.mActiveConns
           /\ DropOldest(m, h, n).mNumActiveConns = m.mNumActiveConns
           /\ DropOldest(m, h, n).mNumIdleConns = m.mNumIdleConns - n
           /\ Active(DropOldest(m, h, n)) = Active(m)
           /\ Idle(DropOldest(m, h, n)) \subseteq Idle(m)
           /\ \A i \in 1 .. n : /\ m.mIdleConns[h][i] \in Idle(m)
                                /\ m.mIdleConns[h][i] \notin Idle(DropOldest(m, h, n))
<1>. PICK q : q = m.mIdleConns[h]
  OBVIOUS
<1>. PICK r : r = SubSeq(q, n + 1, Len(q))
  OBVIOUS
<1>. PICK p : p = DropOldest(m, h, n)
  OBVIOUS
<1>1. m \in MgrType /\ q \in Seq(Conns) /\ Distinct(q)
  BY MgrTypes DEF MgrOK
<1>2. /\ r \in Seq(Conns) /\ Distinct(r) /\ ToSet(r) \subseteq ToSet(q)
      /\ \A i \in 1 .. n : q[i] \in ToSet(q) /\ q[i] \notin ToSet(r)
      /\ Cardinality(ToSet(r)) = Cardinality(ToSet(q)) - n
  BY <1>1, DropSet
<1>3. IsFiniteSet(ToSet(q)) /\ Cardinality(ToSet(q)) = Len(q)
  BY <1>1, DistinctSize
<1>4. ToSet(q) \subseteq Idle(m) /\ IsFiniteSet(Idle(m)) /\ Cardinality(Idle(m)) \in Nat
  BY <1>1, ListTypes
<1>5. Cardinality(ToSet(q)) <= Cardinality(Idle(m))
  BY <1>4, FS_Subset
<1>6. n <= m.mNumIdleConns
  BY <1>1, <1>3, <1>5, <1>4 DEF MgrOK
<1>7. /\ p \in MgrType
      /\ p.mPendingQ = m.mPendingQ /\ p.mActiveConns = m.mActiveConns
      /\ p.mNumActiveConns = m.mNumActiveConns /\ p.mNumIdleConns = m.mNumIdleConns - n
      /\ p.mIdleConns = [m.mIdleConns EXCEPT ![h] = SubSeq(@, n + 1, Len(@))]
  <2>1. /\ DropOldest(m, h, n) \in MgrType
        /\ DropOldest(m, h, n).mPendingQ = m.mPendingQ
        /\ DropOldest(m, h, n).mActiveConns = m.mActiveConns
        /\ DropOldest(m, h, n).mNumActiveConns = m.mNumActiveConns
        /\ DropOldest(m, h, n).mNumIdleConns = m.mNumIdleConns - n
        /\ DropOldest(m, h, n).mIdleConns = [m.mIdleConns EXCEPT ![h] = SubSeq(@, n + 1, Len(@))]
    BY <1>1, <1>6, DropFields
  <2> QED BY <2>1
<1>8. p.mIdleConns[h] = r /\ \A g \in Hosts : g # h => p.mIdleConns[g] = m.mIdleConns[g]
  BY <1>1, <1>7, MgrTypes
<1>. DEFINE D == ToSet(q) \ ToSet(r)
<1>9. Idle(p) = Idle(m) \ D
  <2>1. ASSUME NEW c \in Idle(p) PROVE c \in Idle(m) /\ c \notin D
    <3>1. PICK g \in Hosts : c \in ToSet(p.mIdleConns[g])
      BY <2>1 DEF Idle
    <3>2. CASE g = h
      BY <1>2, <1>4, <1>8, <3>1, <3>2
    <3>3. CASE g # h
      <4>1. c \in ToSet(m.mIdleConns[g])
        BY <1>8, <3>1, <3>3
      <4>2. c \notin ToSet(q)
        BY <3>3, <4>1 DEF MgrOK
      <4> QED BY <4>1, <4>2 DEF Idle
    <3> QED BY <3>2, <3>3
  <2>2. ASSUME NEW c \in Idle(m), c \notin D PROVE c \in Idle(p)
    <3>1. PICK g \in Hosts : c \in ToSet(m.mIdleConns[g])
      BY <2>2 DEF Idle
    <3>2. c \in ToSet(p.mIdleConns[g])
      BY <1>8, <2>2, <3>1
    <3> QED BY <3>2 DEF Idle
  <2> QED BY <2>1, <2>2
<1>10. Cardinality(D) = n
  <2>1. Cardinality(D) = Cardinality(ToSet(q)) - Cardinality(ToSet(q) \cap ToSet(r))
    BY <1>3, FS_Difference
  <2>2. ToSet(q) \cap ToSet(r) = ToSet(r)
    BY <1>2
  <2>3. Cardinality(ToSet(q)) \in Nat
    BY <1>3, FS_CardinalityType
  <2>4. Cardinality(ToSet(r)) = Cardinality(ToSet(q)) - n
    BY <1>2
  <2>5. PICK x \in Nat : x = Cardinality(ToSet(q))
    BY <2>3
  <2>6. Cardinality(D) = x - (x - n)
    BY <2>1, <2>2, <2>4, <2>5
  <2>7. x - (x - n) = n
    OBVIOUS
  <2> QED BY <2>6, <2>7
<1>11. Cardinality(Idle(p)) = Cardinality(Idle(m)) - n
  <2>1. Cardinality(Idle(m) \ D) = Cardinality(Idle(m)) - Cardinality(Idle(m) \cap D)
    <3>1. IsFiniteSet(Idle(m))
      BY <1>4
    <3> QED BY <3>1, FS_Difference
  <2>2. Idle(m) \cap D = D
    BY <1>4
  <2> QED BY <1>9, <1>10, <2>1, <2>2
<1>12. p.mNumIdleConns = Cardinality(Idle(p))
  BY <1>7, <1>11 DEF MgrOK
<1>13. \A g \in Hosts : Distinct(p.mIdleConns[g]) /\ ToSet(p.mIdleConns[g]) \subseteq ToSet(m.mIdleConns[g])
  BY <1>2, <1>8 DEF MgrOK
<1>14. MgrOK(p) /\ Active(p) = Active(m) /\ Idle(p) \subseteq Idle(m)
  BY <1>7, <1>12, <1>13, IdleShrinks
<1>15. \A i \in 1 .. n : q[i] \in Idle(m) /\ q[i] \notin Idle(p)
  BY <1>2, <1>4, <1>9
<1> QED BY <1>7, <1>14, <1>15

LEMMA ActivatedOK ==
    ASSUME NEW m, MgrOK(m), NEW h \in Hosts, NEW c \in Conns, c \notin Active(m) \cup Idle(m)
    PROVE  /\ MgrOK(Activated(m, h, c))
           /\ Activated(m, h, c).mPendingQ = m.mPendingQ
           /\ Activated(m, h, c).mActiveConns = [m.mActiveConns EXCEPT ![h] = @ \cup {c}]
           /\ Activated(m, h, c).mNumActiveConns = m.mNumActiveConns + 1
           /\ Activated(m, h, c).mNumIdleConns = m.mNumIdleConns
           /\ Active(Activated(m, h, c)) = Active(m) \cup {c}
           /\ Idle(Activated(m, h, c)) = Idle(m)
<1>. PICK p : p = Activated(m, h, c)
  OBVIOUS
<1>. PICK f : f = [m.mActiveConns EXCEPT ![h] = @ \cup {c}]
  OBVIOUS
<1>1. m \in MgrType
  BY DEF MgrOK
<1>2. m.mActiveConns \in [Hosts -> SUBSET Conns] /\ m.mNumActiveConns \in Nat
  BY <1>1, MgrTypes
<1>3. f \in [Hosts -> SUBSET Conns]
  BY <1>2
<1>4. p = [m EXCEPT !.mActiveConns = f, !.mNumActiveConns = m.mNumActiveConns + 1]
  BY <1>1 DEF Activated, MgrType
<1>5. /\ p \in MgrType /\ p.mActiveConns = f /\ p.mNumActiveConns = m.mNumActiveConns + 1
      /\ p.mPendingQ = m.mPendingQ /\ p.mIdleConns = m.mIdleConns
      /\ p.mNumIdleConns = m.mNumIdleConns
  <2>1. m.mNumActiveConns + 1 \in Nat
    BY <1>2
  <2> QED BY <1>1, <1>3, <1>4, <2>1 DEF MgrType
<1>6. f[h] = m.mActiveConns[h] \cup {c} /\ \A g \in Hosts : g # h => f[g] = m.mActiveConns[g]
  BY <1>2
<1>7. Idle(p) = Idle(m)
  BY <1>5 DEF Idle
<1>8. Active(p) = Active(m) \cup {c}
  <2>1. ASSUME NEW d \in Active(p) PROVE d \in Active(m) \/ d = c
    BY <1>5, <1>6, <2>1 DEF Active
  <2>2. ASSUME NEW d \in Active(m) PROVE d \in Active(p)
    BY <1>5, <1>6, <2>2 DEF Active
  <2>3. c \in Active(p)
    BY <1>5, <1>6 DEF Active
  <2> QED BY <2>1, <2>2, <2>3
<1>9. IsFiniteSet(Active(m)) /\ c \notin Active(m)
  BY <1>1, ListTypes
<1>10. Cardinality(Active(m) \cup {c}) = Cardinality(Active(m)) + 1
  BY <1>9, FS_AddElement
<1>11. p.mNumActiveConns = Cardinality(Active(p)) /\ p.mNumIdleConns = Cardinality(Idle(p))
  BY <1>5, <1>7, <1>8, <1>10 DEF MgrOK
<1>12. Active(p) \cap Idle(p) = {}
  BY <1>7, <1>8 DEF MgrOK
<1>13. ASSUME NEW g \in Hosts, NEW k \in Hosts, g # k
       PROVE  p.mActiveConns[g] \cap p.mActiveConns[k] = {}
  <2>1. c \notin m.mActiveConns[g] /\ c \notin m.mActiveConns[k]
    BY DEF Active
  <2>2. m.mActiveConns[g] \cap m.mActiveConns[k] = {}
    BY <1>13 DEF MgrOK
  <2> QED BY <1>5, <1>6, <1>13, <2>1, <2>2
<1>14. \A k \in Hosts : Distinct(p.mIdleConns[k]) /\ Distinct(p.mPendingQ[k])
  BY <1>5 DEF MgrOK
<1>15. \A g, k \in Hosts : g # k =>
         ToSet(p.mIdleConns[g]) \cap ToSet(p.mIdleConns[k]) = {}
  BY <1>5 DEF MgrOK
<1>16. MgrOK(p)
  BY <1>5, <1>11, <1>12, <1>13, <1>14, <1>15 DEF MgrOK
<1> QED BY <1>5, <1>7, <1>8, <1>16

LEMMA DeactivatedOK ==
    ASSUME NEW m, MgrOK(m), NEW h \in Hosts, NEW c \in m.mActiveConns[h]
    PROVE  /\ MgrOK(Deactivated(m, h, c)) /\ c \in Conns /\ c \in Active(m)
           /\ Deactivated(m, h, c).mPendingQ = m.mPendingQ
           /\ Deactivated(m, h, c).mActiveConns = [m.mActiveConns EXCEPT ![h] = @ \ {c}]
           /\ Deactivated(m, h, c).mNumActiveConns = m.mNumActiveConns - 1
           /\ Deactivated(m, h, c).mNumIdleConns = m.mNumIdleConns
           /\ Active(Deactivated(m, h, c)) = Active(m) \ {c}
           /\ Idle(Deactivated(m, h, c)) = Idle(m) /\ c \notin Idle(m)
<1>. PICK p : p = Deactivated(m, h, c)
  OBVIOUS
<1>. PICK f : f = [m.mActiveConns EXCEPT ![h] = @ \ {c}]
  OBVIOUS
<1>1. m \in MgrType
  BY DEF MgrOK
<1>2. m.mActiveConns \in [Hosts -> SUBSET Conns] /\ m.mNumActiveConns \in Nat
  BY <1>1, MgrTypes
<1>3. f \in [Hosts -> SUBSET Conns]
  BY <1>2
<1>4. c \in Active(m) /\ IsFiniteSet(Active(m)) /\ c \in Conns
  BY <1>1, <1>2, ListTypes
<1>5. Cardinality(Active(m) \ {c}) = Cardinality(Active(m)) - 1
  BY <1>4, FS_RemoveElement
<1>6. Cardinality(Active(m)) \in Nat /\ Cardinality(Active(m)) # 0
  BY <1>4, FS_CardinalityType, FS_EmptySet
<1>7. m.mNumActiveConns - 1 \in Nat
  BY <1>2, <1>6 DEF MgrOK
<1>8. p = [m EXCEPT !.mActiveConns = f, !.mNumActiveConns = m.mNumActiveConns - 1]
  BY <1>1 DEF Deactivated, MgrType
<1>9. /\ p \in MgrType /\ p.mActiveConns = f /\ p.mNumActiveConns = m.mNumActiveConns - 1
      /\ p.mPendingQ = m.mPendingQ /\ p.mIdleConns = m.mIdleConns
      /\ p.mNumIdleConns = m.mNumIdleConns
  BY <1>1, <1>3, <1>7, <1>8 DEF MgrType
<1>10. f[h] = m.mActiveConns[h] \ {c} /\ \A g \in Hosts : g # h => f[g] = m.mActiveConns[g]
  BY <1>2
<1>11. Idle(p) = Idle(m)
  BY <1>9 DEF Idle
<1>12. Active(p) = Active(m) \ {c}
  <2>1. ASSUME NEW d \in Active(p) PROVE d \in Active(m) /\ d # c
    <3>1. PICK g \in Hosts : d \in f[g]
      BY <1>9, <2>1 DEF Active
    <3>2. d \in m.mActiveConns[g]
      BY <1>10, <3>1
    <3>3. g # h => c \notin m.mActiveConns[g]
      BY DEF MgrOK
    <3> QED BY <1>10, <3>1, <3>2, <3>3 DEF Active
  <2>2. ASSUME NEW d \in Active(m), d # c PROVE d \in Active(p)
    BY <1>9, <1>10, <2>2 DEF Active
  <2> QED BY <2>1, <2>2
<1>13. p.mNumActiveConns = Cardinality(Active(p)) /\ p.mNumIdleConns = Cardinality(Idle(p))
  BY <1>5, <1>9, <1>11, <1>12 DEF MgrOK
<1>14. Active(p) \cap Idle(p) = {} /\ c \notin Idle(m)
  BY <1>4, <1>11, <1>12 DEF MgrOK
<1>15. ASSUME NEW g \in Hosts, NEW k \in Hosts, g # k
       PROVE  p.mActiveConns[g] \cap p.mActiveConns[k] = {}
  <2>1. m.mActiveConns[g] \cap m.mActiveConns[k] = {}
    BY <1>15 DEF MgrOK
  <2> QED BY <1>9, <1>10, <2>1
<1>16. \A k \in Hosts : Distinct(p.mIdleConns[k]) /\ Distinct(p.mPendingQ[k])
  BY <1>9 DEF MgrOK
<1>17. \A g, k \in Hosts : g # k =>
         ToSet(p.mIdleConns[g]) \cap ToSet(p.mIdleConns[k]) = {}
  BY <1>9 DEF MgrOK
<1>18. MgrOK(p)
  BY <1>9, <1>13, <1>14, <1>15, <1>16, <1>17 DEF MgrOK
<1> QED BY <1>4, <1>9, <1>11, <1>12, <1>14, <1>18

Idled(m, h, c) ==
    [m EXCEPT !.mIdleConns[h] = Append(@, c), !.mNumIdleConns = @ + 1]

LEMMA IdledOK ==
    ASSUME NEW m, MgrOK(m), NEW h \in Hosts, NEW c \in Conns, c \notin Active(m) \cup Idle(m)
    PROVE  /\ MgrOK(Idled(m, h, c))
           /\ Idled(m, h, c).mPendingQ = m.mPendingQ
           /\ Idled(m, h, c).mActiveConns = m.mActiveConns
           /\ Idled(m, h, c).mNumActiveConns = m.mNumActiveConns
           /\ Idled(m, h, c).mNumIdleConns = m.mNumIdleConns + 1
           /\ Active(Idled(m, h, c)) = Active(m)
           /\ Idle(Idled(m, h, c)) = Idle(m) \cup {c}
<1>. PICK p : p = Idled(m, h, c)
  OBVIOUS
<1>. PICK f : f = [m.mIdleConns EXCEPT ![h] = Append(@, c)]
  OBVIOUS
<1>1. m \in MgrType
  BY DEF MgrOK
<1>2. m.mIdleConns \in [Hosts -> Seq(Conns)] /\ m.mNumIdleConns \in Nat
  BY <1>1, MgrTypes
<1>3. m.mIdleConns[h] \in Seq(Conns) /\ Distinct(m.mIdleConns[h]) /\ c \notin ToSet(m.mIdleConns[h])
  BY <1>2 DEF MgrOK, Idle
<1>4. /\ Append(m.mIdleConns[h], c) \in Seq(Conns)
      /\ ToSet(Append(m.mIdleConns[h], c)) = ToSet(m.mIdleConns[h]) \cup {c}
      /\ Distinct(Append(m.mIdleConns[h], c))
  BY <1>3, AppendSet
<1>5. f \in [Hosts -> Seq(Conns)]
  BY <1>2, <1>4
<1>6. p = [m EXCEPT !.mIdleConns = f, !.mNumIdleConns = m.mNumIdleConns + 1]
  BY <1>1 DEF Idled, MgrType
<1>7. /\ p \in MgrType /\ p.mIdleConns = f /\ p.mNumIdleConns = m.mNumIdleConns + 1
      /\ p.mPendingQ = m.mPendingQ /\ p.mActiveConns = m.mActiveConns
      /\ p.mNumActiveConns = m.mNumActiveConns
  <2>1. m.mNumIdleConns + 1 \in Nat
    BY <1>2
  <2> QED BY <1>1, <1>5, <1>6, <2>1 DEF MgrType
<1>8. f[h] = Append(m.mIdleConns[h], c) /\ \A g \in Hosts : g # h => f[g] = m.mIdleConns[g]
  BY <1>2
<1>9. Active(p) = Active(m)
  BY <1>7 DEF Active
<1>10. /\ ToSet(p.mIdleConns[h]) = ToSet(m.mIdleConns[h]) \cup {c} /\ Distinct(p.mIdleConns[h])
       /\ \A g \in Hosts : g # h => p.mIdleConns[g] = m.mIdleConns[g]
  BY <1>4, <1>7, <1>8
<1>11. Idle(p) = Idle(m) \cup {c}
  <2>1. ASSUME NEW d \in Idle(p) PROVE d \in Idle(m) \/ d = c
    BY <1>10, <2>1 DEF Idle
  <2>2. ASSUME NEW d \in Idle(m) PROVE d \in Idle(p)
    BY <1>10, <2>2 DEF Idle
  <2>3. c \in Idle(p)
    BY <1>10 DEF Idle
  <2> QED BY <2>1, <2>2, <2>3
<1>12. IsFiniteSet(Idle(m)) /\ c \notin Idle(m)
  BY <1>1, ListTypes
<1>13. Cardinality(Idle(m) \cup {c}) = Cardinality(Idle(m)) + 1
  BY <1>12, FS_AddElement
<1>14. p.mNumActiveConns = Cardinality(Active(p)) /\ p.mNumIdleConns = Cardinality(Idle(p))
  BY <1>7, <1>9, <1>11, <1>13 DEF MgrOK
<1>15. Active(p) \cap Idle(p) = {}
  BY <1>9, <1>11 DEF MgrOK
<1>16. ASSUME NEW g \in Hosts, NEW k \in Hosts, g # k
       PROVE  ToSet(p.mIdleConns[g]) \cap ToSet(p.mIdleConns[k]) = {}
  <2>1. c \notin ToSet(m.mIdleConns[g]) /\ c \notin ToSet(m.mIdleConns[k])
    BY DEF Idle
  <2>2. ToSet(m.mIdleConns[g]) \cap ToSet(m.mIdleConns[k]) = {}
    BY <1>16 DEF MgrOK
  <2> QED BY <1>10, <1>16, <2>1, <2>2
<1>17. \A k \in Hosts : Distinct(p.mIdleConns[k]) /\ Distinct(p.mPendingQ[k])
  BY <1>7, <1>10 DEF MgrOK
<1>18. \A g, k \in Hosts : g # k => p.mActiveConns[g] \cap p.mActiveConns[k] = {}
  BY <1>7 DEF MgrOK
<1>19. MgrOK(p)
  BY <1>7, <1>14, <1>15, <1>16, <1>17, <1>18 DEF MgrOK
<1> QED BY <1>7, <1>9, <1>11, <1>19

\* Another pending queue.
LEMMA PendingOK ==
    ASSUME NEW m, MgrOK(m), NEW h \in Hosts, NEW q \in Seq(Transactions), Distinct(q)
    PROVE  /\ MgrOK([m EXCEPT !.mPendingQ[h] = q])
           /\ [m EXCEPT !.mPendingQ[h] = q].mPendingQ = [m.mPendingQ EXCEPT ![h] = q]
           /\ [m EXCEPT !.mPendingQ[h] = q].mActiveConns = m.mActiveConns
           /\ [m EXCEPT !.mPendingQ[h] = q].mNumActiveConns = m.mNumActiveConns
           /\ [m EXCEPT !.mPendingQ[h] = q].mNumIdleConns = m.mNumIdleConns
           /\ Active([m EXCEPT !.mPendingQ[h] = q]) = Active(m)
           /\ Idle([m EXCEPT !.mPendingQ[h] = q]) = Idle(m)
<1>. PICK p : p = [m EXCEPT !.mPendingQ[h] = q]
  OBVIOUS
<1>. PICK f : f = [m.mPendingQ EXCEPT ![h] = q]
  OBVIOUS
<1>1. m \in MgrType
  BY DEF MgrOK
<1>2. m.mPendingQ \in [Hosts -> Seq(Transactions)]
  BY <1>1, MgrTypes
<1>3. f \in [Hosts -> Seq(Transactions)]
  BY <1>2
<1>4. p = [m EXCEPT !.mPendingQ = f]
  BY <1>1 DEF MgrType
<1>5. /\ p \in MgrType /\ p.mPendingQ = f /\ p.mIdleConns = m.mIdleConns
      /\ p.mActiveConns = m.mActiveConns
      /\ p.mNumActiveConns = m.mNumActiveConns /\ p.mNumIdleConns = m.mNumIdleConns
  BY <1>1, <1>3, <1>4 DEF MgrType
<1>6. Active(p) = Active(m) /\ Idle(p) = Idle(m)
  BY <1>5 DEF Active, Idle
<1>7. \A k \in Hosts : Distinct(p.mPendingQ[k])
  BY <1>2, <1>5 DEF MgrOK
<1>8. \A k \in Hosts : Distinct(p.mIdleConns[k])
  BY <1>5 DEF MgrOK
<1>9. \A g, k \in Hosts : g # k =>
         /\ p.mActiveConns[g] \cap p.mActiveConns[k] = {}
         /\ ToSet(p.mIdleConns[g]) \cap ToSet(p.mIdleConns[k]) = {}
  BY <1>5 DEF MgrOK
<1>10. MgrOK(p)
  BY <1>5, <1>6, <1>7, <1>8, <1>9 DEF MgrOK
<1> QED BY <1>5, <1>6, <1>10

LEMMA NoConnsOK ==
    MgrOK(NoConns) /\ Active(NoConns) = {} /\ \A h \in Hosts : NoConns.mPendingQ[h] = << >>
<1>1. NoConns \in MgrType
  BY DEF NoConns, MgrType
<1>2. /\ \A h \in Hosts : NoConns.mPendingQ[h] = << >> /\ NoConns.mActiveConns[h] = {}
                          /\ NoConns.mIdleConns[h] = << >>
      /\ NoConns.mNumActiveConns = 0 /\ NoConns.mNumIdleConns = 0
  BY DEF NoConns
<1>3. Active(NoConns) = {} /\ Idle(NoConns) = {}
  BY <1>2, EmptyList DEF Active, Idle
<1>4. \A h \in Hosts : Distinct(NoConns.mIdleConns[h]) /\ Distinct(NoConns.mPendingQ[h])
  BY <1>2, EmptyList
<1>5. \A g, h \in Hosts : g # h =>
         /\ NoConns.mActiveConns[g] \cap NoConns.mActiveConns[h] = {}
         /\ ToSet(NoConns.mIdleConns[g]) \cap ToSet(NoConns.mIdleConns[h]) = {}
  BY <1>2, EmptyList
<1> QED BY <1>1, <1>2, <1>3, <1>4, <1>5, FS_EmptySet DEF MgrOK

\* Pruning keeps what can be reused.
LEMMA ReusableSet ==
    ASSUME NEW q \in Seq(Conns), Distinct(q)
    PROVE  /\ Reusable(q) \in Seq(Conns) /\ Distinct(Reusable(q))
           /\ ToSet(Reusable(q)) = ToSet(q) \cap keepAlive
<1> DEFINE live == {i \in DOMAIN q : q[i] \in keepAlive}
           at(k) == CHOOSE i \in live : Cardinality({j \in live : j <= i}) = k
<1>1. DOMAIN q = 1 .. Len(q) /\ Len(q) \in Nat
  OBVIOUS
<1>2. live \in SUBSET Nat /\ IsFiniteSet(live)
  <2>1. live \in SUBSET (1 .. Len(q)) /\ live \in SUBSET Nat
    BY <1>1
  <2>2. IsFiniteSet(1 .. Len(q))
    BY <1>1, FS_Interval
  <2> HIDE DEF live
  <2> QED BY <2>1, <2>2, FS_Subset
<1>3. /\ Cardinality(live) \in Nat
      /\ \A k \in 1 .. Cardinality(live) : \E i \in live : Cardinality({j \in live : j <= i}) = k
      /\ \A i \in live : Cardinality({j \in live : j <= i}) \in 1 .. Cardinality(live)
      /\ \A i, j \in live : Cardinality({x \in live : x <= i}) = Cardinality({x \in live : x <= j}) => i = j
  <2> HIDE DEF live
  <2> QED BY <1>2, Ranks
<1>4. Reusable(q) = [k \in 1 .. Cardinality(live) |-> q[at(k)]]
  BY DEF Reusable
<1>5. ASSUME NEW k \in 1 .. Cardinality(live)
      PROVE  at(k) \in live /\ Cardinality({j \in live : j <= at(k)}) = k
  <2>1. \E i \in live : Cardinality({j \in live : j <= i}) = k
    BY <1>3
  <2> HIDE DEF live
  <2> QED BY <2>1
<1>6. ASSUME NEW i \in live
      PROVE  \E k \in 1 .. Cardinality(live) : at(k) = i
  <2>1. PICK k \in 1 .. Cardinality(live) : k = Cardinality({j \in live : j <= i})
    BY <1>3
  <2>2. at(k) \in live /\ Cardinality({j \in live : j <= at(k)}) = k
    BY <1>5
  <2> HIDE DEF live, at
  <2>3. at(k) = i
    BY <1>3, <2>1, <2>2
  <2> QED BY <2>3
<1>7. \A i \in live : i \in DOMAIN q /\ q[i] \in keepAlive /\ q[i] \in Conns
  OBVIOUS
<1>8. \A i \in DOMAIN q : q[i] \in keepAlive => i \in live
  OBVIOUS
<1> HIDE DEF live, at
<1>. PICK r : r = Reusable(q)
  OBVIOUS
<1>9. DOMAIN r = 1 .. Cardinality(live) /\ \A k \in 1 .. Cardinality(live) : r[k] = q[at(k)]
  BY <1>4
<1>10. r \in Seq(Conns)
  <2>1. r \in [1 .. Cardinality(live) -> Conns]
    BY <1>4, <1>5, <1>7
  <2> QED BY <1>3, <2>1
<1>11. Distinct(r)
  <2> SUFFICES ASSUME NEW k \in 1 .. Cardinality(live), NEW l \in 1 .. Cardinality(live), r[k] = r[l]
               PROVE  k = l
    BY <1>9 DEF Distinct
  <2>1. at(k) = at(l)
    BY <1>5, <1>7, <1>9 DEF Distinct
  <2> QED BY <1>5, <2>1
<1>12. ASSUME NEW c \in ToSet(r) PROVE c \in ToSet(q) /\ c \in keepAlive
  <2>1. PICK k \in 1 .. Cardinality(live) : c = q[at(k)]
    BY <1>9 DEF ToSet
  <2> QED BY <1>5, <1>7, <2>1 DEF ToSet
<1>13. ASSUME NEW c \in ToSet(q), c \in keepAlive PROVE c \in ToSet(r)
  <2>1. PICK i \in DOMAIN q : c = q[i]
    BY DEF ToSet
  <2>2. PICK k \in 1 .. Cardinality(live) : at(k) = i
    BY <1>6, <1>8, <1>13, <2>1
  <2> QED BY <1>9, <2>1, <2>2 DEF ToSet
<1> QED BY <1>10, <1>11, <1>12, <1>13

Pruned(m) == [m EXCEPT !.mIdleConns = [h \in Hosts |-> Reusable(m.mIdleConns[h])],
                       !.mNumIdleConns = @ - Cardinality(Idle(m) \ keepAlive)]

LEMMA PrunedOK ==
    ASSUME NEW m, MgrOK(m)
    PROVE  /\ MgrOK(Pruned(m))
           /\ Pruned(m).mPendingQ = m.mPendingQ
           /\ Pruned(m).mActiveConns = m.mActiveConns
           /\ Pruned(m).mNumActiveConns = m.mNumActiveConns
           /\ Pruned(m).mNumIdleConns <= m.mNumIdleConns
           /\ Active(Pruned(m)) = Active(m)
<1>. PICK p : p = Pruned(m)
  OBVIOUS
<1>. PICK f : f = [h \in Hosts |-> Reusable(m.mIdleConns[h])]
  OBVIOUS
<1>1. m \in MgrType
  BY DEF MgrOK
<1>2. m.mIdleConns \in [Hosts -> Seq(Conns)] /\ m.mNumIdleConns \in Nat
  BY <1>1, MgrTypes
<1>3. ASSUME NEW h \in Hosts
      PROVE  /\ f[h] = Reusable(m.mIdleConns[h]) /\ f[h] \in Seq(Conns) /\ Distinct(f[h])
             /\ ToSet(f[h]) = ToSet(m.mIdleConns[h]) \cap keepAlive
  <2>1. m.mIdleConns[h] \in Seq(Conns) /\ Distinct(m.mIdleConns[h])
    BY <1>2 DEF MgrOK
  <2> QED BY <2>1, ReusableSet
<1>4. f \in [Hosts -> Seq(Conns)]
  BY <1>3
<1>5. PICK n : n = Cardinality(Idle(m) \ keepAlive)
  OBVIOUS
<1>6. IsFiniteSet(Idle(m)) /\ Cardinality(Idle(m)) \in Nat
  BY <1>1, ListTypes
<1>7. n \in Nat /\ n <= Cardinality(Idle(m))
  <2>1. Idle(m) \ keepAlive \in SUBSET Idle(m)
    OBVIOUS
  <2>2. IsFiniteSet(Idle(m) \ keepAlive)
    BY <1>6, <2>1, FS_Subset
  <2> QED BY <1>5, <1>6, <2>1, <2>2, FS_Subset, FS_CardinalityType
<1>8. m.mNumIdleConns - n \in Nat /\ m.mNumIdleConns - n <= m.mNumIdleConns
  BY <1>2, <1>7 DEF MgrOK
<1>9. p = [m EXCEPT !.mIdleConns = f, !.mNumIdleConns = m.mNumIdleConns - n]
  BY <1>1, <1>5 DEF Pruned, MgrType
<1>10. /\ p \in MgrType /\ p.mIdleConns = f /\ p.mNumIdleConns = m.mNumIdleConns - n
       /\ p.mPendingQ = m.mPendingQ /\ p.mActiveConns = m.mActiveConns
       /\ p.mNumActiveConns = m.mNumActiveConns
  BY <1>1, <1>4, <1>8, <1>9 DEF MgrType
<1>11. Idle(p) = Idle(m) \ (Idle(m) \ keepAlive)
  <2>1. ASSUME NEW c \in Idle(p) PROVE c \in Idle(m) /\ c \in keepAlive
    BY <1>3, <1>10, <2>1 DEF Idle
  <2>2. ASSUME NEW c \in Idle(m), c \in keepAlive PROVE c \in Idle(p)
    BY <1>3, <1>10, <2>2 DEF Idle
  <2> QED BY <2>1, <2>2
<1>12. Cardinality(Idle(p)) = Cardinality(Idle(m)) - n
  <2>1. /\ Cardinality(Idle(m) \ (Idle(m) \ keepAlive)) =
             Cardinality(Idle(m)) - Cardinality(Idle(m) \cap (Idle(m) \ keepAlive))
    BY <1>6, FS_Difference
  <2>2. Idle(m) \cap (Idle(m) \ keepAlive) = Idle(m) \ keepAlive
    OBVIOUS
  <2> QED BY <1>5, <1>11, <2>1, <2>2
<1>13. p.mNumIdleConns = Cardinality(Idle(p))
  BY <1>10, <1>12 DEF MgrOK
<1>14. \A h \in Hosts : Distinct(p.mIdleConns[h]) /\ ToSet(p.mIdleConns[h]) \subseteq ToSet(m.mIdleConns[h])
  BY <1>3, <1>10
<1>15. MgrOK(p) /\ Active(p) = Active(m)
  BY <1>10, <1>13, <1>14, IdleShrinks
<1> QED BY <1>8, <1>10, <1>15

-----------------------------------------------------------------------------
(* The oldest idle connections make room, and GetConnection returns one     *)
(* that is free: the totals are as the limit demands.                       *)
Sum(m) == m.mNumActiveConns + m.mNumIdleConns

\* p is m with fewer idle connections.
Fewer(m, p) ==
    /\ MgrOK(p) /\ p.mPendingQ = m.mPendingQ /\ p.mActiveConns = m.mActiveConns
    /\ p.mNumActiveConns = m.mNumActiveConns /\ p.mNumIdleConns <= m.mNumIdleConns
    /\ Active(p) = Active(m) /\ Idle(p) \subseteq Idle(m)

LEMMA FewerDropped ==
    ASSUME NEW m, MgrOK(m), NEW h \in Hosts, NEW n \in 0 .. Len(m.mIdleConns[h])
    PROVE  /\ Fewer(m, DropOldest(m, h, n))
           /\ DropOldest(m, h, n).mNumIdleConns = m.mNumIdleConns - n
<1>1. m.mNumIdleConns \in Nat
  BY MgrTypes DEF MgrOK
<1>. PICK p : p = DropOldest(m, h, n)
  OBVIOUS
<1>2. p.mNumIdleConns = m.mNumIdleConns - n
  BY DropOK
<1>3. p.mNumIdleConns <= m.mNumIdleConns
  BY <1>1, <1>2
<1>4. /\ MgrOK(p) /\ p.mPendingQ = m.mPendingQ /\ p.mActiveConns = m.mActiveConns
      /\ p.mNumActiveConns = m.mNumActiveConns
      /\ Active(p) = Active(m) /\ Idle(p) \subseteq Idle(m)
  BY DropOK
<1> QED BY <1>2, <1>3, <1>4 DEF Fewer

LEMMA PurgedOK ==
    ASSUME NEW m, MgrOK(m), max.conns \in Nat, m.mNumActiveConns < max.conns,
           NEW p \in Purged(m)
    PROVE  /\ Fewer(m, p)
           /\ (Sum(p) + 1 <= max.conns \/ Sum(p) + 1 <= Sum(m))
<1>1. m \in MgrType /\ m.mNumActiveConns \in Nat /\ m.mNumIdleConns \in Nat
  BY MgrTypes DEF MgrOK
<1>2. Fewer(m, m)
  BY <1>1 DEF Fewer
<1>3. CASE Room(m)
  <2>1. p = m
    BY <1>3 DEF Purged
  <2>2. Sum(m) + 1 <= max.conns
    BY <1>1, <1>3 DEF Room, Sum
  <2> QED BY <1>2, <2>1, <2>2
<1>4. CASE ~ Room(m) /\ Idle(m) = {}
  <2>1. p = m
    BY <1>4 DEF Purged
  <2>2. m.mNumIdleConns = 0
    BY <1>4, FS_EmptySet DEF MgrOK
  <2>3. Sum(m) + 1 <= max.conns
    BY <1>1, <2>2 DEF Sum
  <2> QED BY <1>2, <2>1, <2>3
<1>5. CASE ~ Room(m) /\ Idle(m) # {}
  <2>1. PICK h \in Hosts : m.mIdleConns[h] # << >> /\ p = DropOldest(m, h, 1)
    BY <1>5 DEF Purged
  <2>2. m.mIdleConns[h] \in Seq(Conns)
    BY <1>1, MgrTypes
  <2>3. 1 \in 0 .. Len(m.mIdleConns[h])
    BY <2>1, <2>2
  <2>4. Fewer(m, p) /\ p.mNumIdleConns = m.mNumIdleConns - 1
    BY <2>1, <2>3, FewerDropped
  <2>5. p.mNumActiveConns = m.mNumActiveConns
    BY <2>4 DEF Fewer
  <2>6. Sum(p) + 1 <= Sum(m)
    BY <1>1, <2>4, <2>5 DEF Sum
  <2> QED BY <2>4, <2>6
<1> QED BY <1>3, <1>4, <1>5

LEMMA FewerTwice ==
    ASSUME NEW m, NEW p, NEW x, m \in MgrType, Fewer(m, p), Fewer(p, x)
    PROVE  Fewer(m, x)
<1>1. p \in MgrType /\ x \in MgrType
  BY DEF Fewer, MgrOK
<1>2. m.mNumIdleConns \in Nat /\ p.mNumIdleConns \in Nat /\ x.mNumIdleConns \in Nat
  BY <1>1, MgrTypes
<1>3. x.mNumIdleConns <= m.mNumIdleConns
  BY <1>2 DEF Fewer
<1> QED BY <1>3 DEF Fewer

\* What GetConnection of m returns: a connection on no list of p.
Gotten(m, p, c) ==
    /\ Fewer(m, p) /\ c \in Conns /\ c \notin Active(p) \cup Idle(p)
    /\ (Sum(p) + 1 <= max.conns \/ Sum(p) + 1 <= Sum(m))

LEMMA GetOK ==
    ASSUME NEW m, MgrOK(m), max.conns \in Nat, m.mNumActiveConns < max.conns,
           NEW h \in Hosts, NEW keep \in BOOLEAN, NEW r \in GetConnection(m, h, keep)
    PROVE  Gotten(m, r.mgr, r.conn)
<1>1. m \in MgrType /\ m.mNumActiveConns \in Nat /\ m.mNumIdleConns \in Nat
  BY MgrTypes DEF MgrOK
<1>. PICK q : q = m.mIdleConns[h]
  OBVIOUS
<1>2. q \in Seq(Conns) /\ DOMAIN q = 1 .. Len(q) /\ Len(q) \in Nat
  BY <1>1, MgrTypes
<1> DEFINE good == {i \in DOMAIN q : keep /\ q[i] \in keepAlive}
           stale == DropOldest(m, h, IF keep THEN Len(q) ELSE 0)
<1>3. CASE good # {}
  <2>1. r = [mgr |-> DropOldest(m, h, Min(good)), conn |-> q[Min(good)]]
    BY <1>3 DEF GetConnection
  <2>2. good \in SUBSET Nat
    BY <1>2
  <2>3. \E i \in good : \A j \in good : i <= j
    <3> HIDE DEF good
    <3> QED BY <1>3, <2>2, LeastNatural
  <2>4. Min(good) \in good
    <3> HIDE DEF good
    <3> QED BY <2>3 DEF Min
  <2>. PICK n : n = Min(good)
    OBVIOUS
  <2>5. n \in 1 .. Len(q) /\ n \in 0 .. Len(q) /\ n \in Nat /\ n \in 1 .. n
    BY <1>2, <2>4
  <2> HIDE DEF good, stale
  <2>. PICK p : p = DropOldest(m, h, n)
    OBVIOUS
  <2>6. Fewer(m, p) /\ p.mNumIdleConns = m.mNumIdleConns - n
    BY <2>5, FewerDropped
  <2>7. \A i \in 1 .. n : q[i] \in Idle(m) /\ q[i] \notin Idle(p)
    BY <2>5, DropOK
  <2>8. q[n] \in Idle(m) /\ q[n] \notin Idle(p)
    BY <2>5, <2>7
  <2>9. q[n] \in Conns /\ q[n] \notin Active(p)
    <3>1. Active(p) = Active(m) /\ Active(m) \cap Idle(m) = {}
      BY <2>6 DEF Fewer, MgrOK
    <3> QED BY <1>2, <2>5, <2>8, <3>1
  <2>10. p.mNumActiveConns = m.mNumActiveConns
    BY <2>6 DEF Fewer
  <2>11. Sum(p) + 1 <= Sum(m)
    BY <1>1, <2>5, <2>6, <2>10 DEF Sum
  <2>12. r.mgr = p /\ r.conn = q[n]
    BY <2>1
  <2> QED BY <2>6, <2>8, <2>9, <2>11, <2>12 DEF Gotten
<1>4. CASE good = {}
  <2>1. PICK p \in Purged(stale) :
          Destroyed(p) # {} /\ r = [mgr |-> p, conn |-> CHOOSE c \in Destroyed(p) : TRUE]
    BY <1>4 DEF GetConnection
  <2>. PICK n : n = IF keep THEN Len(q) ELSE 0
    OBVIOUS
  <2>2. n \in 0 .. Len(q)
    BY <1>2
  <2>. PICK s : s = DropOldest(m, h, n)
    OBVIOUS
  <2>3. s = stale
    OBVIOUS
  <2> HIDE DEF stale, good
  <2>4. Fewer(m, s) /\ s.mNumIdleConns = m.mNumIdleConns - n
    BY <2>2, FewerDropped
  <2>5. MgrOK(s) /\ s.mNumActiveConns = m.mNumActiveConns /\ p \in Purged(s)
    BY <2>1, <2>3, <2>4 DEF Fewer
  <2>6. Fewer(s, p) /\ (Sum(p) + 1 <= max.conns \/ Sum(p) + 1 <= Sum(s))
    BY <2>5, PurgedOK
  <2>7. Fewer(m, p)
    BY <1>1, <2>4, <2>6, FewerTwice
  <2>8. p.mNumIdleConns \in Nat /\ p.mNumActiveConns = m.mNumActiveConns
    BY <2>7, MgrTypes DEF Fewer, MgrOK
  <2>9. Sum(p) + 1 <= max.conns \/ Sum(p) + 1 <= Sum(m)
    <3>1. Sum(s) <= Sum(m)
      BY <1>1, <2>2, <2>4, <2>5, <1>2 DEF Sum
    <3>2. Sum(s) \in Int /\ Sum(m) \in Int /\ Sum(p) \in Int
      BY <1>1, <1>2, <2>2, <2>4, <2>5, <2>8 DEF Sum
    <3> QED BY <2>6, <3>1, <3>2
  <2>10. r.mgr = p /\ r.conn \in Destroyed(p)
    BY <2>1
  <2>11. r.conn \in Conns /\ r.conn \notin Active(p) \cup Idle(p)
    BY <2>10 DEF Destroyed
  <2> QED BY <2>7, <2>9, <2>10, <2>11 DEF Gotten
<1> QED BY <1>3, <1>4

-----------------------------------------------------------------------------
(* The books of the manager m, the transactions T and the connections C     *)
(* while the transactions N and the connections R are in messages, and the  *)
(* main thread is at w.                                                     *)
TransType ==
    [state : {"unused", "accepted", "ok", "error"}, host : Hosts \cup {""},
     caps : SUBSET {"keep-alive", "sticky"}, priority : Priorities \cup {0},
     conn : Conns \cup {None}, restarts : 0 .. MaxRestarts]

TypedBooks(m, N, R, T, C) ==
    /\ MgrOK(m) /\ N \subseteq Transactions /\ R \subseteq Conns
    /\ T \in [Transactions -> TransType] /\ C \in [Conns -> Transactions \cup {None}]

\* A handle is to a connection in use, and a connection's transaction holds
\* the handle to it.
Handles(m, T, C, w) ==
    /\ \A t, u \in Transactions : T[t].conn # None /\ T[t].conn = T[u].conn => t = u
    /\ \A c \in Conns : C[c] # None => T[C[c]].conn = c /\ T[C[c]].state = "accepted"
    /\ \A t \in Transactions : T[t].conn # None =>
         /\ T[t].state \in {"accepted", "ok"} /\ T[t].host \in Hosts
         /\ w # "down" => T[t].conn \in m.mActiveConns[T[t].host]

\* What messages are about.
Announced(m, N, R, T, C) ==
    /\ \A c \in R : c \in Active(m) /\ \A t \in Transactions : T[t].conn # c
    /\ \A t \in N : /\ T[t].state \in {"accepted", "error"}
                    /\ \A c \in Conns : C[c] # t
                    /\ \A h \in Hosts : t \notin ToSet(m.mPendingQ[h])

\* Where an accepted transaction is.
Placed(m, N, T, C) ==
    /\ \A h \in Hosts : \A t \in ToSet(m.mPendingQ[h]) :
         T[t].host = h /\ T[t].state = "accepted" /\ T[t].conn = None
    /\ \A t \in Transactions : T[t].state = "accepted" =>
         /\ T[t].host \in Hosts
         /\ \/ t \in N \/ t \in ToSet(m.mPendingQ[T[t].host])
            \/ T[t].conn # None /\ C[T[t].conn] = t

Accounted(m, N, R, T, C, w) ==
    w = "run" => \A c \in Active(m) :
      \/ C[c] # None \/ c \in R
      \/ \E t \in Transactions : T[t].conn = c /\ (T[t].state = "ok" \/ t \in N)

SortedQ(q, T) ==
    \A i, j \in DOMAIN q : i < j => T[q[i]].priority <= T[q[j]].priority
Sorted(m, T) == \A h \in Hosts : SortedQ(m.mPendingQ[h], T)

Books(m, N, R, T, C, w) ==
    /\ TypedBooks(m, N, R, T, C) /\ Handles(m, T, C, w) /\ Announced(m, N, R, T, C)
    /\ Placed(m, N, T, C) /\ Accounted(m, N, R, T, C, w) /\ Sorted(m, T)

LEMMA NoneIsNothing == None \notin Transactions /\ None \notin Conns
BY HttpAssumption DEF None

\* A connection that is not active is nobody's.
LEMMA Nobodys ==
    ASSUME NEW m, NEW N, NEW R, NEW T, NEW C, NEW w, Books(m, N, R, T, C, w), w # "down",
           NEW c \in Conns, c \notin Active(m)
    PROVE  C[c] = None /\ c \notin R /\ \A t \in Transactions : T[t].conn # c
<1>1. ASSUME NEW t \in Transactions PROVE T[t].conn # c
  <2>1. ASSUME T[t].conn = c PROVE FALSE
    <3>1. T[t].host \in Hosts /\ c \in m.mActiveConns[T[t].host]
      BY <2>1, NoneIsNothing DEF Books, Handles
    <3> QED BY <3>1 DEF Active
  <2> QED BY <2>1
<1>2. C[c] \in Transactions \cup {None}
  BY DEF Books, TypedBooks
<1>3. C[c] = None
  BY <1>1, <1>2 DEF Books, Handles
<1> QED BY <1>1, <1>3 DEF Books, Announced

\* Nor is that of a transaction whose message is on its way carrying.
LEMMA NotCarrying ==
    ASSUME NEW m, NEW N, NEW R, NEW T, NEW C, NEW w, Books(m, N, R, T, C, w),
           NEW t \in Transactions, NEW c \in Conns, T[t].conn = c,
           t \in N \/ T[t].state # "accepted"
    PROVE  C[c] = None
<1> SUFFICES ASSUME C[c] # None PROVE FALSE
  OBVIOUS
<1>1. C[c] \in Transactions
  BY DEF Books, TypedBooks
<1>2. T[C[c]].conn = c /\ T[C[c]].state = "accepted"
  BY DEF Books, Handles
<1>3. C[c] = t
  BY <1>1, <1>2, NoneIsNothing DEF Books, Handles
<1> QED BY <1>2, <1>3 DEF Books, Announced

LEMMA SortedSame ==
    ASSUME NEW q \in Seq(Transactions), NEW T, NEW T2, SortedQ(q, T),
           \A u \in ToSet(q) : T2[u].priority = T[u].priority
    PROVE  SortedQ(q, T2)
BY DEF SortedQ, ToSet

LEMMA SortedRemoved ==
    ASSUME NEW q \in Seq(Transactions), NEW T, SortedQ(q, T), NEW i \in 1 .. Len(q)
    PROVE  SortedQ(RemoveAt(q, i), T)
<1>. PICK r : r = RemoveAt(q, i)
  OBVIOUS
<1>1. /\ r \in Seq(Transactions) /\ Len(r) = Len(q) - 1 /\ Len(q) \in Nat
      /\ \A j \in 1 .. Len(q) - 1 : r[j] = IF j < i THEN q[j] ELSE q[j + 1]
  <2>1. /\ RemoveAt(q, i) \in Seq(Transactions) /\ Len(RemoveAt(q, i)) = Len(q) - 1
        /\ \A j \in 1 .. Len(q) - 1 : RemoveAt(q, i)[j] = IF j < i THEN q[j] ELSE q[j + 1]
    BY RemoveElems
  <2> QED BY <2>1
<1>2. DOMAIN r = 1 .. Len(q) - 1 /\ DOMAIN q = 1 .. Len(q)
  BY <1>1
<1>3. ASSUME NEW j \in 1 .. Len(q) - 1, NEW k \in 1 .. Len(q) - 1, j < k
      PROVE  T[r[j]].priority <= T[r[k]].priority
  <2>1. PICK a \in 1 .. Len(q) : r[j] = q[a] /\ a = IF j < i THEN j ELSE j + 1
    BY <1>1
  <2>2. PICK b \in 1 .. Len(q) : r[k] = q[b] /\ b = IF k < i THEN k ELSE k + 1
    BY <1>1
  <2>3. a < b
    BY <1>3, <2>1, <2>2
  <2> QED BY <1>2, <2>1, <2>2, <2>3 DEF SortedQ
<1> QED BY <1>2, <1>3 DEF SortedQ

\* The place InsertTransactionSorted finds.
LEMMA SortedInserted ==
    ASSUME NEW q \in Seq(Transactions), NEW t \in Transactions, SortedQ(q, trans'),
           \A u \in Transactions : trans'[u].priority \in Int
    PROVE  \E k \in 1 .. Len(q) + 1 :
             InsertTransactionSorted(q, t) = InsertAt(q, k, t) /\ SortedQ(InsertAt(q, k, t), trans')
<1> DEFINE behind == {i \in DOMAIN q : trans'[t].priority >= trans'[q[i]].priority}
<1>1. DOMAIN q = 1 .. Len(q) /\ Len(q) \in Nat /\ \A i \in 1 .. Len(q) : q[i] \in Transactions
  OBVIOUS
<1>0. PICK k : k = IF behind = {} THEN 1 ELSE Max(behind) + 1
  OBVIOUS
<1>2. /\ k \in 1 .. Len(q) + 1
      /\ \A i \in 1 .. Len(q) : i >= k => ~ (trans'[t].priority >= trans'[q[i]].priority)
      /\ k > 1 => trans'[t].priority >= trans'[q[k - 1]].priority
  <2>1. CASE behind = {}
    <3>1. k = 1
      BY <1>0, <2>1
    <3>2. \A i \in 1 .. Len(q) : ~ (trans'[t].priority >= trans'[q[i]].priority)
      BY <1>1, <2>1
    <3>3. 1 \in 1 .. Len(q) + 1
      BY <1>1
    <3> QED BY <3>1, <3>2, <3>3
  <2>2. CASE behind # {}
    <3>1. {Len(q) - i : i \in behind} \in SUBSET Nat /\ {Len(q) - i : i \in behind} # {}
      BY <1>1, <2>2
    <3>2. PICK d \in {Len(q) - i : i \in behind} : \A e \in {Len(q) - i : i \in behind} : d <= e
      BY <3>1, LeastNatural
    <3>3. PICK a \in behind : d = Len(q) - a
      BY <3>2
    <3>4. \A i \in behind : Len(q) - a <= Len(q) - i
      BY <3>2, <3>3
    <3>5. \A i \in behind : a >= i
      BY <1>1, <3>4
    <3> HIDE DEF behind
    <3>6. Max(behind) \in behind /\ \A i \in behind : Max(behind) >= i
      BY <3>5 DEF Max
    <3> USE DEF behind
    <3>7. PICK b \in 1 .. Len(q) : b = Max(behind)
      BY <1>1, <3>6
    <3>8. k = b + 1 /\ k - 1 = b /\ \A i \in behind : b >= i
      <4>1. k = Max(behind) + 1
        BY <1>0, <2>2
      <4>2. k = b + 1 /\ k - 1 = b
        BY <3>7, <4>1
      <4>3. \A i \in behind : b >= i
        BY <3>6, <3>7
      <4> QED BY <4>2, <4>3
    <3>9. trans'[t].priority >= trans'[q[b]].priority
      BY <3>6, <3>7
    <3>10. \A i \in 1 .. Len(q) : i \notin behind => ~ (trans'[t].priority >= trans'[q[i]].priority)
      BY <1>1
    <3> HIDE DEF behind
    <3>11. ASSUME NEW i \in 1 .. Len(q), i >= k PROVE i \notin behind
      <4>1. ~ (b >= i)
        BY <3>8, <3>11
      <4> QED BY <3>8, <4>1
    <3>12. k \in 1 .. Len(q) + 1 /\ k > 1
      BY <1>1, <3>8
    <3> QED BY <3>8, <3>9, <3>10, <3>11, <3>12
  <2> QED BY <2>1, <2>2
<1>3. InsertTransactionSorted(q, t) = InsertAt(q, k, t)
  BY <1>0 DEF InsertTransactionSorted
<1> HIDE DEF behind
<1>. PICK r : r = InsertAt(q, k, t)
  OBVIOUS
<1>4. /\ r \in Seq(Transactions) /\ Len(r) = Len(q) + 1 /\ r[k] = t
      /\ \A j \in 1 .. k - 1 : r[j] = q[j]
      /\ \A j \in k .. Len(q) : r[j + 1] = q[j]
  <2>1. k \in 1 .. Len(q) + 1
    BY <1>2
  <2> QED BY <2>1, InsertElems
<1>5. ASSUME NEW j \in 1 .. Len(r), j # k
      PROVE  \E a \in 1 .. Len(q) : r[j] = q[a] /\ j = IF a < k THEN a ELSE a + 1
  <2>1. CASE j < k
    BY <1>2, <1>4, <2>1
  <2>2. CASE j > k
    <3>1. j - 1 \in k .. Len(q) /\ (j - 1) + 1 = j
      BY <1>2, <1>4, <2>2
    <3>2. r[(j - 1) + 1] = q[j - 1]
      BY <1>4, <3>1
    <3> QED BY <1>2, <3>1, <3>2
  <2> QED BY <1>2, <1>4, <1>5, <2>1, <2>2
<1>6. DOMAIN r = 1 .. Len(r)
  BY <1>4
<1>7. ASSUME NEW i \in 1 .. Len(q), i < k PROVE trans'[q[i]].priority <= trans'[t].priority
  <2>1. k - 1 \in 1 .. Len(q) /\ i <= k - 1 /\ trans'[t].priority >= trans'[q[k - 1]].priority
    BY <1>2, <1>7
  <2>2. trans'[q[i]].priority <= trans'[q[k - 1]].priority
    <3>1. CASE i = k - 1
      BY <1>1, <3>1
    <3>2. CASE i < k - 1
      BY <1>1, <2>1, <3>2 DEF SortedQ
    <3> QED BY <1>2, <2>1, <3>1, <3>2
  <2>3. q[i] \in Transactions /\ q[k - 1] \in Transactions
    BY <1>1, <2>1
  <2>. PICK x \in Int, y \in Int, z \in Int :
         x = trans'[q[i]].priority /\ y = trans'[q[k - 1]].priority /\ z = trans'[t].priority
    BY <2>3
  <2>4. x <= y /\ z >= y
    BY <2>1, <2>2
  <2>5. x <= z
    BY <2>4
  <2> QED BY <2>5
<1>8. ASSUME NEW i \in 1 .. Len(q), i >= k PROVE trans'[t].priority <= trans'[q[i]].priority
  <2>1. q[i] \in Transactions /\ ~ (trans'[t].priority >= trans'[q[i]].priority)
    BY <1>1, <1>2, <1>8
  <2>. PICK x \in Int, z \in Int : x = trans'[q[i]].priority /\ z = trans'[t].priority
    BY <2>1
  <2>2. z <= x
    BY <2>1
  <2> QED BY <2>2
<1>9. ASSUME NEW i \in 1 .. Len(r), NEW j \in 1 .. Len(r), i < j
      PROVE  trans'[r[i]].priority <= trans'[r[j]].priority
  <2>1. CASE i = k
    <3>1. PICK b \in 1 .. Len(q) : r[j] = q[b] /\ j = IF b < k THEN b ELSE b + 1
      BY <1>5, <1>9, <2>1
    <3>2. b >= k
      BY <1>2, <1>9, <2>1, <3>1
    <3> QED BY <1>4, <1>8, <2>1, <3>1, <3>2
  <2>2. CASE j = k
    <3>1. PICK a \in 1 .. Len(q) : r[i] = q[a] /\ i = IF a < k THEN a ELSE a + 1
      BY <1>5, <1>9, <2>2
    <3>2. a < k
      BY <1>2, <1>9, <2>2, <3>1
    <3> QED BY <1>4, <1>7, <2>2, <3>1, <3>2
  <2>3. CASE i # k /\ j # k
    <3>1. PICK a \in 1 .. Len(q) : r[i] = q[a] /\ i = IF a < k THEN a ELSE a + 1
      BY <1>5, <2>3
    <3>2. PICK b \in 1 .. Len(q) : r[j] = q[b] /\ j = IF b < k THEN b ELSE b + 1
      BY <1>5, <2>3
    <3>3. a < b
      BY <1>2, <1>9, <3>1, <3>2
    <3> QED BY <1>1, <3>1, <3>2, <3>3 DEF SortedQ
  <2> QED BY <2>1, <2>2, <2>3
<1> QED BY <1>2, <1>3, <1>6, <1>9 DEF SortedQ

-----------------------------------------------------------------------------
(* What the steps do to the books.                                          *)

\* Only t changes, and keeps its host.
Changed(T, T2, t) ==
    /\ T2 \in [Transactions -> TransType] /\ T2[t].host = T[t].host
    /\ \A u \in Transactions : u # t => T2[u] = T[u]

\* Only c changes hands.
Carried(C, C2, c, v) ==
    /\ C2 \in [Conns -> Transactions \cup {None}] /\ C2[c] = v
    /\ \A d \in Conns : d # c => C2[d] = C[d]

\* The pending queues hold the same but for t, and stay sorted.
Requeued(m, p, t, T2) ==
    /\ MgrOK(p) /\ p.mActiveConns = m.mActiveConns /\ Sorted(p, T2)
    /\ \A h \in Hosts : ToSet(p.mPendingQ[h]) = ToSet(m.mPendingQ[h]) \ {t}

\* Other idle connections, another order or other priorities, a message
\* about a transaction that was closed.
LEMMA SameBooks ==
    ASSUME NEW m, NEW N, NEW R, NEW T, NEW C, NEW w, Books(m, N, R, T, C, w),
           NEW p, MgrOK(p), p.mActiveConns = m.mActiveConns,
           \A h \in Hosts : ToSet(p.mPendingQ[h]) = ToSet(m.mPendingQ[h]),
           NEW T2 \in [Transactions -> TransType], Sorted(p, T2),
           \A u \in Transactions :
             T2[u].state = T[u].state /\ T2[u].host = T[u].host /\ T2[u].conn = T[u].conn,
           NEW N2 \in SUBSET N, \A u \in N \ N2 : T[u].state = "error"
    PROVE  Books(p, N2, R, T2, C, w)
<1>1. Active(p) = Active(m)
  BY DEF Active
<1>2. TypedBooks(p, N2, R, T2, C)
  BY DEF Books, TypedBooks
<1>3. Handles(p, T2, C, w)
  <2>1. ASSUME NEW t \in Transactions, T2[t].conn # None
        PROVE  /\ T2[t].state \in {"accepted", "ok"} /\ T2[t].host \in Hosts
               /\ w # "down" => T2[t].conn \in p.mActiveConns[T2[t].host]
    BY <2>1 DEF Books, Handles
  <2>2. \A t, u \in Transactions : T2[t].conn # None /\ T2[t].conn = T2[u].conn => t = u
    BY DEF Books, Handles
  <2>3. ASSUME NEW c \in Conns, C[c] # None
        PROVE  T2[C[c]].conn = c /\ T2[C[c]].state = "accepted"
    <3>1. C[c] \in Transactions
      BY <2>3 DEF Books, TypedBooks
    <3> QED BY <2>3, <3>1 DEF Books, Handles
  <2> QED BY <2>1, <2>2, <2>3 DEF Handles
<1>4. Announced(p, N2, R, T2, C)
  <2>1. \A c \in R : c \in Active(p) /\ \A t \in Transactions : T2[t].conn # c
    BY <1>1 DEF Books, Announced
  <2>2. ASSUME NEW t \in N2
        PROVE  /\ T2[t].state \in {"accepted", "error"} /\ \A c \in Conns : C[c] # t
               /\ \A h \in Hosts : t \notin ToSet(p.mPendingQ[h])
    <3>1. t \in N /\ t \in Transactions
      BY DEF Books, TypedBooks
    <3> QED BY <3>1 DEF Books, Announced
  <2> QED BY <2>1, <2>2 DEF Announced
<1>5. Placed(p, N2, T2, C)
  <2>1. ASSUME NEW h \in Hosts, NEW t \in ToSet(p.mPendingQ[h])
        PROVE  T2[t].host = h /\ T2[t].state = "accepted" /\ T2[t].conn = None
    <3>1. p.mPendingQ[h] \in Seq(Transactions)
      BY MgrTypes DEF MgrOK
    <3>2. t \in Transactions
      BY <3>1, ToSetContains
    <3>3. t \in ToSet(m.mPendingQ[h])
      BY <2>1
    <3> QED BY <3>2, <3>3 DEF Books, Placed
  <2>2. ASSUME NEW t \in Transactions, T2[t].state = "accepted"
        PROVE  /\ T2[t].host \in Hosts
               /\ \/ t \in N2 \/ t \in ToSet(p.mPendingQ[T2[t].host])
                  \/ T2[t].conn # None /\ C[T2[t].conn] = t
    <3>1. /\ T[t].host \in Hosts
          /\ \/ t \in N \/ t \in ToSet(m.mPendingQ[T[t].host])
             \/ T[t].conn # None /\ C[T[t].conn] = t
      BY <2>2 DEF Books, Placed
    <3>2. t \in N => t \in N2
      BY <2>2
    <3> QED BY <3>1, <3>2
  <2> QED BY <2>1, <2>2 DEF Placed
<1>6. Accounted(p, N2, R, T2, C, w)
  <2> SUFFICES ASSUME w = "run", NEW c \in Active(p), C[c] = None, c \notin R
               PROVE  \E t \in Transactions : T2[t].conn = c /\ (T2[t].state = "ok" \/ t \in N2)
    BY DEF Accounted
  <2>1. PICK t \in Transactions : T[t].conn = c /\ (T[t].state = "ok" \/ t \in N)
    BY <1>1 DEF Books, Accounted
  <2>2. c \in Conns
    BY ListTypes DEF MgrOK
  <2>3. T[t].state # "error"
    BY <2>1, <2>2, NoneIsNothing DEF Books, Handles
  <2> QED BY <2>1, <2>3
<1> QED BY <1>2, <1>3, <1>4, <1>5, <1>6 DEF Books

\* A transaction is made and announced.
LEMMA AcceptBooks ==
    ASSUME NEW m, NEW N, NEW R, NEW T, NEW C, NEW w, Books(m, N, R, T, C, w),
           NEW t \in Transactions, T[t].state = "unused",
           NEW T2 \in [Transactions -> TransType], \A u \in Transactions : u # t => T2[u] = T[u],
           T2[t].state = "accepted", T2[t].host \in Hosts, T2[t].conn = None
    PROVE  Books(m, N \cup {t}, R, T2, C, w)
<1>1. TypedBooks(m, N \cup {t}, R, T2, C)
  BY DEF Books, TypedBooks
<1>2. \A c \in Conns : C[c] # t
  BY NoneIsNothing DEF Books, Handles
<1>3. \A h \in Hosts : t \notin ToSet(m.mPendingQ[h])
  BY DEF Books, Placed
<1>4. Handles(m, T2, C, w)
  <2>1. \A u, v \in Transactions : T2[u].conn # None /\ T2[u].conn = T2[v].conn => u = v
    BY DEF Books, Handles
  <2>2. ASSUME NEW c \in Conns, C[c] # None
        PROVE  T2[C[c]].conn = c /\ T2[C[c]].state = "accepted"
    <3>1. C[c] \in Transactions /\ C[c] # t
      BY <1>2, <2>2 DEF Books, TypedBooks
    <3> QED BY <2>2, <3>1 DEF Books, Handles
  <2>3. ASSUME NEW u \in Transactions, T2[u].conn # None
        PROVE  /\ T2[u].state \in {"accepted", "ok"} /\ T2[u].host \in Hosts
               /\ w # "down" => T2[u].conn \in m.mActiveConns[T2[u].host]
    <3>1. u # t
      BY <2>3
    <3> QED BY <2>3, <3>1 DEF Books, Handles
  <2> QED BY <2>1, <2>2, <2>3 DEF Handles
<1>5. Announced(m, N \cup {t}, R, T2, C)
  <2>1. \A c \in R : c \in Active(m) /\ \A u \in Transactions : T2[u].conn # c
    BY NoneIsNothing DEF Books, Announced, TypedBooks
  <2>2. ASSUME NEW u \in N
        PROVE  /\ T2[u].state \in {"accepted", "error"} /\ \A c \in Conns : C[c] # u
               /\ \A h \in Hosts : u \notin ToSet(m.mPendingQ[h])
    BY DEF Books, Announced, TypedBooks
  <2> QED BY <1>2, <1>3, <2>1, <2>2 DEF Announced
<1>6. Placed(m, N \cup {t}, T2, C)
  <2>1. ASSUME NEW h \in Hosts, NEW u \in ToSet(m.mPendingQ[h])
        PROVE  T2[u].host = h /\ T2[u].state = "accepted" /\ T2[u].conn = None
    <3>1. u \in Transactions
      BY MgrTypes, ToSetContains DEF Books, TypedBooks, MgrOK
    <3> QED BY <1>3, <3>1 DEF Books, Placed
  <2>2. ASSUME NEW u \in Transactions, T2[u].state = "accepted"
        PROVE  /\ T2[u].host \in Hosts
               /\ \/ u \in N \cup {t} \/ u \in ToSet(m.mPendingQ[T2[u].host])
                  \/ T2[u].conn # None /\ C[T2[u].conn] = u
    BY <2>2 DEF Books, Placed
  <2> QED BY <2>1, <2>2 DEF Placed
<1>7. Accounted(m, N \cup {t}, R, T2, C, w)
  <2> SUFFICES ASSUME w = "run", NEW c \in Active(m), C[c] = None, c \notin R
               PROVE  \E u \in Transactions :
                        T2[u].conn = c /\ (T2[u].state = "ok" \/ u \in N \cup {t})
    BY DEF Accounted
  <2>1. PICK u \in Transactions : T[u].conn = c /\ (T[u].state = "ok" \/ u \in N)
    BY DEF Books, Accounted
  <2>2. c \in Conns
    BY ListTypes DEF MgrOK, Books, TypedBooks
  <2>3. u # t
    BY <2>1, <2>2, NoneIsNothing DEF Books, Handles
  <2> QED BY <2>1, <2>3
<1>8. Sorted(m, T2)
  <2>1. ASSUME NEW h \in Hosts PROVE SortedQ(m.mPendingQ[h], T2)
    <3>1. m.mPendingQ[h] \in Seq(Transactions)
      BY MgrTypes DEF Books, TypedBooks, MgrOK
    <3>2. \A u \in ToSet(m.mPendingQ[h]) : T2[u].priority = T[u].priority
      BY <1>3, <3>1, ToSetContains
    <3>3. SortedQ(m.mPendingQ[h], T)
      BY DEF Books, Sorted
    <3> QED BY <3>1, <3>2, <3>3, SortedSame
  <2> QED BY <2>1 DEF Sorted
<1> QED BY <1>1, <1>4, <1>5, <1>6, <1>7, <1>8 DEF Books

\* The pending queue of a host holds transactions.
LEMMA QueueTypes ==
    ASSUME NEW m, MgrOK(m), NEW h \in Hosts
    PROVE  /\ m.mPendingQ[h] \in Seq(Transactions) /\ ToSet(m.mPendingQ[h]) \subseteq Transactions
           /\ Distinct(m.mPendingQ[h])
<1>1. m.mPendingQ[h] \in Seq(Transactions)
  BY MgrTypes DEF MgrOK
<1> QED BY <1>1, ToSetContains DEF MgrOK

\* No pending transaction changes.
LEMMA SortedUnless ==
    ASSUME NEW m, MgrOK(m), NEW T, NEW T2, NEW t, Sorted(m, T),
           \A u \in Transactions : u # t => T2[u] = T[u],
           T2[t].priority = T[t].priority \/ \A h \in Hosts : t \notin ToSet(m.mPendingQ[h])
    PROVE  Sorted(m, T2)
<1>1. ASSUME NEW h \in Hosts PROVE SortedQ(m.mPendingQ[h], T2)
  <2>1. m.mPendingQ[h] \in Seq(Transactions) /\ ToSet(m.mPendingQ[h]) \subseteq Transactions
    BY QueueTypes
  <2>2. \A u \in ToSet(m.mPendingQ[h]) : T2[u].priority = T[u].priority
    BY <2>1
  <2>3. SortedQ(m.mPendingQ[h], T)
    BY DEF Sorted
  <2> QED BY <2>1, <2>2, <2>3, SortedSame
<1> QED BY <1>1 DEF Sorted

LEMMA SortedWithout ==
    ASSUME NEW m, MgrOK(m), NEW T, NEW T2, NEW t, Sorted(m, T),
           \A u \in Transactions : u # t => T2[u] = T[u], \A h \in Hosts : t \notin ToSet(m.mPendingQ[h])
    PROVE  Sorted(m, T2)
<1>1. T2[t].priority = T[t].priority \/ \A h \in Hosts : t \notin ToSet(m.mPendingQ[h])
  OBVIOUS
<1> QED BY <1>1, SortedUnless

\* A handle goes, and its connection is to be reclaimed; Shutdown refuses
\* the message.
LEMMA DropBooks ==
    ASSUME NEW m, NEW N, NEW R, NEW T, NEW C, NEW w, Books(m, N, R, T, C, w),
           NEW t \in Transactions, NEW c \in Conns, T[t].conn = c,
           NEW T2, Changed(T, T2, t), T2[t].conn = None, T2[t].priority = T[t].priority,
           \/ T2[t].state = "error"
           \/ T2[t].state = "ok" /\ t \notin N,
           NEW C2, Carried(C, C2, c, None),
           NEW R2, (w = "run" /\ R2 = R \cup {c}) \/ (w # "run" /\ R2 = R)
    PROVE  Books(m, N, R2, T2, C2, w)
<1>1. c # None /\ R2 \subseteq Conns
  BY NoneIsNothing DEF Books, TypedBooks
<1>2. TypedBooks(m, N, R2, T2, C2)
  BY <1>1 DEF Books, TypedBooks, Changed, Carried
<1>3. \A h \in Hosts : t \notin ToSet(m.mPendingQ[h])
  BY <1>1 DEF Books, Placed
<1>4. \A d \in Conns : C[d] = t => d = c
  BY NoneIsNothing DEF Books, Handles
<1>5. \A u \in Transactions : u # t => T[u].conn # c
  BY <1>1 DEF Books, Handles
<1>6. Handles(m, T2, C2, w)
  <2>1. \A u, v \in Transactions : T2[u].conn # None /\ T2[u].conn = T2[v].conn => u = v
    BY DEF Books, Handles, Changed
  <2>2. ASSUME NEW d \in Conns, C2[d] # None
        PROVE  T2[C2[d]].conn = d /\ T2[C2[d]].state = "accepted"
    <3>1. d # c /\ C2[d] = C[d]
      BY <2>2 DEF Carried
    <3>2. C[d] \in Transactions /\ C[d] # t
      BY <1>4, <2>2, <3>1 DEF Books, TypedBooks
    <3> QED BY <2>2, <3>1, <3>2 DEF Books, Handles, Changed
  <2>3. ASSUME NEW u \in Transactions, T2[u].conn # None
        PROVE  /\ T2[u].state \in {"accepted", "ok"} /\ T2[u].host \in Hosts
               /\ w # "down" => T2[u].conn \in m.mActiveConns[T2[u].host]
    <3>1. u # t
      BY <2>3
    <3>2. T2[u] = T[u]
      BY <3>1 DEF Changed
    <3> QED BY <2>3, <3>2 DEF Books, Handles
  <2> QED BY <2>1, <2>2, <2>3 DEF Handles
<1>7. Announced(m, N, R2, T2, C2)
  <2>1. ASSUME NEW d \in R2
        PROVE  d \in Active(m) /\ \A u \in Transactions : T2[u].conn # d
    <3>1. CASE d \in R
      <4>1. d # None
        BY <3>1, NoneIsNothing DEF Books, TypedBooks
      <4> QED BY <3>1, <4>1 DEF Books, Announced, Changed
    <3>2. CASE d = c /\ w = "run"
      <4>1. T[t].host \in Hosts /\ c \in m.mActiveConns[T[t].host]
        BY <1>1, <3>2 DEF Books, Handles
      <4>2. c \in Active(m)
        BY <4>1 DEF Active
      <4> QED BY <1>1, <1>5, <3>2, <4>2 DEF Changed
    <3> QED BY <3>1, <3>2
  <2>2. ASSUME NEW u \in N
        PROVE  /\ T2[u].state \in {"accepted", "error"} /\ \A d \in Conns : C2[d] # u
               /\ \A h \in Hosts : u \notin ToSet(m.mPendingQ[h])
    <3>1. u \in Transactions /\ u # None
      BY NoneIsNothing DEF Books, TypedBooks
    <3>2. T2[u].state \in {"accepted", "error"}
      BY <3>1 DEF Books, Announced, Changed
    <3>3. \A d \in Conns : C2[d] # u
      BY <3>1 DEF Books, Announced, Carried
    <3> QED BY <3>2, <3>3 DEF Books, Announced
  <2> QED BY <2>1, <2>2 DEF Announced
<1>8. Placed(m, N, T2, C2)
  <2>1. ASSUME NEW h \in Hosts, NEW u \in ToSet(m.mPendingQ[h])
        PROVE  T2[u].host = h /\ T2[u].state = "accepted" /\ T2[u].conn = None
    <3>1. u \in Transactions /\ u # t
      BY <1>3, QueueTypes DEF Books, TypedBooks
    <3> QED BY <3>1 DEF Books, Placed, Changed
  <2>2. ASSUME NEW u \in Transactions, T2[u].state = "accepted"
        PROVE  /\ T2[u].host \in Hosts
               /\ \/ u \in N \/ u \in ToSet(m.mPendingQ[T2[u].host])
                  \/ T2[u].conn # None /\ C2[T2[u].conn] = u
    <3>1. u # t
      BY <2>2
    <3>2. T2[u] = T[u]
      BY <3>1 DEF Changed
    <3>3. /\ T[u].host \in Hosts
          /\ \/ u \in N \/ u \in ToSet(m.mPendingQ[T[u].host])
             \/ T[u].conn # None /\ C[T[u].conn] = u
      BY <2>2, <3>2 DEF Books, Placed
    <3>4. ASSUME T[u].conn # None, C[T[u].conn] = u PROVE C2[T[u].conn] = u
      <4>1. T[u].conn \in Conns /\ T[u].conn # c
        BY <1>5, <3>1, <3>4 DEF Books, TypedBooks, TransType
      <4> QED BY <3>4, <4>1 DEF Carried
    <3> QED BY <3>2, <3>3, <3>4
  <2> QED BY <2>1, <2>2 DEF Placed
<1>9. Accounted(m, N, R2, T2, C2, w)
  <2> SUFFICES ASSUME w = "run", NEW d \in Active(m), C2[d] = None, d \notin R2
               PROVE  \E u \in Transactions : T2[u].conn = d /\ (T2[u].state = "ok" \/ u \in N)
    BY DEF Accounted
  <2>1. d \in Conns /\ d # c /\ d \notin R
    BY ListTypes DEF MgrOK, Books, TypedBooks
  <2>2. C[d] = None
    BY <2>1 DEF Carried
  <2>3. PICK u \in Transactions : T[u].conn = d /\ (T[u].state = "ok" \/ u \in N)
    BY <2>1, <2>2 DEF Books, Accounted
  <2>4. T2[u] = T[u]
    BY <2>1, <2>3 DEF Changed
  <2> QED BY <2>3, <2>4
<1>10. Sorted(m, T2)
  BY <1>3, SortedUnless DEF Books, TypedBooks, Changed
<1> QED BY <1>2, <1>6, <1>7, <1>8, <1>9, <1>10 DEF Books

\* A sticky transaction ends well, and keeps its handle.
LEMMA KeepBooks ==
    ASSUME NEW m, NEW N, NEW R, NEW T, NEW C, NEW w, Books(m, N, R, T, C, w),
           NEW t \in Transactions, NEW c \in Conns, C[c] = t,
           NEW T2, Changed(T, T2, t), T2[t].conn = T[t].conn, T2[t].priority = T[t].priority,
           T2[t].state = "ok", NEW C2, Carried(C, C2, c, None)
    PROVE  Books(m, N, R, T2, C2, w)
<1>1. c # None /\ t # None /\ T[t].conn = c /\ T[t].state = "accepted"
  BY NoneIsNothing DEF Books, Handles
<1>2. TypedBooks(m, N, R, T2, C2)
  BY DEF Books, TypedBooks, Changed, Carried
<1>3. (\A h \in Hosts : t \notin ToSet(m.mPendingQ[h])) /\ t \notin N
  BY <1>1 DEF Books, Placed, Announced
<1>4. \A d \in Conns : C[d] = t => d = c
  BY <1>1 DEF Books, Handles
<1>5. \A u \in Transactions : T2[u].conn = T[u].conn /\ T2[u].host = T[u].host
  BY DEF Changed
<1>6. Handles(m, T2, C2, w)
  <2>1. \A u, v \in Transactions : T2[u].conn # None /\ T2[u].conn = T2[v].conn => u = v
    BY <1>5 DEF Books, Handles
  <2>2. ASSUME NEW d \in Conns, C2[d] # None
        PROVE  T2[C2[d]].conn = d /\ T2[C2[d]].state = "accepted"
    <3>1. d # c /\ C2[d] = C[d]
      BY <2>2 DEF Carried
    <3>2. C[d] \in Transactions /\ C[d] # t
      BY <1>4, <2>2, <3>1 DEF Books, TypedBooks
    <3> QED BY <2>2, <3>1, <3>2 DEF Books, Handles, Changed
  <2>3. ASSUME NEW u \in Transactions, T2[u].conn # None
        PROVE  /\ T2[u].state \in {"accepted", "ok"} /\ T2[u].host \in Hosts
               /\ w # "down" => T2[u].conn \in m.mActiveConns[T2[u].host]
    <3>1. T2[u].state = T[u].state \/ T2[u].state = "ok"
      BY DEF Changed
    <3> QED BY <1>5, <2>3, <3>1 DEF Books, Handles
  <2> QED BY <2>1, <2>2, <2>3 DEF Handles
<1>7. Announced(m, N, R, T2, C2)
  <2>1. \A d \in R : d \in Active(m) /\ \A u \in Transactions : T2[u].conn # d
    BY <1>5 DEF Books, Announced
  <2>2. ASSUME NEW u \in N
        PROVE  /\ T2[u].state \in {"accepted", "error"} /\ \A d \in Conns : C2[d] # u
               /\ \A h \in Hosts : u \notin ToSet(m.mPendingQ[h])
    <3>1. u \in Transactions /\ u # None /\ u # t
      BY <1>3, NoneIsNothing DEF Books, TypedBooks
    <3>2. T2[u].state \in {"accepted", "error"}
      BY <3>1 DEF Books, Announced, Changed
    <3>3. \A d \in Conns : C2[d] # u
      BY <3>1 DEF Books, Announced, Carried
    <3> QED BY <3>2, <3>3 DEF Books, Announced
  <2> QED BY <2>1, <2>2 DEF Announced
<1>8. Placed(m, N, T2, C2)
  <2>1. ASSUME NEW h \in Hosts, NEW u \in ToSet(m.mPendingQ[h])
        PROVE  T2[u].host = h /\ T2[u].state = "accepted" /\ T2[u].conn = None
    <3>1. u \in Transactions /\ u # t
      BY <1>3, QueueTypes DEF Books, TypedBooks
    <3> QED BY <3>1 DEF Books, Placed, Changed
  <2>2. ASSUME NEW u \in Transactions, T2[u].state = "accepted"
        PROVE  /\ T2[u].host \in Hosts
               /\ \/ u \in N \/ u \in ToSet(m.mPendingQ[T2[u].host])
                  \/ T2[u].conn # None /\ C2[T2[u].conn] = u
    <3>1. u # t
      BY <2>2
    <3>2. T2[u] = T[u]
      BY <3>1 DEF Changed
    <3>3. /\ T[u].host \in Hosts
          /\ \/ u \in N \/ u \in ToSet(m.mPendingQ[T[u].host])
             \/ T[u].conn # None /\ C[T[u].conn] = u
      BY <2>2, <3>2 DEF Books, Placed
    <3>4. ASSUME T[u].conn # None, C[T[u].conn] = u PROVE C2[T[u].conn] = u
      <4>1. T[u].conn \in Conns /\ T[u].conn # c
        BY <3>1, <3>4 DEF Books, TypedBooks, TransType
      <4> QED BY <3>4, <4>1 DEF Carried
    <3> QED BY <3>2, <3>3, <3>4
  <2> QED BY <2>1, <2>2 DEF Placed
<1>9. Accounted(m, N, R, T2, C2, w)
  <2> SUFFICES ASSUME w = "run", NEW d \in Active(m), C2[d] = None, d \notin R
               PROVE  \E u \in Transactions : T2[u].conn = d /\ (T2[u].state = "ok" \/ u \in N)
    BY DEF Accounted
  <2>1. CASE d = c
    BY <1>1, <1>5, <2>1
  <2>2. CASE d # c
    <3>1. d \in Conns
      BY ListTypes DEF MgrOK, Books, TypedBooks
    <3>2. C[d] = None
      BY <2>2, <3>1 DEF Carried
    <3>3. PICK u \in Transactions : T[u].conn = d /\ (T[u].state = "ok" \/ u \in N)
      BY <3>2 DEF Books, Accounted
    <3>4. T2[u] = T[u]
      BY <1>1, <2>2, <3>3 DEF Changed
    <3> QED BY <3>3, <3>4
  <2> QED BY <2>1, <2>2
<1>10. Sorted(m, T2)
  BY <1>3, SortedUnless DEF Books, TypedBooks, Changed
<1> QED BY <1>2, <1>6, <1>7, <1>8, <1>9, <1>10 DEF Books

\* A transaction leaves its connection and is announced again.
LEMMA RestartBooks ==
    ASSUME NEW m, NEW N, NEW R, NEW T, NEW C, Books(m, N, R, T, C, "run"),
           NEW t \in Transactions, NEW c \in Conns, C[c] = t,
           NEW T2, Changed(T, T2, t), T2[t].conn = None, T2[t].priority = T[t].priority,
           T2[t].state = T[t].state, NEW C2, Carried(C, C2, c, None)
    PROVE  Books(m, N \cup {t}, R \cup {c}, T2, C2, "run")
<1>1. c # None /\ t # None /\ T[t].conn = c /\ T[t].state = "accepted"
  BY NoneIsNothing DEF Books, Handles
<1>2. TypedBooks(m, N \cup {t}, R \cup {c}, T2, C2)
  BY DEF Books, TypedBooks, Changed, Carried
<1>3. \A h \in Hosts : t \notin ToSet(m.mPendingQ[h])
  BY <1>1 DEF Books, Placed
<1>4. \A d \in Conns : C[d] = t => d = c
  BY <1>1 DEF Books, Handles
<1>5. \A u \in Transactions : u # t => T[u].conn # c
  BY <1>1 DEF Books, Handles
<1>6. Handles(m, T2, C2, "run")
  <2>1. \A u, v \in Transactions : T2[u].conn # None /\ T2[u].conn = T2[v].conn => u = v
    BY DEF Books, Handles, Changed
  <2>2. ASSUME NEW d \in Conns, C2[d] # None
        PROVE  T2[C2[d]].conn = d /\ T2[C2[d]].state = "accepted"
    <3>1. d # c /\ C2[d] = C[d]
      BY <2>2 DEF Carried
    <3>2. C[d] \in Transactions /\ C[d] # t
      BY <1>4, <2>2, <3>1 DEF Books, TypedBooks
    <3> QED BY <2>2, <3>1, <3>2 DEF Books, Handles, Changed
  <2>3. ASSUME NEW u \in Transactions, T2[u].conn # None
        PROVE  /\ T2[u].state \in {"accepted", "ok"} /\ T2[u].host \in Hosts
               /\ T2[u].conn \in m.mActiveConns[T2[u].host]
    <3>1. u # t
      BY <2>3
    <3>2. T2[u] = T[u]
      BY <3>1 DEF Changed
    <3> QED BY <2>3, <3>2 DEF Books, Handles
  <2> QED BY <2>1, <2>2, <2>3 DEF Handles
<1>7. Announced(m, N \cup {t}, R \cup {c}, T2, C2)
  <2>1. ASSUME NEW d \in R \cup {c}
        PROVE  d \in Active(m) /\ \A u \in Transactions : T2[u].conn # d
    <3>1. CASE d \in R
      <4>1. d # None
        BY <3>1, NoneIsNothing DEF Books, TypedBooks
      <4> QED BY <3>1, <4>1 DEF Books, Announced, Changed
    <3>2. CASE d = c
      <4>1. T[t].host \in Hosts /\ c \in m.mActiveConns[T[t].host]
        BY <1>1 DEF Books, Handles
      <4>2. c \in Active(m)
        BY <4>1 DEF Active
      <4> QED BY <1>1, <1>5, <3>2, <4>2 DEF Changed
    <3> QED BY <3>1, <3>2
  <2>2. ASSUME NEW u \in N \cup {t}
        PROVE  /\ T2[u].state \in {"accepted", "error"} /\ \A d \in Conns : C2[d] # u
               /\ \A h \in Hosts : u \notin ToSet(m.mPendingQ[h])
    <3>1. u \in Transactions /\ u # None
      BY NoneIsNothing DEF Books, TypedBooks
    <3>2. T2[u].state \in {"accepted", "error"}
      BY <1>1, <3>1 DEF Books, Announced, Changed
    <3>3. \A d \in Conns : C2[d] # u
      BY <1>4, <3>1 DEF Books, Announced, Carried
    <3> QED BY <1>3, <3>2, <3>3 DEF Books, Announced
  <2> QED BY <2>1, <2>2 DEF Announced
<1>8. Placed(m, N \cup {t}, T2, C2)
  <2>1. ASSUME NEW h \in Hosts, NEW u \in ToSet(m.mPendingQ[h])
        PROVE  T2[u].host = h /\ T2[u].state = "accepted" /\ T2[u].conn = None
    <3>1. u \in Transactions /\ u # t
      BY <1>3, QueueTypes DEF Books, TypedBooks
    <3> QED BY <3>1 DEF Books, Placed, Changed
  <2>2. ASSUME NEW u \in Transactions, T2[u].state = "accepted"
        PROVE  /\ T2[u].host \in Hosts
               /\ \/ u \in N \cup {t} \/ u \in ToSet(m.mPendingQ[T2[u].host])
                  \/ T2[u].conn # None /\ C2[T2[u].conn] = u
    <3>1. CASE u = t
      BY <1>1, <3>1 DEF Books, Placed, Changed
    <3>2. CASE u # t
      <4>1. T2[u] = T[u]
        BY <3>2 DEF Changed
      <4>2. /\ T[u].host \in Hosts
            /\ \/ u \in N \/ u \in ToSet(m.mPendingQ[T[u].host])
               \/ T[u].conn # None /\ C[T[u].conn] = u
        BY <2>2, <4>1 DEF Books, Placed
      <4>3. ASSUME T[u].conn # None, C[T[u].conn] = u PROVE C2[T[u].conn] = u
        <5>1. T[u].conn \in Conns /\ T[u].conn # c
          BY <1>5, <3>2, <4>3 DEF Books, TypedBooks, TransType
        <5> QED BY <4>3, <5>1 DEF Carried
      <4> QED BY <4>1, <4>2, <4>3
    <3> QED BY <3>1, <3>2
  <2> QED BY <2>1, <2>2 DEF Placed
<1>9. Accounted(m, N \cup {t}, R \cup {c}, T2, C2, "run")
  <2> SUFFICES ASSUME NEW d \in Active(m), C2[d] = None, d \notin R \cup {c}
               PROVE  \E u \in Transactions :
                        T2[u].conn = d /\ (T2[u].state = "ok" \/ u \in N \cup {t})
    BY DEF Accounted
  <2>1. d \in Conns /\ d # c /\ d \notin R
    BY ListTypes DEF MgrOK, Books, TypedBooks
  <2>2. C[d] = None
    BY <2>1 DEF Carried
  <2>3. PICK u \in Transactions : T[u].conn = d /\ (T[u].state = "ok" \/ u \in N)
    BY <2>1, <2>2 DEF Books, Accounted
  <2>4. T2[u] = T[u]
    BY <1>1, <2>1, <2>3 DEF Changed
  <2> QED BY <2>3, <2>4
<1>10. Sorted(m, T2)
  BY <1>3, SortedUnless DEF Books, TypedBooks, Changed
<1> QED BY <1>2, <1>6, <1>7, <1>8, <1>9, <1>10 DEF Books

\* The handle of a transaction that is done goes to another, which is
\* announced.
LEMMA RetryBooks ==
    ASSUME NEW m, NEW N, NEW R, NEW T, NEW C, NEW w, Books(m, N, R, T, C, w),
           NEW t \in Transactions, NEW u \in Transactions, NEW c \in Conns,
           T[t].conn = c, T[t].state = "ok", T[u].state = "unused",
           NEW T2 \in [Transactions -> TransType],
           \A v \in Transactions : v # t /\ v # u => T2[v] = T[v],
           T2[t].conn = None, T2[t].state = "ok", T2[t].host = T[t].host,
           T2[u].conn = c, T2[u].state = "accepted", T2[u].host = T[t].host
    PROVE  Books(m, N \cup {u}, R, T2, C, w)
<1>1. c # None /\ t # u
  BY NoneIsNothing
<1>2. TypedBooks(m, N \cup {u}, R, T2, C)
  BY DEF Books, TypedBooks
<1>3. \A h \in Hosts : t \notin ToSet(m.mPendingQ[h]) /\ u \notin ToSet(m.mPendingQ[h])
  BY <1>1 DEF Books, Placed
<1>4. \A d \in Conns : C[d] # t /\ C[d] # u
  BY NoneIsNothing DEF Books, Handles
<1>5. T[u].conn = None /\ \A v \in Transactions : v # t => T[v].conn # c
  BY <1>1 DEF Books, Handles
<1>6. \A v \in Transactions : T2[v].conn # None =>
        v # t /\ ((v = u /\ T2[v].conn = c) \/ (v # u /\ T2[v] = T[v]))
  OBVIOUS
<1>7. Handles(m, T2, C, w)
  <2>1. ASSUME NEW v \in Transactions, NEW x \in Transactions,
               T2[v].conn # None, T2[v].conn = T2[x].conn
        PROVE  v = x
    <3>1. T2[x].conn # None
      BY <2>1
    <3> QED BY <1>5, <1>6, <2>1, <3>1 DEF Books, Handles
  <2>2. ASSUME NEW d \in Conns, C[d] # None
        PROVE  T2[C[d]].conn = d /\ T2[C[d]].state = "accepted"
    <3>1. C[d] \in Transactions /\ C[d] # t /\ C[d] # u
      BY <1>4, <2>2 DEF Books, TypedBooks
    <3> QED BY <2>2, <3>1 DEF Books, Handles
  <2>3. ASSUME NEW v \in Transactions, T2[v].conn # None
        PROVE  /\ T2[v].state \in {"accepted", "ok"} /\ T2[v].host \in Hosts
               /\ w # "down" => T2[v].conn \in m.mActiveConns[T2[v].host]
    <3>1. CASE v = u
      BY <1>1, <3>1 DEF Books, Handles
    <3>2. CASE v # u
      BY <1>6, <2>3, <3>2 DEF Books, Handles
    <3> QED BY <3>1, <3>2
  <2> QED BY <2>1, <2>2, <2>3 DEF Handles
<1>8. Announced(m, N \cup {u}, R, T2, C)
  <2>1. ASSUME NEW d \in R
        PROVE  d \in Active(m) /\ \A v \in Transactions : T2[v].conn # d
    <3>1. d # None /\ d # c
      BY NoneIsNothing DEF Books, TypedBooks, Announced
    <3> QED BY <1>6, <3>1 DEF Books, Announced
  <2>2. ASSUME NEW v \in N \cup {u}
        PROVE  /\ T2[v].state \in {"accepted", "error"} /\ \A d \in Conns : C[d] # v
               /\ \A h \in Hosts : v \notin ToSet(m.mPendingQ[h])
    <3>1. CASE v = u
      BY <1>3, <1>4, <3>1
    <3>2. CASE v \in N
      <4>1. v \in Transactions /\ v # t /\ v # u
        BY <3>2 DEF Books, TypedBooks, Announced
      <4> QED BY <3>2, <4>1 DEF Books, Announced
    <3> QED BY <3>1, <3>2
  <2> QED BY <2>1, <2>2 DEF Announced
<1>9. Placed(m, N \cup {u}, T2, C)
  <2>1. ASSUME NEW h \in Hosts, NEW v \in ToSet(m.mPendingQ[h])
        PROVE  T2[v].host = h /\ T2[v].state = "accepted" /\ T2[v].conn = None
    <3>1. v \in Transactions /\ v # t /\ v # u
      BY <1>3, QueueTypes DEF Books, TypedBooks
    <3> QED BY <3>1 DEF Books, Placed
  <2>2. ASSUME NEW v \in Transactions, T2[v].state = "accepted"
        PROVE  /\ T2[v].host \in Hosts
               /\ \/ v \in N \cup {u} \/ v \in ToSet(m.mPendingQ[T2[v].host])
                  \/ T2[v].conn # None /\ C[T2[v].conn] = v
    <3>1. CASE v = u
      BY <1>1, <3>1 DEF Books, Handles
    <3>2. CASE v # u
      <4>1. T2[v] = T[v]
        BY <2>2, <3>2
      <4> QED BY <2>2, <4>1 DEF Books, Placed
    <3> QED BY <3>1, <3>2
  <2> QED BY <2>1, <2>2 DEF Placed
<1>10. Accounted(m, N \cup {u}, R, T2, C, w)
  <2> SUFFICES ASSUME w = "run", NEW d \in Active(m), C[d] = None, d \notin R
               PROVE  \E v \in Transactions :
                        T2[v].conn = d /\ (T2[v].state = "ok" \/ v \in N \cup {u})
    BY DEF Accounted
  <2>1. CASE d = c
    BY <2>1
  <2>2. CASE d # c
    <3>1. d \in Conns
      BY ListTypes DEF MgrOK, Books, TypedBooks
    <3>2. PICK v \in Transactions : T[v].conn = d /\ (T[v].state = "ok" \/ v \in N)
      BY DEF Books, Accounted
    <3>3. T2[v] = T[v]
      BY <1>5, <2>2, <3>1, <3>2, NoneIsNothing
    <3> QED BY <3>2, <3>3
  <2> QED BY <2>1, <2>2
<1>11. Sorted(m, T2)
  <2>1. ASSUME NEW h \in Hosts PROVE SortedQ(m.mPendingQ[h], T2)
    <3>1. m.mPendingQ[h] \in Seq(Transactions) /\ ToSet(m.mPendingQ[h]) \subseteq Transactions
      BY QueueTypes DEF Books, TypedBooks
    <3>2. \A v \in ToSet(m.mPendingQ[h]) : T2[v].priority = T[v].priority
      BY <1>3, <3>1
    <3>3. SortedQ(m.mPendingQ[h], T)
      BY DEF Books, Sorted
    <3> QED BY <3>1, <3>2, <3>3, SortedSame
  <2> QED BY <2>1 DEF Sorted
<1> QED BY <1>2, <1>7, <1>8, <1>9, <1>10, <1>11 DEF Books

\* The message of a transaction that brought its connection along arrives.
LEMMA StickyBooks ==
    ASSUME NEW m, NEW N, NEW R, NEW T, NEW C, NEW w, Books(m, N, R, T, C, w),
           NEW t \in N, NEW c \in Conns, T[t].conn = c, T[t].state = "accepted",
           NEW T2, Changed(T, T2, t), T2[t].conn = c, T2[t].state = "accepted",
           NEW C2, Carried(C, C2, c, t)
    PROVE  Books(m, N \ {t}, R, T2, C2, w)
<1>1. c # None /\ t # None /\ t \in Transactions
  BY NoneIsNothing DEF Books, TypedBooks
<1>2. TypedBooks(m, N \ {t}, R, T2, C2)
  BY DEF Books, TypedBooks, Changed, Carried
<1>3. \A h \in Hosts : t \notin ToSet(m.mPendingQ[h])
  BY DEF Books, Announced
<1>4. C[c] = None
  BY <1>1, NotCarrying
<1>5. \A u \in Transactions :
        T2[u].conn = T[u].conn /\ T2[u].host = T[u].host /\ T2[u].state = T[u].state
  BY <1>1 DEF Changed
<1>6. Handles(m, T2, C2, w)
  <2>1. \A u, v \in Transactions : T2[u].conn # None /\ T2[u].conn = T2[v].conn => u = v
    BY <1>5 DEF Books, Handles
  <2>2. ASSUME NEW d \in Conns, C2[d] # None
        PROVE  T2[C2[d]].conn = d /\ T2[C2[d]].state = "accepted"
    <3>1. CASE d = c
      BY <3>1 DEF Carried
    <3>2. CASE d # c
      <4>1. C2[d] = C[d] /\ C[d] \in Transactions
        BY <2>2, <3>2 DEF Books, TypedBooks, Carried
      <4> QED BY <1>5, <2>2, <4>1 DEF Books, Handles
    <3> QED BY <3>1, <3>2
  <2>3. \A u \in Transactions : T2[u].conn # None =>
          /\ T2[u].state \in {"accepted", "ok"} /\ T2[u].host \in Hosts
          /\ w # "down" => T2[u].conn \in m.mActiveConns[T2[u].host]
    BY <1>5 DEF Books, Handles
  <2> QED BY <2>1, <2>2, <2>3 DEF Handles
<1>7. Announced(m, N \ {t}, R, T2, C2)
  <2>1. \A d \in R : d \in Active(m) /\ \A u \in Transactions : T2[u].conn # d
    BY <1>5 DEF Books, Announced
  <2>2. ASSUME NEW u \in N, u # t
        PROVE  /\ T2[u].state \in {"accepted", "error"} /\ \A d \in Conns : C2[d] # u
               /\ \A h \in Hosts : u \notin ToSet(m.mPendingQ[h])
    <3>1. u \in Transactions
      BY DEF Books, TypedBooks
    <3>2. \A d \in Conns : C2[d] # u
      BY <2>2 DEF Books, Announced, Carried
    <3> QED BY <1>5, <3>1, <3>2 DEF Books, Announced
  <2> QED BY <2>1, <2>2 DEF Announced
<1>8. Placed(m, N \ {t}, T2, C2)
  <2>1. ASSUME NEW h \in Hosts, NEW u \in ToSet(m.mPendingQ[h])
        PROVE  T2[u].host = h /\ T2[u].state = "accepted" /\ T2[u].conn = None
    <3>1. u \in Transactions
      BY QueueTypes DEF Books, TypedBooks
    <3> QED BY <1>5, <3>1 DEF Books, Placed
  <2>2. ASSUME NEW u \in Transactions, T2[u].state = "accepted"
        PROVE  /\ T2[u].host \in Hosts
               /\ \/ u \in N \ {t} \/ u \in ToSet(m.mPendingQ[T2[u].host])
                  \/ T2[u].conn # None /\ C2[T2[u].conn] = u
    <3>1. /\ T[u].host \in Hosts
          /\ \/ u \in N \/ u \in ToSet(m.mPendingQ[T[u].host])
             \/ T[u].conn # None /\ C[T[u].conn] = u
      BY <1>5, <2>2 DEF Books, Placed
    <3>2. CASE u = t
      BY <1>1, <3>1, <3>2, <1>5 DEF Carried
    <3>3. CASE u # t
      <4>1. ASSUME T[u].conn # None, C[T[u].conn] = u PROVE C2[T[u].conn] = u
        <5>1. T[u].conn \in Conns
          BY <4>1 DEF Books, TypedBooks, TransType
        <5>2. T[u].conn # c
          BY <1>4, <4>1, NoneIsNothing
        <5> QED BY <4>1, <5>1, <5>2 DEF Carried
      <4> QED BY <1>5, <3>1, <3>3, <4>1
    <3> QED BY <3>2, <3>3
  <2> QED BY <2>1, <2>2 DEF Placed
<1>9. Accounted(m, N \ {t}, R, T2, C2, w)
  <2> SUFFICES ASSUME w = "run", NEW d \in Active(m), C2[d] = None, d \notin R
               PROVE  \E u \in Transactions : T2[u].conn = d /\ (T2[u].state = "ok" \/ u \in N \ {t})
    BY DEF Accounted
  <2>1. d \in Conns /\ d # c /\ C[d] = None
    BY <1>1, ListTypes DEF MgrOK, Books, TypedBooks, Carried
  <2>2. PICK u \in Transactions : T[u].conn = d /\ (T[u].state = "ok" \/ u \in N)
    BY <2>1 DEF Books, Accounted
  <2> QED BY <1>5, <2>1, <2>2
<1>10. Sorted(m, T2)
  BY <1>3, SortedUnless DEF Books, TypedBooks, Changed
<1> QED BY <1>2, <1>6, <1>7, <1>8, <1>9, <1>10 DEF Books

\* Its connection cannot be activated, and is dropped.
LEMMA StickyFailBooks ==
    ASSUME NEW m, NEW N, NEW R, NEW T, NEW C, NEW w, Books(m, N, R, T, C, w), w # "down",
           NEW t \in N, NEW c \in Conns, T[t].conn = c, c \in m.mActiveConns[T[t].host],
           T[t].host \in Hosts,
           NEW T2, Changed(T, T2, t), T2[t].conn = None, T2[t].state = "error"
    PROVE  Books(Deactivated(m, T[t].host, c), N \ {t}, R, T2, C, w)
<1>. PICK h \in Hosts : h = T[t].host
  OBVIOUS
<1>. PICK p : p = Deactivated(m, h, c)
  OBVIOUS
<1>1. c # None /\ t # None /\ t \in Transactions
  BY NoneIsNothing DEF Books, TypedBooks
<1>2. /\ MgrOK(p) /\ p.mPendingQ = m.mPendingQ /\ Active(p) = Active(m) \ {c}
      /\ p.mActiveConns = [m.mActiveConns EXCEPT ![h] = @ \ {c}]
  BY DeactivatedOK DEF Books, TypedBooks
<1>3. /\ p.mActiveConns[h] = m.mActiveConns[h] \ {c}
      /\ \A g \in Hosts : g # h => p.mActiveConns[g] = m.mActiveConns[g]
  BY <1>2, MgrTypes DEF Books, TypedBooks, MgrOK
<1>4. TypedBooks(p, N \ {t}, R, T2, C)
  BY <1>2 DEF Books, TypedBooks, Changed
<1>5. \A k \in Hosts : t \notin ToSet(m.mPendingQ[k])
  BY DEF Books, Announced
<1>6. C[c] = None /\ \A d \in Conns : C[d] # t
  BY <1>1, NotCarrying DEF Books, Announced
<1>7. \A u \in Transactions : u # t => T[u].conn # c /\ T2[u] = T[u]
  BY <1>1 DEF Books, Handles, Changed
<1>8. Handles(p, T2, C, w)
  <2>1. \A u, v \in Transactions : T2[u].conn # None /\ T2[u].conn = T2[v].conn => u = v
    BY <1>7 DEF Books, Handles
  <2>2. ASSUME NEW d \in Conns, C[d] # None
        PROVE  T2[C[d]].conn = d /\ T2[C[d]].state = "accepted"
    <3>1. C[d] \in Transactions /\ C[d] # t
      BY <1>6, <2>2 DEF Books, TypedBooks
    <3> QED BY <1>7, <2>2, <3>1 DEF Books, Handles
  <2>3. ASSUME NEW u \in Transactions, T2[u].conn # None
        PROVE  /\ T2[u].state \in {"accepted", "ok"} /\ T2[u].host \in Hosts
               /\ w # "down" => T2[u].conn \in p.mActiveConns[T2[u].host]
    <3>1. u # t /\ T2[u] = T[u] /\ T[u].conn # c
      BY <1>7, <2>3
    <3>2. /\ T[u].state \in {"accepted", "ok"} /\ T[u].host \in Hosts
          /\ T[u].conn \in m.mActiveConns[T[u].host]
      BY <2>3, <3>1 DEF Books, Handles
    <3> QED BY <1>3, <3>1, <3>2
  <2> QED BY <2>1, <2>2, <2>3 DEF Handles
<1>9. Announced(p, N \ {t}, R, T2, C)
  <2>1. ASSUME NEW d \in R PROVE d \in Active(p) /\ \A u \in Transactions : T2[u].conn # d
    <3>1. d # None /\ d # c
      BY <1>1, NoneIsNothing DEF Books, TypedBooks, Announced
    <3> QED BY <1>2, <1>7, <3>1 DEF Books, Announced
  <2>2. ASSUME NEW u \in N, u # t
        PROVE  /\ T2[u].state \in {"accepted", "error"} /\ \A d \in Conns : C[d] # u
               /\ \A k \in Hosts : u \notin ToSet(p.mPendingQ[k])
    <3>1. u \in Transactions
      BY DEF Books, TypedBooks
    <3> QED BY <1>2, <1>7, <2>2, <3>1 DEF Books, Announced
  <2> QED BY <2>1, <2>2 DEF Announced
<1>10. Placed(p, N \ {t}, T2, C)
  <2>1. ASSUME NEW k \in Hosts, NEW u \in ToSet(p.mPendingQ[k])
        PROVE  T2[u].host = k /\ T2[u].state = "accepted" /\ T2[u].conn = None
    <3>1. u \in Transactions /\ u # t
      BY <1>2, <1>5, QueueTypes DEF Books, TypedBooks
    <3> QED BY <1>2, <1>7, <3>1 DEF Books, Placed
  <2>2. ASSUME NEW u \in Transactions, T2[u].state = "accepted"
        PROVE  /\ T2[u].host \in Hosts
               /\ \/ u \in N \ {t} \/ u \in ToSet(p.mPendingQ[T2[u].host])
                  \/ T2[u].conn # None /\ C[T2[u].conn] = u
    <3>1. u # t /\ T2[u] = T[u]
      BY <1>7, <2>2
    <3> QED BY <1>2, <2>2, <3>1 DEF Books, Placed
  <2> QED BY <2>1, <2>2 DEF Placed
<1>11. Accounted(p, N \ {t}, R, T2, C, w)
  <2> SUFFICES ASSUME w = "run", NEW d \in Active(p), C[d] = None, d \notin R
               PROVE  \E u \in Transactions : T2[u].conn = d /\ (T2[u].state = "ok" \/ u \in N \ {t})
    BY DEF Accounted
  <2>1. d \in Active(m) /\ d # c
    BY <1>2
  <2>2. PICK u \in Transactions : T[u].conn = d /\ (T[u].state = "ok" \/ u \in N)
    BY <2>1 DEF Books, Accounted
  <2> QED BY <1>7, <2>1, <2>2
<1>12. Sorted(p, T2)
  <2>1. Sorted(p, T)
    BY <1>2 DEF Books, Sorted
  <2> QED BY <1>2, <1>5, <2>1, SortedUnless DEF Changed
<1> QED BY <1>4, <1>8, <1>9, <1>10, <1>11, <1>12 DEF Books

\* A transaction whose message arrives finds no connection, and waits.
LEMMA WaitBooks ==
    ASSUME NEW m, NEW N, NEW R, NEW T, NEW C, NEW w, Books(m, N, R, T, C, w),
           NEW t \in N, T[t].conn = None, T[t].state = "accepted",
           NEW T2, Changed(T, T2, t), T2[t].conn = None, T2[t].state = "accepted",
           NEW p, MgrOK(p), p.mActiveConns = m.mActiveConns, Sorted(p, T2),
           ToSet(p.mPendingQ[T[t].host]) = ToSet(m.mPendingQ[T[t].host]) \cup {t},
           \A h \in Hosts : h # T[t].host => p.mPendingQ[h] = m.mPendingQ[h]
    PROVE  Books(p, N \ {t}, R, T2, C, w)
<1>1. t # None /\ t \in Transactions
  BY NoneIsNothing DEF Books, TypedBooks
<1>2. Active(p) = Active(m)
  BY DEF Active
<1>3. TypedBooks(p, N \ {t}, R, T2, C)
  BY DEF Books, TypedBooks, Changed
<1>4. T[t].host \in Hosts /\ \A d \in Conns : C[d] # t
  BY <1>1 DEF Books, Placed, Announced
<1>5. \A u \in Transactions :
        T2[u].conn = T[u].conn /\ T2[u].host = T[u].host /\ T2[u].state = T[u].state
  BY <1>1 DEF Changed
<1>6. Handles(p, T2, C, w)
  <2>1. \A u, v \in Transactions : T2[u].conn # None /\ T2[u].conn = T2[v].conn => u = v
    BY <1>5 DEF Books, Handles
  <2>2. ASSUME NEW d \in Conns, C[d] # None
        PROVE  T2[C[d]].conn = d /\ T2[C[d]].state = "accepted"
    <3>1. C[d] \in Transactions
      BY <2>2 DEF Books, TypedBooks
    <3> QED BY <1>5, <2>2, <3>1 DEF Books, Handles
  <2>3. \A u \in Transactions : T2[u].conn # None =>
          /\ T2[u].state \in {"accepted", "ok"} /\ T2[u].host \in Hosts
          /\ w # "down" => T2[u].conn \in p.mActiveConns[T2[u].host]
    BY <1>5 DEF Books, Handles
  <2> QED BY <2>1, <2>2, <2>3 DEF Handles
<1>7. Announced(p, N \ {t}, R, T2, C)
  <2>1. \A d \in R : d \in Active(p) /\ \A u \in Transactions : T2[u].conn # d
    BY <1>2, <1>5 DEF Books, Announced
  <2>2. ASSUME NEW u \in N, u # t
        PROVE  /\ T2[u].state \in {"accepted", "error"} /\ \A d \in Conns : C[d] # u
               /\ \A h \in Hosts : u \notin ToSet(p.mPendingQ[h])
    <3>1. u \in Transactions
      BY DEF Books, TypedBooks
    <3>2. /\ T[u].state \in {"accepted", "error"} /\ \A d \in Conns : C[d] # u
          /\ \A h \in Hosts : u \notin ToSet(m.mPendingQ[h])
      BY DEF Books, Announced
    <3>3. ASSUME NEW h \in Hosts PROVE u \notin ToSet(p.mPendingQ[h])
      BY <2>2, <3>2
    <3> QED BY <1>5, <3>1, <3>2, <3>3
  <2> QED BY <2>1, <2>2 DEF Announced
<1>8. Placed(p, N \ {t}, T2, C)
  <2>1. ASSUME NEW h \in Hosts, NEW u \in ToSet(p.mPendingQ[h])
        PROVE  T2[u].host = h /\ T2[u].state = "accepted" /\ T2[u].conn = None
    <3>1. u \in Transactions
      BY QueueTypes
    <3>2. CASE u \in ToSet(m.mPendingQ[h])
      BY <1>5, <3>1, <3>2 DEF Books, Placed
    <3>3. CASE u \notin ToSet(m.mPendingQ[h])
      <4>1. u = t /\ h = T[t].host
        BY <2>1, <3>3
      <4> QED BY <1>1, <1>5, <4>1
    <3> QED BY <3>2, <3>3
  <2>2. ASSUME NEW u \in Transactions, T2[u].state = "accepted"
        PROVE  /\ T2[u].host \in Hosts
               /\ \/ u \in N \ {t} \/ u \in ToSet(p.mPendingQ[T2[u].host])
                  \/ T2[u].conn # None /\ C[T2[u].conn] = u
    <3>1. /\ T[u].host \in Hosts
          /\ \/ u \in N \/ u \in ToSet(m.mPendingQ[T[u].host])
             \/ T[u].conn # None /\ C[T[u].conn] = u
      BY <1>5, <2>2 DEF Books, Placed
    <3>2. CASE u = t
      BY <1>5, <3>1, <3>2
    <3>3. CASE u # t
      <4>1. u \in ToSet(m.mPendingQ[T[u].host]) => u \in ToSet(p.mPendingQ[T[u].host])
        BY <3>1
      <4> QED BY <1>5, <3>1, <3>3, <4>1
    <3> QED BY <3>2, <3>3
  <2> QED BY <2>1, <2>2 DEF Placed
<1>9. Accounted(p, N \ {t}, R, T2, C, w)
  <2> SUFFICES ASSUME w = "run", NEW d \in Active(p), C[d] = None, d \notin R
               PROVE  \E u \in Transactions : T2[u].conn = d /\ (T2[u].state = "ok" \/ u \in N \ {t})
    BY DEF Accounted
  <2>1. PICK u \in Transactions : T[u].conn = d /\ (T[u].state = "ok" \/ u \in N)
    BY <1>2 DEF Books, Accounted
  <2>2. d # None
    BY ListTypes, NoneIsNothing DEF MgrOK
  <2> QED BY <1>5, <2>1, <2>2
<1> QED BY <1>3, <1>6, <1>7, <1>8, <1>9 DEF Books

\* A transaction, from a message or from the queue of its host, gets a
\* connection that was not in use.
LEMMA DispatchBooks ==
    ASSUME NEW m, NEW N, NEW R, NEW T, NEW C, NEW w, Books(m, N, R, T, C, w), w # "down",
           NEW t \in Transactions, T[t].conn = None, T[t].state = "accepted", T[t].host \in Hosts,
           NEW c \in Conns, NEW T2, Changed(T, T2, t), T2[t].conn = c, T2[t].state = "accepted",
           NEW C2, Carried(C, C2, c, t),
           NEW p, Requeued(m, p, t, T2), c \notin Active(p) \cup Idle(p)
    PROVE  Books(Activated(p, T[t].host, c), N \ {t}, R, T2, C2, w)
<1>. PICK h \in Hosts : h = T[t].host
  OBVIOUS
<1>. PICK p2 : p2 = Activated(p, h, c)
  OBVIOUS
<1>1. t # None /\ c # None
  BY NoneIsNothing
<1>2. /\ MgrOK(p) /\ p.mActiveConns = m.mActiveConns /\ Sorted(p, T2)
      /\ \A k \in Hosts : ToSet(p.mPendingQ[k]) = ToSet(m.mPendingQ[k]) \ {t}
  BY DEF Requeued
<1>3. /\ MgrOK(p2) /\ p2.mPendingQ = p.mPendingQ /\ Active(p2) = Active(p) \cup {c}
      /\ p2.mActiveConns = [p.mActiveConns EXCEPT ![h] = @ \cup {c}]
  BY <1>2, ActivatedOK
<1>4. /\ p2.mActiveConns[h] = m.mActiveConns[h] \cup {c}
      /\ \A g \in Hosts : g # h => p2.mActiveConns[g] = m.mActiveConns[g]
  <2>1. p.mActiveConns \in [Hosts -> SUBSET Conns]
    BY <1>2, MgrTypes DEF MgrOK
  <2> QED BY <1>2, <1>3, <2>1
<1>5. Active(p) = Active(m)
  BY <1>2 DEF Active
<1>6. C[c] = None /\ c \notin R /\ \A u \in Transactions : T[u].conn # c
  BY <1>5, Nobodys
<1>7. \A d \in Conns : C[d] # t
  BY <1>1, NoneIsNothing DEF Books, Handles
<1>8. \A u \in Transactions : u # t => T2[u] = T[u]
  BY DEF Changed
<1>9. TypedBooks(p2, N \ {t}, R, T2, C2)
  BY <1>3 DEF Books, TypedBooks, Changed, Carried
<1>10. Handles(p2, T2, C2, w)
  <2>1. \A u, v \in Transactions : T2[u].conn # None /\ T2[u].conn = T2[v].conn => u = v
    BY <1>6, <1>8 DEF Books, Handles
  <2>2. ASSUME NEW d \in Conns, C2[d] # None
        PROVE  T2[C2[d]].conn = d /\ T2[C2[d]].state = "accepted"
    <3>1. CASE d = c
      BY <3>1 DEF Carried
    <3>2. CASE d # c
      <4>1. C2[d] = C[d] /\ C[d] \in Transactions /\ C[d] # t
        BY <1>7, <2>2, <3>2 DEF Books, TypedBooks, Carried
      <4> QED BY <1>8, <2>2, <4>1 DEF Books, Handles
    <3> QED BY <3>1, <3>2
  <2>3. ASSUME NEW u \in Transactions, T2[u].conn # None
        PROVE  /\ T2[u].state \in {"accepted", "ok"} /\ T2[u].host \in Hosts
               /\ w # "down" => T2[u].conn \in p2.mActiveConns[T2[u].host]
    <3>1. CASE u = t
      <4>1. T2[u].host = h
        BY <3>1 DEF Changed
      <4> QED BY <1>4, <3>1, <4>1
    <3>2. CASE u # t
      <4>1. T2[u] = T[u]
        BY <1>8, <3>2
      <4>2. /\ T[u].state \in {"accepted", "ok"} /\ T[u].host \in Hosts
            /\ T[u].conn \in m.mActiveConns[T[u].host]
        BY <2>3, <4>1 DEF Books, Handles
      <4> QED BY <1>4, <4>1, <4>2
    <3> QED BY <3>1, <3>2
  <2> QED BY <2>1, <2>2, <2>3 DEF Handles
<1>11. Announced(p2, N \ {t}, R, T2, C2)
  <2>1. ASSUME NEW d \in R PROVE d \in Active(p2) /\ \A u \in Transactions : T2[u].conn # d
    <3>1. d # c
      BY <1>6
    <3> QED BY <1>3, <1>5, <1>8, <3>1 DEF Books, Announced
  <2>2. ASSUME NEW u \in N, u # t
        PROVE  /\ T2[u].state \in {"accepted", "error"} /\ \A d \in Conns : C2[d] # u
               /\ \A k \in Hosts : u \notin ToSet(p2.mPendingQ[k])
    <3>1. u \in Transactions
      BY DEF Books, TypedBooks
    <3>2. \A d \in Conns : C2[d] # u
      BY <2>2 DEF Books, Announced, Carried
    <3> QED BY <1>2, <1>3, <1>8, <2>2, <3>1, <3>2 DEF Books, Announced
  <2> QED BY <2>1, <2>2 DEF Announced
<1>12. Placed(p2, N \ {t}, T2, C2)
  <2>1. ASSUME NEW k \in Hosts, NEW u \in ToSet(p2.mPendingQ[k])
        PROVE  T2[u].host = k /\ T2[u].state = "accepted" /\ T2[u].conn = None
    <3>1. u \in Transactions
      BY <1>3, QueueTypes
    <3>2. u # t /\ u \in ToSet(m.mPendingQ[k])
      BY <1>2, <1>3
    <3> QED BY <1>8, <3>1, <3>2 DEF Books, Placed
  <2>2. ASSUME NEW u \in Transactions, T2[u].state = "accepted"
        PROVE  /\ T2[u].host \in Hosts
               /\ \/ u \in N \ {t} \/ u \in ToSet(p2.mPendingQ[T2[u].host])
                  \/ T2[u].conn # None /\ C2[T2[u].conn] = u
    <3>1. CASE u = t
      BY <1>1, <3>1 DEF Changed, Carried
    <3>2. CASE u # t
      <4>1. T2[u] = T[u]
        BY <1>8, <3>2
      <4>2. /\ T[u].host \in Hosts
            /\ \/ u \in N \/ u \in ToSet(m.mPendingQ[T[u].host])
               \/ T[u].conn # None /\ C[T[u].conn] = u
        BY <2>2, <4>1 DEF Books, Placed
      <4>3. u \in ToSet(m.mPendingQ[T[u].host]) => u \in ToSet(p2.mPendingQ[T[u].host])
        BY <1>2, <1>3, <3>2, <4>2
      <4>4. ASSUME T[u].conn # None, C[T[u].conn] = u PROVE C2[T[u].conn] = u
        <5>1. T[u].conn \in Conns /\ T[u].conn # c
          BY <1>6, <4>4 DEF Books, TypedBooks, TransType
        <5> QED BY <4>4, <5>1 DEF Carried
      <4> QED BY <3>2, <4>1, <4>2, <4>3, <4>4
    <3> QED BY <3>1, <3>2
  <2> QED BY <2>1, <2>2 DEF Placed
<1>13. Accounted(p2, N \ {t}, R, T2, C2, w)
  <2> SUFFICES ASSUME w = "run", NEW d \in Active(p2), C2[d] = None, d \notin R
               PROVE  \E u \in Transactions : T2[u].conn = d /\ (T2[u].state = "ok" \/ u \in N \ {t})
    BY DEF Accounted
  <2>1. d # c
    BY <1>1 DEF Carried
  <2>2. d \in Active(m)
    BY <1>3, <1>5, <2>1
  <2>3. d \in Conns
    BY <2>2, ListTypes DEF MgrOK, Books, TypedBooks
  <2>4. C[d] = None
    BY <2>1, <2>3 DEF Carried
  <2>5. PICK u \in Transactions : T[u].conn = d /\ (T[u].state = "ok" \/ u \in N)
    BY <2>2, <2>4 DEF Books, Accounted
  <2>6. u # t
    BY <2>3, <2>5, NoneIsNothing
  <2> QED BY <1>8, <2>5, <2>6
<1>14. Sorted(p2, T2)
  BY <1>2, <1>3 DEF Sorted
<1> QED BY <1>9, <1>10, <1>11, <1>12, <1>13, <1>14 DEF Books

\* A transaction without a connection is closed, by a cancel or because the
\* one it was given fails.
LEMMA CloseBooks ==
    ASSUME NEW m, NEW N, NEW R, NEW T, NEW C, NEW w, Books(m, N, R, T, C, w),
           NEW t \in Transactions, T[t].conn = None, T[t].state = "accepted",
           NEW T2, Changed(T, T2, t), T2[t].conn = None, T2[t].state = "error",
           NEW p, Requeued(m, p, t, T2), NEW N2, N2 = N \/ N2 = N \ {t}
    PROVE  Books(p, N2, R, T2, C, w)
<1>1. t # None
  BY NoneIsNothing
<1>2. /\ MgrOK(p) /\ p.mActiveConns = m.mActiveConns /\ Sorted(p, T2)
      /\ \A k \in Hosts : ToSet(p.mPendingQ[k]) = ToSet(m.mPendingQ[k]) \ {t}
  BY DEF Requeued
<1>3. Active(p) = Active(m)
  BY <1>2 DEF Active
<1>4. \A d \in Conns : C[d] # t
  BY <1>1, NoneIsNothing DEF Books, Handles
<1>5. \A u \in Transactions : u # t => T2[u] = T[u]
  BY DEF Changed
<1>6. TypedBooks(p, N2, R, T2, C)
  BY <1>2 DEF Books, TypedBooks, Changed
<1>7. Handles(p, T2, C, w)
  <2>1. \A u, v \in Transactions : T2[u].conn # None /\ T2[u].conn = T2[v].conn => u = v
    BY <1>5 DEF Books, Handles
  <2>2. ASSUME NEW d \in Conns, C[d] # None
        PROVE  T2[C[d]].conn = d /\ T2[C[d]].state = "accepted"
    <3>1. C[d] \in Transactions /\ C[d] # t
      BY <1>4, <2>2 DEF Books, TypedBooks
    <3> QED BY <1>5, <2>2, <3>1 DEF Books, Handles
  <2>3. ASSUME NEW u \in Transactions, T2[u].conn # None
        PROVE  /\ T2[u].state \in {"accepted", "ok"} /\ T2[u].host \in Hosts
               /\ w # "down" => T2[u].conn \in p.mActiveConns[T2[u].host]
    <3>1. u # t /\ T2[u] = T[u]
      BY <1>5, <2>3
    <3> QED BY <1>2, <2>3, <3>1 DEF Books, Handles
  <2> QED BY <2>1, <2>2, <2>3 DEF Handles
<1>8. Announced(p, N2, R, T2, C)
  <2>1. ASSUME NEW d \in R PROVE d \in Active(p) /\ \A u \in Transactions : T2[u].conn # d
    <3>1. d # None
      BY NoneIsNothing DEF Books, TypedBooks
    <3> QED BY <1>3, <1>5, <3>1 DEF Books, Announced
  <2>2. ASSUME NEW u \in N
        PROVE  /\ T2[u].state \in {"accepted", "error"} /\ \A d \in Conns : C[d] # u
               /\ \A k \in Hosts : u \notin ToSet(p.mPendingQ[k])
    <3>1. u \in Transactions
      BY DEF Books, TypedBooks
    <3>2. T2[u].state \in {"accepted", "error"}
      BY <1>5, <3>1 DEF Books, Announced
    <3> QED BY <1>2, <3>2 DEF Books, Announced
  <2> QED BY <2>1, <2>2 DEF Announced
<1>9. Placed(p, N2, T2, C)
  <2>1. ASSUME NEW k \in Hosts, NEW u \in ToSet(p.mPendingQ[k])
        PROVE  T2[u].host = k /\ T2[u].state = "accepted" /\ T2[u].conn = None
    <3>1. u \in Transactions
      BY <1>2, QueueTypes
    <3>2. u # t /\ u \in ToSet(m.mPendingQ[k])
      BY <1>2
    <3> QED BY <1>5, <3>1, <3>2 DEF Books, Placed
  <2>2. ASSUME NEW u \in Transactions, T2[u].state = "accepted"
        PROVE  /\ T2[u].host \in Hosts
               /\ \/ u \in N2 \/ u \in ToSet(p.mPendingQ[T2[u].host])
                  \/ T2[u].conn # None /\ C[T2[u].conn] = u
    <3>1. u # t /\ T2[u] = T[u]
      BY <1>5, <2>2
    <3>2. /\ T[u].host \in Hosts
          /\ \/ u \in N \/ u \in ToSet(m.mPendingQ[T[u].host])
             \/ T[u].conn # None /\ C[T[u].conn] = u
      BY <2>2, <3>1 DEF Books, Placed
    <3> QED BY <1>2, <3>1, <3>2
  <2> QED BY <2>1, <2>2 DEF Placed
<1>10. Accounted(p, N2, R, T2, C, w)
  <2> SUFFICES ASSUME w = "run", NEW d \in Active(p), C[d] = None, d \notin R
               PROVE  \E u \in Transactions : T2[u].conn = d /\ (T2[u].state = "ok" \/ u \in N2)
    BY DEF Accounted
  <2>1. d \in Conns
    BY <1>2, ListTypes DEF MgrOK
  <2>2. PICK u \in Transactions : T[u].conn = d /\ (T[u].state = "ok" \/ u \in N)
    BY <1>3 DEF Books, Accounted
  <2>3. u # t
    BY <2>1, <2>2, NoneIsNothing
  <2> QED BY <1>5, <2>2, <2>3
<1> QED BY <1>2, <1>6, <1>7, <1>8, <1>9, <1>10 DEF Books

\* A connection is reclaimed.
LEMMA ReclaimBooks ==
    ASSUME NEW m, NEW N, NEW R, NEW T, NEW C, NEW w, Books(m, N, R, T, C, w), w # "down",
           NEW c \in R, NEW h \in Hosts, c \in m.mActiveConns[h]
    PROVE  Books(Deactivated(m, h, c), N, R \ {c}, T, C, w)
<1>. PICK p : p = Deactivated(m, h, c)
  OBVIOUS
<1>1. /\ MgrOK(p) /\ p.mPendingQ = m.mPendingQ /\ Active(p) = Active(m) \ {c}
      /\ p.mActiveConns = [m.mActiveConns EXCEPT ![h] = @ \ {c}] /\ c \in Conns
  BY DeactivatedOK DEF Books, TypedBooks
<1>2. /\ p.mActiveConns[h] = m.mActiveConns[h] \ {c}
      /\ \A g \in Hosts : g # h => p.mActiveConns[g] = m.mActiveConns[g]
  BY <1>1, MgrTypes DEF Books, TypedBooks, MgrOK
<1>3. \A u \in Transactions : T[u].conn # c
  BY DEF Books, Announced
<1>4. C[c] = None
  BY <1>1, <1>3 DEF Books, TypedBooks, Handles
<1>5. TypedBooks(p, N, R \ {c}, T, C)
  BY <1>1 DEF Books, TypedBooks
<1>6. Handles(p, T, C, w)
  <2>1. ASSUME NEW u \in Transactions, T[u].conn # None
        PROVE  T[u].conn \in p.mActiveConns[T[u].host]
    <3>1. T[u].conn \in m.mActiveConns[T[u].host] /\ T[u].host \in Hosts
      BY <2>1 DEF Books, Handles
    <3> QED BY <1>2, <1>3, <3>1
  <2> QED BY <2>1 DEF Books, Handles
<1>7. Announced(p, N, R \ {c}, T, C)
  BY <1>1 DEF Books, Announced
<1>8. Placed(p, N, T, C)
  BY <1>1 DEF Books, Placed
<1>9. Accounted(p, N, R \ {c}, T, C, w)
  BY <1>1 DEF Books, Accounted
<1>10. Sorted(p, T)
  BY <1>1 DEF Books, Sorted
<1> QED BY <1>5, <1>6, <1>7, <1>8, <1>9, <1>10 DEF Books

\* Nothing but Shutdown's own message may be under way.
LEMMA DownBooks ==
    ASSUME NEW m, NEW T, NEW C, NEW w, Books(m, {}, {}, T, C, w),
           NEW T2 \in [Transactions -> TransType],
           \A u \in Transactions :
             /\ T2[u].host = T[u].host /\ T2[u].conn = T[u].conn
             /\ (\E h \in Hosts : u \in ToSet(m.mPendingQ[h])) => T2[u].state = "error"
             /\ (\A h \in Hosts : u \notin ToSet(m.mPendingQ[h])) => T2[u].state = T[u].state
    PROVE  Books(NoConns, {}, {}, T2, C, "down")
<1>1. MgrOK(NoConns) /\ Active(NoConns) = {} /\ \A h \in Hosts : NoConns.mPendingQ[h] = << >>
  BY NoConnsOK
<1>2. TypedBooks(NoConns, {}, {}, T2, C)
  BY <1>1 DEF Books, TypedBooks
<1>3. ASSUME NEW u \in Transactions, T[u].conn # None
      PROVE  T2[u].state = T[u].state
  BY <1>3 DEF Books, Placed
<1>4. Handles(NoConns, T2, C, "down")
  <2>1. \A u, v \in Transactions : T2[u].conn # None /\ T2[u].conn = T2[v].conn => u = v
    BY DEF Books, Handles
  <2>2. ASSUME NEW d \in Conns, C[d] # None
        PROVE  T2[C[d]].conn = d /\ T2[C[d]].state = "accepted"
    <3>1. C[d] \in Transactions /\ T[C[d]].conn = d /\ d # None
      BY <2>2, NoneIsNothing DEF Books, TypedBooks, Handles
    <3> QED BY <1>3, <2>2, <3>1 DEF Books, Handles
  <2>3. ASSUME NEW u \in Transactions, T2[u].conn # None
        PROVE  T2[u].state \in {"accepted", "ok"} /\ T2[u].host \in Hosts
    BY <1>3, <2>3 DEF Books, Handles
  <2> QED BY <2>1, <2>2, <2>3 DEF Handles
<1>5. Announced(NoConns, {}, {}, T2, C)
  BY DEF Announced
<1>6. Placed(NoConns, {}, T2, C)
  <2>1. ASSUME NEW u \in Transactions, T2[u].state = "accepted"
        PROVE  T2[u].host \in Hosts /\ T2[u].conn # None /\ C[T2[u].conn] = u
    <3>1. (\A h \in Hosts : u \notin ToSet(m.mPendingQ[h])) /\ T[u].state = "accepted"
      BY <2>1
    <3> QED BY <3>1 DEF Books, Placed
  <2>2. \A h \in Hosts : ToSet(NoConns.mPendingQ[h]) = {}
    BY <1>1, EmptyList
  <2> QED BY <2>1, <2>2 DEF Placed
<1>7. Accounted(NoConns, {}, {}, T2, C, "down")
  BY DEF Accounted
<1>8. Sorted(NoConns, T2)
  <2>1. ASSUME NEW h \in Hosts PROVE SortedQ(NoConns.mPendingQ[h], T2)
    <3>1. SortedQ(<< >>, T2)
      BY DEF SortedQ
    <3> QED BY <1>1, <3>1
  <2> QED BY <2>1 DEF Sorted
<1> QED BY <1>2, <1>4, <1>5, <1>6, <1>7, <1>8 DEF Books

LEMMA WaitingBooks ==
    ASSUME NEW m, NEW N, NEW R, NEW T, NEW C, Books(m, N, R, T, C, "run")
    PROVE  Books(m, N, R, T, C, "waiting")
<1>1. Handles(m, T, C, "waiting")
  BY DEF Books, Handles
<1>2. Accounted(m, N, R, T, C, "waiting")
  BY DEF Accounted
<1> QED BY <1>1, <1>2 DEF Books

-----------------------------------------------------------------------------
(* Messages: one announcement of a transaction and one reclaiming of a      *)
(* connection at a time, and Shutdown's message the last.                   *)
Messages ==
    [type : {"new"}, trans : Transactions, priority : Priorities \cup {0}]
      \cup [type : {"resched"}, trans : Transactions, priority : Priorities]
      \cup [type : {"cancel"}, trans : Transactions]
      \cup [type : {"reclaim"}, conn : Conns] \cup [type : {"process"}, host : Hosts]
      \cup [type : {"param"}, limits : Limits]
      \cup [type : {"prune"}] \cup [type : {"shutdown"}]

News(s) == {t \in Transactions : \E i \in DOMAIN s : s[i].type = "new" /\ s[i].trans = t}
Reclaims(s) == {c \in Conns : \E i \in DOMAIN s : s[i].type = "reclaim" /\ s[i].conn = c}

\* The messages s when the main thread is at w.
Mail(s, w) ==
    /\ s \in Seq(Messages)
    /\ \A i, j \in DOMAIN s :
         s[i].type = "new" /\ s[j].type = "new" /\ s[i].trans = s[j].trans => i = j
    /\ \A i, j \in DOMAIN s :
         s[i].type = "reclaim" /\ s[j].type = "reclaim" /\ s[i].conn = s[j].conn => i = j
    /\ \A i \in DOMAIN s : s[i].type = "shutdown" => w = "waiting" /\ i = Len(s)
    /\ w = "waiting" => s # << >> /\ s[Len(s)].type = "shutdown"
    /\ w = "down" => s = << >>

LEMMA MessageFields ==
    ASSUME NEW e \in Messages
    PROVE  /\ e.type = "new" => e.trans \in Transactions /\ e.priority \in Priorities \cup {0}
           /\ e.type = "resched" => e.trans \in Transactions /\ e.priority \in Priorities
           /\ e.type = "cancel" => e.trans \in Transactions
           /\ e.type = "reclaim" => e.conn \in Conns
           /\ e.type = "process" => e.host \in Hosts
           /\ e.type = "param" => e.limits \in Limits
BY DEF Messages

LEMMA PostMail ==
    ASSUME NEW s, Mail(s, "run"), NEW e \in Messages, e.type # "shutdown",
           e.type = "new" => e.trans \notin News(s),
           e.type = "reclaim" => e.conn \notin Reclaims(s)
    PROVE  /\ Mail(s \o <<e>>, "run")
           /\ e.type = "new" => News(s \o <<e>>) = News(s) \cup {e.trans}
           /\ e.type # "new" => News(s \o <<e>>) = News(s)
           /\ e.type = "reclaim" => Reclaims(s \o <<e>>) = Reclaims(s) \cup {e.conn}
           /\ e.type # "reclaim" => Reclaims(s \o <<e>>) = Reclaims(s)
<1>. PICK r : r = s \o <<e>>
  OBVIOUS
<1>1. s \in Seq(Messages) /\ DOMAIN s = 1 .. Len(s) /\ Len(s) \in Nat
  BY DEF Mail
<1>2. /\ r \in Seq(Messages) /\ Len(r) = Len(s) + 1 /\ DOMAIN r = 1 .. Len(s) + 1
      /\ r[Len(s) + 1] = e /\ \A i \in 1 .. Len(s) : r[i] = s[i]
  BY <1>1
<1>3. ASSUME NEW i \in DOMAIN r PROVE (i \in DOMAIN s /\ r[i] = s[i]) \/ (i = Len(s) + 1 /\ r[i] = e)
  BY <1>1, <1>2
<1>4. (e.type = "new" => e.trans \in Transactions) /\ (e.type = "reclaim" => e.conn \in Conns)
  BY MessageFields
<1>5. ASSUME NEW i \in DOMAIN s
      PROVE  /\ i \in DOMAIN r /\ r[i] = s[i]
             /\ s[i].type = "new" => s[i].trans \in News(s)
             /\ s[i].type = "reclaim" => s[i].conn \in Reclaims(s)
  <2>1. s[i] \in Messages
    BY <1>1
  <2> QED BY <1>1, <1>2, <2>1, MessageFields DEF News, Reclaims
<1>6. Len(s) + 1 \in DOMAIN r
  BY <1>1, <1>2
<1>7. Mail(r, "run")
  <2>1. ASSUME NEW i \in DOMAIN r, NEW j \in DOMAIN r,
               \/ r[i].type = "new" /\ r[j].type = "new" /\ r[i].trans = r[j].trans
               \/ r[i].type = "reclaim" /\ r[j].type = "reclaim" /\ r[i].conn = r[j].conn
        PROVE  i = j
    <3>1. CASE i \in DOMAIN s /\ j \in DOMAIN s
      BY <1>5, <2>1, <3>1 DEF Mail
    <3>2. CASE i \in DOMAIN s /\ j \notin DOMAIN s
      BY <1>3, <1>5, <2>1, <3>2
    <3>3. CASE i \notin DOMAIN s /\ j \in DOMAIN s
      BY <1>3, <1>5, <2>1, <3>3
    <3>4. CASE i \notin DOMAIN s /\ j \notin DOMAIN s
      BY <1>3, <3>4
    <3> QED BY <3>1, <3>2, <3>3, <3>4
  <2>2. \A i \in DOMAIN r : r[i].type # "shutdown"
    BY <1>3 DEF Mail
  <2> QED BY <1>2, <2>1, <2>2 DEF Mail
<1>8. ASSUME NEW t \in Transactions
      PROVE  t \in News(r) <=> t \in News(s) \/ (e.type = "new" /\ e.trans = t)
  <2>1. ASSUME t \in News(r) PROVE t \in News(s) \/ (e.type = "new" /\ e.trans = t)
    BY <1>3, <2>1 DEF News
  <2>2. ASSUME t \in News(s) PROVE t \in News(r)
    BY <1>5, <2>2 DEF News
  <2>3. ASSUME e.type = "new", e.trans = t PROVE t \in News(r)
    BY <1>2, <1>6, <2>3 DEF News
  <2> QED BY <2>1, <2>2, <2>3
<1>9. ASSUME NEW c \in Conns
      PROVE  c \in Reclaims(r) <=> c \in Reclaims(s) \/ (e.type = "reclaim" /\ e.conn = c)
  <2>1. ASSUME c \in Reclaims(r) PROVE c \in Reclaims(s) \/ (e.type = "reclaim" /\ e.conn = c)
    BY <1>3, <2>1 DEF Reclaims
  <2>2. ASSUME c \in Reclaims(s) PROVE c \in Reclaims(r)
    BY <1>5, <2>2 DEF Reclaims
  <2>3. ASSUME e.type = "reclaim", e.conn = c PROVE c \in Reclaims(r)
    BY <1>2, <1>6, <2>3 DEF Reclaims
  <2> QED BY <2>1, <2>2, <2>3
<1>10. /\ News(r) \subseteq Transactions /\ News(s) \subseteq Transactions
       /\ Reclaims(r) \subseteq Conns /\ Reclaims(s) \subseteq Conns
  BY DEF News, Reclaims
<1>11. /\ e.type = "new" => News(r) = News(s) \cup {e.trans}
       /\ e.type # "new" => News(r) = News(s)
  BY <1>4, <1>8, <1>10
<1>12. /\ e.type = "reclaim" => Reclaims(r) = Reclaims(s) \cup {e.conn}
       /\ e.type # "reclaim" => Reclaims(r) = Reclaims(s)
  BY <1>4, <1>9, <1>10
<1> QED BY <1>7, <1>11, <1>12

LEMMA TakeMail ==
    ASSUME NEW s, NEW w, Mail(s, w), s # << >>
    PROVE  /\ Head(s) \in Messages /\ w # "down"
           /\ Head(s).type = "new" =>
                Head(s).trans \in News(s) /\ News(Tail(s)) = News(s) \ {Head(s).trans}
           /\ Head(s).type # "new" => News(Tail(s)) = News(s)
           /\ Head(s).type = "reclaim" =>
                Head(s).conn \in Reclaims(s) /\ Reclaims(Tail(s)) = Reclaims(s) \ {Head(s).conn}
           /\ Head(s).type # "reclaim" => Reclaims(Tail(s)) = Reclaims(s)
           /\ Head(s).type # "shutdown" => Mail(Tail(s), w)
           /\ Head(s).type = "shutdown" =>
                w = "waiting" /\ Tail(s) = << >> /\ News(s) = {} /\ Reclaims(s) = {}
<1>. PICK r : r = Tail(s)
  OBVIOUS
<1>. PICK e : e = Head(s)
  OBVIOUS
<1>1. s \in Seq(Messages) /\ DOMAIN s = 1 .. Len(s) /\ Len(s) \in Nat \ {0} /\ w # "down"
  BY DEF Mail
<1>2. /\ r \in Seq(Messages) /\ Len(r) = Len(s) - 1 /\ DOMAIN r = 1 .. Len(s) - 1
      /\ \A i \in 1 .. Len(s) - 1 : r[i] = s[i + 1]
      /\ e = s[1] /\ e \in Messages /\ 1 \in DOMAIN s
  BY <1>1
<1>3. ASSUME NEW i \in DOMAIN r PROVE i \in Nat /\ i + 1 \in DOMAIN s /\ r[i] = s[i + 1] /\ i + 1 # 1
  BY <1>1, <1>2
<1>4. ASSUME NEW i \in DOMAIN s, i # 1 PROVE i - 1 \in DOMAIN r /\ r[i - 1] = s[i]
  BY <1>1, <1>2, <1>4
<1>5. (e.type = "new" => e.trans \in Transactions) /\ (e.type = "reclaim" => e.conn \in Conns)
  BY <1>2, MessageFields
<1>6. ASSUME NEW t \in Transactions
      PROVE  /\ t \in News(s) <=> t \in News(r) \/ (e.type = "new" /\ e.trans = t)
             /\ ~ (t \in News(r) /\ e.type = "new" /\ e.trans = t)
  <2>1. ASSUME t \in News(s) PROVE t \in News(r) \/ (e.type = "new" /\ e.trans = t)
    <3>1. PICK i \in DOMAIN s : s[i].type = "new" /\ s[i].trans = t
      BY <2>1 DEF News
    <3>2. CASE i = 1
      BY <1>2, <3>1, <3>2
    <3>3. CASE i # 1
      BY <1>4, <3>1, <3>3 DEF News
    <3> QED BY <3>2, <3>3
  <2>2. ASSUME t \in News(r) PROVE t \in News(s) /\ ~ (e.type = "new" /\ e.trans = t)
    <3>1. PICK i \in DOMAIN r : r[i].type = "new" /\ r[i].trans = t
      BY <2>2 DEF News
    <3>2. i + 1 \in DOMAIN s /\ s[i + 1].type = "new" /\ s[i + 1].trans = t /\ i + 1 # 1
      BY <1>3, <3>1
    <3>3. t \in News(s)
      BY <3>2 DEF News
    <3>4. ~ (s[1].type = "new" /\ s[1].trans = t)
      BY <1>2, <3>2 DEF Mail
    <3> QED BY <1>2, <3>3, <3>4
  <2>3. ASSUME e.type = "new", e.trans = t PROVE t \in News(s)
    BY <1>2, <2>3 DEF News
  <2> QED BY <2>1, <2>2, <2>3
<1>7. ASSUME NEW c \in Conns
      PROVE  /\ c \in Reclaims(s) <=> c \in Reclaims(r) \/ (e.type = "reclaim" /\ e.conn = c)
             /\ ~ (c \in Reclaims(r) /\ e.type = "reclaim" /\ e.conn = c)
  <2>1. ASSUME c \in Reclaims(s) PROVE c \in Reclaims(r) \/ (e.type = "reclaim" /\ e.conn = c)
    <3>1. PICK i \in DOMAIN s : s[i].type = "reclaim" /\ s[i].conn = c
      BY <2>1 DEF Reclaims
    <3>2. CASE i = 1
      BY <1>2, <3>1, <3>2
    <3>3. CASE i # 1
      BY <1>4, <3>1, <3>3 DEF Reclaims
    <3> QED BY <3>2, <3>3
  <2>2. ASSUME c \in Reclaims(r) PROVE c \in Reclaims(s) /\ ~ (e.type = "reclaim" /\ e.conn = c)
    <3>1. PICK i \in DOMAIN r : r[i].type = "reclaim" /\ r[i].conn = c
      BY <2>2 DEF Reclaims
    <3>2. i + 1 \in DOMAIN s /\ s[i + 1].type = "reclaim" /\ s[i + 1].conn = c /\ i + 1 # 1
      BY <1>3, <3>1
    <3>3. c \in Reclaims(s)
      BY <3>2 DEF Reclaims
    <3>4. ~ (s[1].type = "reclaim" /\ s[1].conn = c)
      BY <1>2, <3>2 DEF Mail
    <3> QED BY <1>2, <3>3, <3>4
  <2>3. ASSUME e.type = "reclaim", e.conn = c PROVE c \in Reclaims(s)
    BY <1>2, <2>3 DEF Reclaims
  <2> QED BY <2>1, <2>2, <2>3
<1>8. /\ News(r) \subseteq Transactions /\ News(s) \subseteq Transactions
      /\ Reclaims(r) \subseteq Conns /\ Reclaims(s) \subseteq Conns
  BY DEF News, Reclaims
<1>9. /\ e.type = "new" => e.trans \in News(s) /\ News(r) = News(s) \ {e.trans}
      /\ e.type # "new" => News(r) = News(s)
  BY <1>5, <1>6, <1>8
<1>10. /\ e.type = "reclaim" => e.conn \in Reclaims(s) /\ Reclaims(r) = Reclaims(s) \ {e.conn}
       /\ e.type # "reclaim" => Reclaims(r) = Reclaims(s)
  BY <1>5, <1>7, <1>8
<1>11. ASSUME e.type # "shutdown" PROVE Mail(r, w)
  <2>1. ASSUME NEW i \in DOMAIN r, NEW j \in DOMAIN r,
               \/ r[i].type = "new" /\ r[j].type = "new" /\ r[i].trans = r[j].trans
               \/ r[i].type = "reclaim" /\ r[j].type = "reclaim" /\ r[i].conn = r[j].conn
        PROVE  i = j
    <3>1. i + 1 = j + 1
      BY <1>3, <2>1 DEF Mail
    <3> QED BY <1>3, <3>1
  <2>2. ASSUME NEW i \in DOMAIN r, r[i].type = "shutdown"
        PROVE  w = "waiting" /\ i = Len(r)
    <3>1. w = "waiting" /\ i + 1 = Len(s)
      BY <1>3, <2>2 DEF Mail
    <3> QED BY <1>2, <1>3, <3>1
  <2>3. ASSUME w = "waiting" PROVE r # << >> /\ r[Len(r)].type = "shutdown"
    <3>1. s[Len(s)].type = "shutdown"
      BY <2>3 DEF Mail
    <3>2. Len(s) # 1
      BY <1>2, <1>11, <3>1
    <3>3. Len(s) \in DOMAIN s /\ Len(s) - 1 \in DOMAIN r /\ r[Len(s) - 1] = s[Len(s)]
      BY <1>1, <1>4, <3>2
    <3>4. Len(r) = Len(s) - 1 /\ Len(r) # 0
      BY <1>1, <1>2, <3>2
    <3> QED BY <3>1, <3>3, <3>4
  <2> QED BY <1>1, <1>2, <2>1, <2>2, <2>3 DEF Mail
<1>12. ASSUME e.type = "shutdown"
       PROVE  w = "waiting" /\ r = << >> /\ News(s) = {} /\ Reclaims(s) = {}
  <2>1. w = "waiting" /\ Len(s) = 1
    BY <1>2, <1>12 DEF Mail
  <2>2. r = << >>
    BY <1>2, <2>1
  <2>3. \A i \in DOMAIN s : s[i].type = "shutdown"
    BY <1>1, <1>2, <1>12, <2>1
  <2> QED BY <2>1, <2>2, <2>3 DEF News, Reclaims
<1> QED BY <1>1, <1>2, <1>9, <1>10, <1>11, <1>12

-----------------------------------------------------------------------------
(* The invariant.                                                           *)
Typed ==
    /\ max \in Limits \cup {InitLimits} /\ mSocketThreadTarget \in BOOLEAN /\ failed \in BOOLEAN
    /\ main \in {"run", "waiting", "down"} /\ events \in 0 .. MaxEvents
    /\ keepAlive \in SUBSET Conns /\ (mSocketThreadTarget <=> main = "run")

\* Messages are about transactions that exist.
Exists(T, t) == T[t].state # "unused" /\ T[t].host \in Hosts

Known(s, T) ==
    \A i \in DOMAIN s : s[i].type \in {"cancel", "resched"} => Exists(T, s[i].trans)

Remain(T, T2) == \A t \in Transactions : Exists(T, t) => Exists(T2, t)

HttpInv ==
    /\ Typed /\ Mail(msgs, main) /\ Known(msgs, trans) /\ NothingStranded
    /\ Books(mgr, News(msgs), Reclaims(msgs), trans, carried, main)

LEMMA LimitTypes ==
    ASSUME Typed
    PROVE  /\ max.conns \in Nat \ {0} /\ max.perHost \in Nat \ {0} /\ max.persist \in Nat \ {0}
BY HttpAssumption DEF Typed, LimitsType

LEMMA KnownPost ==
    ASSUME NEW s \in Seq(Messages), NEW e \in Messages, NEW T, NEW T2, Known(s, T), Remain(T, T2),
           e.type \in {"cancel", "resched"} => Exists(T2, e.trans)
    PROVE  Known(s, T2) /\ Known(s \o <<e>>, T2)
<1>. PICK r : r = s \o <<e>>
  OBVIOUS
<1>1. /\ DOMAIN s = 1 .. Len(s) /\ Len(s) \in Nat /\ DOMAIN r = 1 .. Len(s) + 1
      /\ r[Len(s) + 1] = e /\ \A i \in 1 .. Len(s) : r[i] = s[i] /\ s[i] \in Messages
  OBVIOUS
<1>2. ASSUME NEW i \in DOMAIN s, s[i].type \in {"cancel", "resched"}
      PROVE  Exists(T2, s[i].trans)
  <2>1. s[i].trans \in Transactions
    BY <1>1, <1>2, MessageFields
  <2> QED BY <1>2, <2>1 DEF Known, Remain
<1>3. ASSUME NEW i \in DOMAIN r, r[i].type \in {"cancel", "resched"}
      PROVE  Exists(T2, r[i].trans)
  <2>1. CASE i = Len(s) + 1
    BY <1>1, <1>3, <2>1
  <2>2. CASE i # Len(s) + 1
    <3>1. i \in DOMAIN s /\ r[i] = s[i]
      BY <1>1, <2>2
    <3> QED BY <1>2, <1>3, <3>1
  <2> QED BY <2>1, <2>2
<1> QED BY <1>2, <1>3 DEF Known

LEMMA KnownTail ==
    ASSUME NEW s \in Seq(Messages), s # << >>, NEW T, NEW T2, Known(s, T), Remain(T, T2)
    PROVE  Known(Tail(s), T2)
<1>. PICK r : r = Tail(s)
  OBVIOUS
<1>1. /\ DOMAIN s = 1 .. Len(s) /\ Len(s) \in Nat /\ DOMAIN r = 1 .. Len(s) - 1
      /\ \A i \in 1 .. Len(s) - 1 : r[i] = s[i + 1]
      /\ \A i \in 1 .. Len(s) : s[i] \in Messages
  OBVIOUS
<1>2. ASSUME NEW i \in DOMAIN r, r[i].type \in {"cancel", "resched"}
      PROVE  Exists(T2, r[i].trans)
  <2>1. i + 1 \in DOMAIN s /\ r[i] = s[i + 1] /\ s[i + 1] \in Messages
    BY <1>1
  <2>2. s[i + 1].trans \in Transactions
    BY <1>2, <2>1, MessageFields
  <2> QED BY <1>2, <2>1, <2>2 DEF Known, Remain
<1> QED BY <1>2 DEF Known

LEMMA Initially ==
    ASSUME Init PROVE HttpInv
<1>1. Typed
  <2>1. /\ max = InitLimits /\ mSocketThreadTarget = TRUE /\ failed = FALSE /\ main = "run"
        /\ events = 0 /\ keepAlive = {}
    BY DEF Init
  <2>2. 0 \in 0 .. MaxEvents
    BY HttpAssumption
  <2> QED BY <2>1, <2>2 DEF Typed
<1>2. msgs = << >> /\ main = "run" /\ mgr = NoConns
  BY DEF Init
<1>3. Mail(msgs, main) /\ Known(msgs, trans) /\ News(msgs) = {} /\ Reclaims(msgs) = {}
  BY <1>2 DEF Mail, Known, News, Reclaims
<1>4. MgrOK(NoConns) /\ Active(NoConns) = {} /\ \A h \in Hosts : NoConns.mPendingQ[h] = << >>
  BY NoConnsOK
<1>5. trans \in [Transactions -> TransType] /\ carried \in [Conns -> Transactions \cup {None}]
  <2>1. 0 \in Priorities \cup {0} /\ 0 \in 0 .. MaxRestarts /\ None \in Conns \cup {None}
    BY HttpAssumption
  <2>2. "" \in Hosts \cup {""} /\ {} \in SUBSET {"keep-alive", "sticky"}
    OBVIOUS
  <2>3. Unused \in TransType
    BY <2>1, <2>2 DEF Unused, TransType
  <2> QED BY <2>3 DEF Init
<1>6. /\ \A t \in Transactions : trans[t].conn = None /\ trans[t].state = "unused"
      /\ \A c \in Conns : carried[c] = None
  BY DEF Init, Unused
<1>7. \A h \in Hosts : ToSet(mgr.mPendingQ[h]) = {}
  BY <1>2, <1>4, EmptyList
<1>8. TypedBooks(mgr, {}, {}, trans, carried)
  BY <1>2, <1>4, <1>5 DEF TypedBooks
<1>9. Handles(mgr, trans, carried, main)
  BY <1>6 DEF Handles
<1>10. Announced(mgr, {}, {}, trans, carried)
  BY DEF Announced
<1>11. Placed(mgr, {}, trans, carried)
  BY <1>6, <1>7 DEF Placed
<1>12. Accounted(mgr, {}, {}, trans, carried, main)
  BY <1>2, <1>4 DEF Accounted
<1>13. Sorted(mgr, trans)
  <2>1. SortedQ(<< >>, trans)
    BY DEF SortedQ
  <2> QED BY <1>2, <1>4, <2>1 DEF Sorted
<1>14. NothingStranded
  BY <1>7 DEF NothingStranded, PendingAnywhere
<1> QED BY <1>1, <1>2, <1>3, <1>8, <1>9, <1>10, <1>11, <1>12, <1>13, <1>14 DEF Books, HttpInv

\* How the totals may grow.
Bounded == Total' > Total => Total' <= max.conns

LEMMA SameTotal ==
    ASSUME HttpInv, mgr' = mgr PROVE Bounded
<1>1. Total' = Total
  BY DEF Total
<1>2. Total \in Int
  BY MgrTypes DEF HttpInv, Books, TypedBooks, MgrOK, Total
<1> QED BY <1>1, <1>2 DEF Bounded

\* What does not touch the manager strands nothing.
LEMMA StrandedSame ==
    ASSUME HttpInv, mgr' = mgr, failed' = failed PROVE NothingStranded'
BY DEF HttpInv, NothingStranded, PendingAnywhere, Active

\* A message of the socket thread or of the main thread, before Shutdown or
\* refused after it.
LEMMA Posted ==
    ASSUME HttpInv, main' = main, NEW e \in Messages, e.type # "shutdown", Post(<<e>>),
           e.type = "new" => main = "run" /\ e.trans \notin News(msgs),
           e.type = "reclaim" => e.conn \notin Reclaims(msgs), Remain(trans, trans'),
           e.type \in {"cancel", "resched"} => Exists(trans', e.trans)
    PROVE  /\ Mail(msgs', main') /\ Known(msgs', trans')
           /\ e.type = "new" => News(msgs') = News(msgs) \cup {e.trans}
           /\ e.type # "new" => News(msgs') = News(msgs)
           /\ e.type = "reclaim" /\ main = "run" => Reclaims(msgs') = Reclaims(msgs) \cup {e.conn}
           /\ e.type = "reclaim" /\ main # "run" => Reclaims(msgs') = Reclaims(msgs)
           /\ e.type # "reclaim" => Reclaims(msgs') = Reclaims(msgs)
<1>1. Mail(msgs, main) /\ (mSocketThreadTarget <=> main = "run") /\ msgs \in Seq(Messages)
  BY DEF HttpInv, Typed, Mail
<1>2. Known(msgs, trans') /\ Known(msgs \o <<e>>, trans')
  BY <1>1, KnownPost DEF HttpInv
<1>3. CASE main = "run"
  <2>1. msgs' = msgs \o <<e>>
    BY <1>1, <1>3 DEF Post
  <2>2. Mail(msgs, "run")
    BY <1>1, <1>3
  <2>3. /\ Mail(msgs \o <<e>>, "run")
        /\ e.type = "new" => News(msgs \o <<e>>) = News(msgs) \cup {e.trans}
        /\ e.type # "new" => News(msgs \o <<e>>) = News(msgs)
        /\ e.type = "reclaim" => Reclaims(msgs \o <<e>>) = Reclaims(msgs) \cup {e.conn}
        /\ e.type # "reclaim" => Reclaims(msgs \o <<e>>) = Reclaims(msgs)
    BY <2>2, PostMail
  <2> QED BY <1>2, <1>3, <2>1, <2>3
<1>4. CASE main # "run"
  <2>1. msgs' = msgs
    BY <1>1, <1>4 DEF Post
  <2> QED BY <1>1, <1>2, <1>4, <2>1
<1> QED BY <1>3, <1>4

\* The next message, but for the one that Shutdown sends.
LEMMA Taken ==
    ASSUME HttpInv, NEW type, type # "shutdown", Message(type), Received, main' = main,
           Remain(trans, trans')
    PROVE  /\ Head(msgs) \in Messages /\ Head(msgs).type = type /\ main # "down"
           /\ Mail(msgs', main') /\ Known(msgs', trans')
           /\ type = "new" =>
                Head(msgs).trans \in News(msgs) /\ News(msgs') = News(msgs) \ {Head(msgs).trans}
           /\ type # "new" => News(msgs') = News(msgs)
           /\ type = "reclaim" =>
                /\ Head(msgs).conn \in Reclaims(msgs)
                /\ Reclaims(msgs') = Reclaims(msgs) \ {Head(msgs).conn}
           /\ type # "reclaim" => Reclaims(msgs') = Reclaims(msgs)
<1>1. Mail(msgs, main) /\ Known(msgs, trans) /\ msgs \in Seq(Messages)
  BY DEF HttpInv, Mail
<1>2. msgs # << >> /\ Head(msgs).type = type /\ msgs' = Tail(msgs)
  BY DEF Message, Received
<1>3. Known(Tail(msgs), trans')
  BY <1>1, <1>2, KnownTail
<1>4. /\ Head(msgs) \in Messages /\ main # "down"
      /\ type = "new" =>
           Head(msgs).trans \in News(msgs) /\ News(Tail(msgs)) = News(msgs) \ {Head(msgs).trans}
      /\ type # "new" => News(Tail(msgs)) = News(msgs)
      /\ type = "reclaim" =>
           /\ Head(msgs).conn \in Reclaims(msgs)
           /\ Reclaims(Tail(msgs)) = Reclaims(msgs) \ {Head(msgs).conn}
      /\ type # "reclaim" => Reclaims(Tail(msgs)) = Reclaims(msgs)
      /\ Mail(Tail(msgs), main)
  BY <1>1, <1>2, TakeMail
<1> QED BY <1>2, <1>3, <1>4

-----------------------------------------------------------------------------
(* The steps of the main thread.                                            *)
LEMMA AddStep ==
    ASSUME HttpInv, NEW t \in Transactions, NEW req \in Requests, AddTransaction(t, req)
    PROVE  HttpInv' /\ Bounded
<1>. PICK e : e = [type |-> "new", trans |-> t, priority |-> req.priority]
  OBVIOUS
<1>1. req.host \in Hosts /\ req.priority \in Priorities /\ req.caps \in SUBSET {"keep-alive", "sticky"}
  BY HttpAssumption
<1>2. e \in Messages /\ e.type = "new" /\ e.trans = t
  BY <1>1 DEF Messages
<1>3. /\ main = "run" /\ trans[t].state = "unused" /\ main' = main /\ mgr' = mgr /\ failed' = failed
      /\ carried' = carried
      /\ trans' = [trans EXCEPT ![t].state = "accepted", ![t].host = req.host, ![t].caps = req.caps]
  BY DEF AddTransaction
<1>4. Post(<<e>>)
  BY DEF AddTransaction, New
<1>5. Books(mgr, News(msgs), Reclaims(msgs), trans, carried, main)
  BY DEF HttpInv
<1>6. trans \in [Transactions -> TransType] /\ t \notin News(msgs)
  BY <1>3, <1>5 DEF Books, TypedBooks, Announced
<1>7. /\ trans' \in [Transactions -> TransType]
      /\ \A u \in Transactions : u # t => trans'[u] = trans[u]
      /\ trans'[t].state = "accepted" /\ trans'[t].host = req.host /\ trans'[t].conn = trans[t].conn
  <2>1. trans[t] \in TransType
    BY <1>6
  <2>2. trans'[t] = [trans[t] EXCEPT !.state = "accepted", !.host = req.host, !.caps = req.caps]
    BY <1>3, <1>6
  <2>3. trans'[t] \in TransType /\ trans'[t].state = "accepted" /\ trans'[t].host = req.host
        /\ trans'[t].conn = trans[t].conn
    BY <1>1, <2>1, <2>2 DEF TransType
  <2>4. trans' = [trans EXCEPT ![t] = trans'[t]]
    BY <1>3, <1>6, <2>2
  <2> QED BY <1>6, <2>3, <2>4
<1>8. Remain(trans, trans')
  BY <1>1, <1>7 DEF Remain, Exists
<1>9. Mail(msgs', main') /\ Known(msgs', trans') /\ News(msgs') = News(msgs) \cup {t}
      /\ Reclaims(msgs') = Reclaims(msgs)
  BY <1>2, <1>3, <1>4, <1>6, <1>8, Posted
<1>10. trans[t].conn = None
  BY <1>3, <1>5 DEF Books, Handles
<1>11. Books(mgr, News(msgs) \cup {t}, Reclaims(msgs), trans', carried, main)
  <2>1. trans[t].state = "unused" /\ trans'[t].conn = None /\ trans'[t].host \in Hosts
    BY <1>1, <1>3, <1>7, <1>10
  <2> QED BY <1>5, <1>7, <2>1, AcceptBooks
<1>12. Books(mgr', News(msgs'), Reclaims(msgs'), trans', carried', main')
  BY <1>3, <1>9, <1>11
<1>13. Typed'
  BY DEF HttpInv, Typed, AddTransaction
<1> QED BY <1>3, <1>9, <1>12, <1>13, StrandedSame, SameTotal DEF HttpInv

\* What a step does to one transaction.
LEMMA Edited ==
    ASSUME NEW t \in Transactions, trans \in [Transactions -> TransType], NEW v \in TransType,
           v.host = trans[t].host, trans' = [trans EXCEPT ![t] = v],
           v.state = "unused" => trans[t].state = "unused"
    PROVE  Changed(trans, trans', t) /\ trans'[t] = v /\ Remain(trans, trans')
<1>1. trans' \in [Transactions -> TransType] /\ trans'[t] = v
  OBVIOUS
<1>2. \A u \in Transactions : u # t => trans'[u] = trans[u]
  OBVIOUS
<1> QED BY <1>1, <1>2 DEF Changed, Remain, Exists

LEMMA Closes ==
    ASSUME NEW t \in Transactions, trans \in [Transactions -> TransType],
           NEW state \in {"ok", "error"}, Close(t, state)
    PROVE  /\ Changed(trans, trans', t) /\ Remain(trans, trans')
           /\ trans'[t].state = state /\ trans'[t].priority = trans[t].priority
           /\ trans'[t].conn = IF KeepsHandle(t, state) THEN trans[t].conn ELSE None
<1>. PICK k : k = IF KeepsHandle(t, state) THEN trans[t].conn ELSE None
  OBVIOUS
<1>. PICK v : v = [trans[t] EXCEPT !.state = state, !.conn = k]
  OBVIOUS
<1>1. trans[t] \in TransType
  OBVIOUS
<1>2. k \in Conns \cup {None}
  BY <1>1 DEF TransType
<1>3. /\ v \in TransType /\ v.host = trans[t].host /\ v.priority = trans[t].priority
      /\ v.state = state /\ v.conn = k
  BY <1>1, <1>2 DEF TransType
<1>4. trans' = [trans EXCEPT ![t] = v]
  BY DEF Close
<1>5. Changed(trans, trans', t) /\ trans'[t] = v /\ Remain(trans, trans')
  BY <1>3, <1>4, Edited
<1> QED BY <1>3, <1>5

LEMMA LosesConn ==
    ASSUME NEW t \in Transactions, trans \in [Transactions -> TransType],
           trans' = [trans EXCEPT ![t].conn = None], trans[t].state # "unused"
    PROVE  /\ Changed(trans, trans', t) /\ Remain(trans, trans') /\ trans'[t].conn = None
           /\ trans'[t].state = trans[t].state /\ trans'[t].priority = trans[t].priority
<1>. PICK v : v = [trans[t] EXCEPT !.conn = None]
  OBVIOUS
<1>1. trans[t] \in TransType
  OBVIOUS
<1>2. /\ v \in TransType /\ v.host = trans[t].host /\ v.priority = trans[t].priority
      /\ v.state = trans[t].state /\ v.conn = None
  BY <1>1 DEF TransType
<1>3. trans' = [trans EXCEPT ![t] = v]
  OBVIOUS
<1>4. Changed(trans, trans', t) /\ trans'[t] = v /\ Remain(trans, trans')
  BY <1>2, <1>3, Edited
<1> QED BY <1>2, <1>4

LEMMA Prioritizes ==
    ASSUME NEW t \in Transactions, trans \in [Transactions -> TransType],
           Head(msgs).priority \in Priorities \cup {0}, trans' = Prioritized(t)
    PROVE  /\ Changed(trans, trans', t) /\ Remain(trans, trans') /\ trans'[t].conn = trans[t].conn
           /\ trans'[t].state = trans[t].state
<1>. PICK v : v = [trans[t] EXCEPT !.priority = Head(msgs).priority]
  OBVIOUS
<1>1. trans[t] \in TransType
  OBVIOUS
<1>2. /\ v \in TransType /\ v.host = trans[t].host
      /\ v.state = trans[t].state /\ v.conn = trans[t].conn
  BY <1>1 DEF TransType
<1>3. trans' = [trans EXCEPT ![t] = v]
  BY DEF Prioritized
<1>4. Changed(trans, trans', t) /\ trans'[t] = v /\ Remain(trans, trans')
  BY <1>2, <1>3, Edited
<1> QED BY <1>2, <1>4

LEMMA GetsConn ==
    ASSUME NEW t \in Transactions, trans \in [Transactions -> TransType], NEW c \in Conns,
           NEW p \in Priorities \cup {0},
           \/ trans' = [trans EXCEPT ![t].conn = c]
           \/ trans' = [[trans EXCEPT ![t].priority = p] EXCEPT ![t].conn = c]
    PROVE  /\ Changed(trans, trans', t) /\ Remain(trans, trans') /\ trans'[t].conn = c
           /\ trans'[t].state = trans[t].state
<1>1. trans[t] \in TransType
  OBVIOUS
<1>2. PICK v : v = trans'[t]
  OBVIOUS
<1>3. v = [trans[t] EXCEPT !.conn = c] \/ v = [trans[t] EXCEPT !.priority = p, !.conn = c]
  BY <1>2
<1>4. /\ v \in TransType /\ v.host = trans[t].host
      /\ v.state = trans[t].state /\ v.conn = c
  <2>1. CASE v = [trans[t] EXCEPT !.conn = c]
    BY <1>1, <2>1 DEF TransType
  <2>2. CASE v = [trans[t] EXCEPT !.priority = p, !.conn = c]
    BY <1>1, <2>2 DEF TransType
  <2> QED BY <1>3, <2>1, <2>2
<1>5. trans' = [trans EXCEPT ![t] = v]
  BY <1>2
<1>6. Changed(trans, trans', t) /\ trans'[t] = v /\ Remain(trans, trans')
  BY <1>4, <1>5, Edited
<1> QED BY <1>4, <1>6

LEMMA SameTrans ==
    ASSUME trans' = trans PROVE Remain(trans, trans')
BY DEF Remain

\* Everything that the invariant says of other variables.
LEMMA Sorts ==
    ASSUME HttpInv
    PROVE  /\ Typed /\ Mail(msgs, main) /\ Known(msgs, trans) /\ NothingStranded
           /\ Books(mgr, News(msgs), Reclaims(msgs), trans, carried, main)
           /\ MgrOK(mgr) /\ trans \in [Transactions -> TransType]
           /\ carried \in [Conns -> Transactions \cup {None}] /\ msgs \in Seq(Messages)
           /\ (mSocketThreadTarget <=> main = "run")
BY DEF HttpInv, Books, TypedBooks, Mail, Typed

LEMMA RetryStep ==
    ASSUME HttpInv, NEW t \in Transactions, NEW u \in Transactions, NEW p \in Priorities,
           DoAuthRetry(t, u, p)
    PROVE  HttpInv' /\ Bounded
<1>. PICK e : e = [type |-> "new", trans |-> u, priority |-> p]
  OBVIOUS
<1>. PICK v : v = [trans[t] EXCEPT !.conn = None]
  OBVIOUS
<1>. PICK x : x = [trans[t] EXCEPT !.state = "accepted", !.priority = 0, !.restarts = 0]
  OBVIOUS
<1>. PICK c : c = trans[t].conn
  OBVIOUS
<1>1. e \in Messages /\ e.type = "new" /\ e.trans = u
  BY DEF Messages
<1>2. /\ main = "run" /\ trans[t].state = "ok" /\ trans[u].state = "unused" /\ c # None
      /\ main' = main /\ mgr' = mgr /\ failed' = failed /\ carried' = carried
      /\ trans' = [trans EXCEPT ![t].conn = None,
                     ![u] = [trans[t] EXCEPT !.state = "accepted", !.priority = 0, !.restarts = 0]]
  BY DEF DoAuthRetry
<1>3. Post(<<e>>)
  BY DEF DoAuthRetry, New
<1>4. /\ Books(mgr, News(msgs), Reclaims(msgs), trans, carried, main)
      /\ trans \in [Transactions -> TransType] /\ trans[t] \in TransType
  BY Sorts
<1>5. t # u /\ c \in Conns /\ 0 \in 0 .. MaxRestarts
  <2>1. c \in Conns
    BY <1>2, <1>4 DEF TransType
  <2>2. 0 \in 0 .. MaxRestarts
    BY HttpAssumption
  <2> QED BY <1>2, <2>1, <2>2
<1>6. v \in TransType /\ v.conn = None /\ v.state = "ok" /\ v.host = trans[t].host
  BY <1>2, <1>4 DEF TransType
<1>7. x \in TransType /\ x.conn = c /\ x.state = "accepted" /\ x.host = trans[t].host
  BY <1>4, <1>5 DEF TransType
<1>8. trans' = [[trans EXCEPT ![t] = v] EXCEPT ![u] = x]
  BY <1>2, <1>4, <1>5
<1>9. /\ trans' \in [Transactions -> TransType] /\ trans'[t] = v /\ trans'[u] = x
      /\ \A y \in Transactions : y # t /\ y # u => trans'[y] = trans[y]
  BY <1>4, <1>5, <1>6, <1>7, <1>8
<1>10. Remain(trans, trans')
  <2>1. /\ trans'[t].conn = None /\ trans'[t].state = "ok" /\ trans'[t].host = trans[t].host
        /\ trans'[u].conn = c /\ trans'[u].state = "accepted" /\ trans'[u].host = trans[t].host
    BY <1>6, <1>7, <1>9
  <2>2. trans[t].host \in Hosts
    BY <1>2, <1>4 DEF Books, Handles
  <2> QED BY <1>2, <1>9, <2>1, <2>2 DEF Remain, Exists
<1>11. u \notin News(msgs)
  BY <1>2, <1>4 DEF Books, Announced
<1>12. /\ Mail(msgs', main') /\ Known(msgs', trans') /\ News(msgs') = News(msgs) \cup {u}
       /\ Reclaims(msgs') = Reclaims(msgs)
  BY <1>1, <1>2, <1>3, <1>10, <1>11, Posted
<1>13. Books(mgr, News(msgs) \cup {u}, Reclaims(msgs), trans', carried, main)
  <2>1. /\ trans'[t].conn = None /\ trans'[t].state = "ok" /\ trans'[t].host = trans[t].host
        /\ trans'[u].conn = c /\ trans'[u].state = "accepted" /\ trans'[u].host = trans[t].host
    BY <1>6, <1>7, <1>9
  <2>2. trans[t].conn = c /\ trans[t].state = "ok" /\ trans[u].state = "unused" /\ c \in Conns
    BY <1>2, <1>5
  <2>. PICK T2 : T2 = trans'
    OBVIOUS
  <2>. PICK N : N = News(msgs)
    OBVIOUS
  <2>. PICK R : R = Reclaims(msgs)
    OBVIOUS
  <2>3. Books(mgr, N, R, trans, carried, main)
    BY <1>4
  <2>4. /\ T2 \in [Transactions -> TransType]
        /\ \A y \in Transactions : y # t /\ y # u => T2[y] = trans[y]
        /\ T2[t].conn = None /\ T2[t].state = "ok" /\ T2[t].host = trans[t].host
        /\ T2[u].conn = c /\ T2[u].state = "accepted" /\ T2[u].host = trans[t].host
    BY <1>9, <2>1
  <2>5. Books(mgr, N \cup {u}, R, T2, carried, main)
    BY <2>2, <2>3, <2>4, RetryBooks
  <2> QED BY <2>5
<1>14. Books(mgr', News(msgs'), Reclaims(msgs'), trans', carried', main')
  BY <1>2, <1>12, <1>13
<1>15. Typed'
  BY DEF HttpInv, Typed, DoAuthRetry
<1> QED BY <1>2, <1>12, <1>14, <1>15, StrandedSame, SameTotal DEF HttpInv

LEMMA ReleaseStep ==
    ASSUME HttpInv, NEW t \in Transactions, ReleaseTransaction(t)
    PROVE  HttpInv' /\ Bounded
<1>. PICK c : c = trans[t].conn
  OBVIOUS
<1>. PICK e : e = [type |-> "reclaim", conn |-> c]
  OBVIOUS
<1>1. /\ trans[t].state = "ok" /\ c # None
      /\ main' = main /\ mgr' = mgr /\ failed' = failed /\ carried' = carried
      /\ trans' = [trans EXCEPT ![t].conn = None] /\ Post(<<e>>)
  BY DEF ReleaseTransaction, Reclaim
<1>2. /\ Books(mgr, News(msgs), Reclaims(msgs), trans, carried, main)
      /\ trans \in [Transactions -> TransType] /\ trans[t] \in TransType
      /\ carried \in [Conns -> Transactions \cup {None}]
  BY Sorts
<1>3. c \in Conns
  BY <1>1, <1>2 DEF TransType
<1>4. e \in Messages /\ e.type = "reclaim" /\ e.conn = c
  BY <1>3 DEF Messages
<1>5. /\ Changed(trans, trans', t) /\ Remain(trans, trans') /\ trans'[t].conn = None
      /\ trans'[t].state = "ok" /\ trans'[t].priority = trans[t].priority
  BY <1>1, <1>2, LosesConn
<1>6. c \notin Reclaims(msgs) /\ t \notin News(msgs)
  BY <1>1, <1>2 DEF Books, Announced
<1>7. /\ Mail(msgs', main') /\ Known(msgs', trans') /\ News(msgs') = News(msgs)
      /\ main = "run" => Reclaims(msgs') = Reclaims(msgs) \cup {c}
      /\ main # "run" => Reclaims(msgs') = Reclaims(msgs)
  BY <1>1, <1>4, <1>5, <1>6, Posted
<1>8. carried[c] = None
  BY <1>1, <1>2, <1>3, NotCarrying
<1>9. Carried(carried, carried, c, None)
  BY <1>2, <1>8 DEF Carried
<1>10. Books(mgr, News(msgs), Reclaims(msgs'), trans', carried, main)
  <2>. PICK R2 : R2 = Reclaims(msgs')
    OBVIOUS
  <2>1. (main = "run" /\ R2 = Reclaims(msgs) \cup {c}) \/ (main # "run" /\ R2 = Reclaims(msgs))
    BY <1>7
  <2>2. Books(mgr, News(msgs), R2, trans', carried, main)
    BY <1>2, <1>3, <1>5, <1>6, <1>9, <2>1, DropBooks
  <2> QED BY <2>2
<1>11. Books(mgr', News(msgs'), Reclaims(msgs'), trans', carried', main')
  BY <1>1, <1>7, <1>10
<1>12. Typed'
  BY DEF HttpInv, Typed, ReleaseTransaction
<1> QED BY <1>1, <1>7, <1>11, <1>12, StrandedSame, SameTotal DEF HttpInv

LEMMA CallStep ==
    ASSUME HttpInv, NEW e \in Messages, e.type \in {"resched", "cancel", "param", "prune"},
           e.type \in {"resched", "cancel"} => trans[e.trans].state = "accepted", Call(e)
    PROVE  HttpInv' /\ Bounded
<1>1. /\ main' = main /\ mgr' = mgr /\ failed' = failed /\ carried' = carried /\ trans' = trans
      /\ Post(<<e>>)
  BY DEF Call
<1>2. /\ Mail(msgs', main') /\ Known(msgs', trans') /\ News(msgs') = News(msgs)
      /\ Reclaims(msgs') = Reclaims(msgs)
  <2>1. /\ e.type # "new" /\ e.type # "reclaim" /\ e.type # "shutdown" /\ Remain(trans, trans')
    BY <1>1, SameTrans
  <2>2. ASSUME e.type \in {"cancel", "resched"} PROVE Exists(trans', e.trans)
    <3>1. e.trans \in Transactions /\ trans[e.trans].state = "accepted"
      BY <2>2, MessageFields
    <3>2. trans[e.trans].host \in Hosts
      BY <3>1, Sorts DEF Books, Placed
    <3> QED BY <1>1, <3>1, <3>2 DEF Exists
  <2> QED BY <1>1, <2>1, <2>2, Posted
<1>3. Books(mgr', News(msgs'), Reclaims(msgs'), trans', carried', main')
  BY <1>1, <1>2, Sorts
<1>4. Typed'
  <2>1. events' \in 0 .. MaxEvents
    BY HttpAssumption DEF HttpInv, Typed, Call
  <2> QED BY <2>1 DEF HttpInv, Typed, Call
<1> QED BY <1>1, <1>2, <1>3, <1>4, StrandedSame, SameTotal DEF HttpInv

LEMMA ShutdownStep ==
    ASSUME HttpInv, Shutdown
    PROVE  HttpInv' /\ Bounded
<1>. PICK e : e = [type |-> "shutdown"]
  OBVIOUS
<1>. PICK r : r = msgs'
  OBVIOUS
<1>1. /\ main = "run" /\ main' = "waiting" /\ mgr' = mgr /\ failed' = failed /\ carried' = carried
      /\ trans' = trans /\ Post(<<e>>) /\ mSocketThreadTarget' = FALSE
      /\ max' = max /\ keepAlive' = keepAlive /\ events' = events
  BY DEF Shutdown, AnnounceShutdown
<1>2. Mail(msgs, "run") /\ msgs \in Seq(Messages) /\ mSocketThreadTarget /\ Known(msgs, trans)
  BY <1>1, Sorts
<1>3. e \in Messages /\ e.type = "shutdown"
  BY DEF Messages
<1>4. r = msgs \o <<e>>
  BY <1>1, <1>2 DEF Post
<1>5. /\ DOMAIN msgs = 1 .. Len(msgs) /\ Len(msgs) \in Nat
      /\ r \in Seq(Messages) /\ Len(r) = Len(msgs) + 1 /\ DOMAIN r = 1 .. Len(msgs) + 1
      /\ r[Len(msgs) + 1] = e /\ \A i \in 1 .. Len(msgs) : r[i] = msgs[i]
  BY <1>2, <1>3, <1>4
<1>6. ASSUME NEW i \in DOMAIN r
      PROVE  (i \in DOMAIN msgs /\ r[i] = msgs[i]) \/ (i = Len(r) /\ r[i] = e)
  BY <1>5
<1>7. ASSUME NEW i \in DOMAIN msgs PROVE i \in DOMAIN r /\ r[i] = msgs[i] /\ r[i].type # "shutdown"
  BY <1>2, <1>5 DEF Mail
<1>8. Mail(r, "waiting")
  <2>1. ASSUME NEW i \in DOMAIN r, NEW j \in DOMAIN r,
               \/ r[i].type = "new" /\ r[j].type = "new" /\ r[i].trans = r[j].trans
               \/ r[i].type = "reclaim" /\ r[j].type = "reclaim" /\ r[i].conn = r[j].conn
        PROVE  i = j
    <3>1. i \in DOMAIN msgs /\ j \in DOMAIN msgs /\ r[i] = msgs[i] /\ r[j] = msgs[j]
      BY <1>3, <1>6, <2>1
    <3> QED BY <1>2, <2>1, <3>1 DEF Mail
  <2>2. \A i \in DOMAIN r : r[i].type = "shutdown" => i = Len(r)
    BY <1>6, <1>7
  <2>3. r # << >> /\ r[Len(r)].type = "shutdown"
    BY <1>3, <1>5
  <2> QED BY <1>5, <2>1, <2>2, <2>3 DEF Mail
<1>9. News(r) = News(msgs) /\ Reclaims(r) = Reclaims(msgs)
  BY <1>3, <1>6, <1>7 DEF News, Reclaims
<1>10. Known(r, trans')
  <2>1. Remain(trans, trans')
    BY <1>1, SameTrans
  <2> QED BY <1>2, <1>3, <1>4, <2>1, KnownPost
<1>11. Books(mgr, News(msgs), Reclaims(msgs), trans, carried, "waiting")
  <2>1. Books(mgr, News(msgs), Reclaims(msgs), trans, carried, "run")
    BY <1>1, Sorts
  <2> QED BY <2>1, WaitingBooks
<1>12. Books(mgr', News(msgs'), Reclaims(msgs'), trans', carried', main')
  BY <1>1, <1>9, <1>11
<1>13. Typed'
  BY <1>1 DEF HttpInv, Typed
<1> QED BY <1>1, <1>8, <1>10, <1>12, <1>13, StrandedSame, SameTotal DEF HttpInv
-----------------------------------------------------------------------------
(* What sockets report.                                                     *)
LEMMA CarriedOne ==
    ASSUME HttpInv, NEW c \in Conns, carried[c] # None
    PROVE  /\ carried[c] \in Transactions /\ trans[carried[c]].conn = c
           /\ trans[carried[c]].state = "accepted" /\ trans[carried[c]] \in TransType
           /\ carried[c] \notin News(msgs) /\ c \notin Reclaims(msgs)
<1>1. /\ Books(mgr, News(msgs), Reclaims(msgs), trans, carried, main)
      /\ trans \in [Transactions -> TransType] /\ carried \in [Conns -> Transactions \cup {None}]
  BY Sorts
<1>2. carried[c] \in Transactions
  BY <1>1
<1>3. trans[carried[c]].conn = c /\ trans[carried[c]].state = "accepted"
  BY <1>1 DEF Books, Handles
<1>4. carried[c] \notin News(msgs) /\ c \notin Reclaims(msgs)
  BY <1>1, <1>2, <1>3 DEF Books, Announced
<1> QED BY <1>1, <1>2, <1>3, <1>4

LEMMA SetFree ==
    ASSUME HttpInv, NEW c \in Conns, carried' = [carried EXCEPT ![c] = None]
    PROVE  Carried(carried, carried', c, None)
<1>1. carried \in [Conns -> Transactions \cup {None}]
  BY Sorts
<1> QED BY <1>1 DEF Carried

LEMMA CloseStep ==
    ASSUME HttpInv, NEW c \in Conns, NEW state \in {"ok", "error"}, CloseTransaction(c, state)
    PROVE  HttpInv' /\ Bounded
<1>. PICK t : t = carried[c]
  OBVIOUS
<1>. PICK N : N = News(msgs)
  OBVIOUS
<1>. PICK R : R = Reclaims(msgs)
  OBVIOUS
<1>. PICK R2 : R2 = Reclaims(msgs')
  OBVIOUS
<1>1. /\ t # None /\ Close(t, state) /\ carried' = [carried EXCEPT ![c] = None]
      /\ Post(IF KeepsHandle(t, state) THEN <<>> ELSE Reclaim(c))
      /\ main' = main /\ mgr' = mgr /\ failed' = failed
  BY DEF CloseTransaction
<1>2. /\ Books(mgr, N, R, trans, carried, main)
      /\ trans \in [Transactions -> TransType] /\ msgs \in Seq(Messages) /\ Mail(msgs, main)
      /\ Known(msgs, trans)
  BY Sorts
<1>3. /\ t \in Transactions /\ trans[t].conn = c /\ trans[t].state = "accepted"
      /\ t \notin N /\ c \notin R
  BY <1>1, CarriedOne
<1>4. /\ Changed(trans, trans', t) /\ Remain(trans, trans')
      /\ trans'[t].state = state /\ trans'[t].priority = trans[t].priority
      /\ trans'[t].conn = IF KeepsHandle(t, state) THEN trans[t].conn ELSE None
  BY <1>1, <1>2, <1>3, Closes
<1>5. Carried(carried, carried', c, None)
  BY <1>1, SetFree
<1>6. ASSUME KeepsHandle(t, state)
      PROVE  Books(mgr', News(msgs'), Reclaims(msgs'), trans', carried', main')
             /\ Mail(msgs', main') /\ Known(msgs', trans')
  <2>1. state = "ok"
    BY <1>6 DEF KeepsHandle
  <2>2. msgs' = msgs
    BY <1>1, <1>2, <1>6 DEF Post
  <2>3. trans'[t].conn = trans[t].conn /\ carried[c] = t
    BY <1>4, <1>6
  <2>4. Books(mgr, N, R, trans', carried', main)
    BY <1>2, <1>3, <1>4, <1>5, <2>1, <2>3, KeepBooks
  <2>5. Known(msgs, trans')
    <3>1. [type |-> "prune"] \in Messages /\ [type |-> "prune"].type = "prune"
      BY DEF Messages
    <3>2. Known(msgs, trans') /\ Known(msgs \o <<[type |-> "prune"]>>, trans')
      BY <1>2, <1>4, <3>1, KnownPost
    <3> QED BY <3>2
  <2> QED BY <1>1, <1>2, <2>2, <2>4, <2>5
<1>7. ASSUME ~ KeepsHandle(t, state)
      PROVE  Books(mgr', News(msgs'), Reclaims(msgs'), trans', carried', main')
             /\ Mail(msgs', main') /\ Known(msgs', trans')
  <2>. PICK e : e = [type |-> "reclaim", conn |-> c]
    OBVIOUS
  <2>1. e \in Messages /\ e.type = "reclaim" /\ e.conn = c
    BY DEF Messages
  <2>2. Post(<<e>>) /\ trans'[t].conn = None
    BY <1>1, <1>4, <1>7 DEF Reclaim
  <2>3. /\ Mail(msgs', main') /\ Known(msgs', trans') /\ News(msgs') = N
        /\ main = "run" => R2 = R \cup {c}
        /\ main # "run" => R2 = R
    BY <1>1, <1>3, <1>4, <2>1, <2>2, Posted
  <2>4. \/ trans'[t].state = "error"
        \/ trans'[t].state = "ok" /\ t \notin N
    BY <1>3, <1>4
  <2>5. (main = "run" /\ R2 = R \cup {c}) \/ (main # "run" /\ R2 = R)
    BY <2>3
  <2>6. Books(mgr, N, R2, trans', carried', main)
    BY <1>2, <1>3, <1>4, <1>5, <2>2, <2>4, <2>5, DropBooks
  <2> QED BY <1>1, <2>3, <2>6
<1>8. Books(mgr', News(msgs'), Reclaims(msgs'), trans', carried', main')
      /\ Mail(msgs', main') /\ Known(msgs', trans')
  BY <1>6, <1>7
<1>9. Typed'
  BY DEF HttpInv, Typed, CloseTransaction
<1> QED BY <1>1, <1>8, <1>9, StrandedSame, SameTotal DEF HttpInv

LEMMA RestartStep ==
    ASSUME HttpInv, NEW c \in Conns, Restart(c)
    PROVE  HttpInv' /\ Bounded
<1>. PICK t : t = carried[c]
  OBVIOUS
<1>. PICK N : N = News(msgs)
  OBVIOUS
<1>. PICK R : R = Reclaims(msgs)
  OBVIOUS
<1>. PICK a : a = [type |-> "reclaim", conn |-> c]
  OBVIOUS
<1>. PICK b : b = [type |-> "new", trans |-> t, priority |-> trans[t].priority]
  OBVIOUS
<1>1. /\ t # None /\ trans[t].restarts < MaxRestarts /\ mSocketThreadTarget
      /\ trans' = [trans EXCEPT ![t].conn = None, ![t].restarts = @ + 1]
      /\ carried' = [carried EXCEPT ![c] = None]
      /\ main' = main /\ mgr' = mgr /\ failed' = failed /\ Post(<<a>> \o <<b>>)
  BY DEF Restart, Reclaim, New
<1>2. /\ Books(mgr, N, R, trans, carried, main)
      /\ trans \in [Transactions -> TransType] /\ msgs \in Seq(Messages) /\ Mail(msgs, main)
      /\ Known(msgs, trans) /\ main = "run"
  BY <1>1, Sorts
<1>3. /\ t \in Transactions /\ trans[t].conn = c /\ trans[t].state = "accepted"
      /\ t \notin N /\ c \notin R /\ trans[t] \in TransType
  BY <1>1, CarriedOne
<1>4. /\ a \in Messages /\ a.type = "reclaim" /\ a.conn = c
      /\ b \in Messages /\ b.type = "new" /\ b.trans = t
  <2>1. trans[t].priority \in Priorities \cup {0}
    BY <1>3 DEF TransType
  <2> QED BY <1>3, <2>1 DEF Messages
<1>5. /\ Changed(trans, trans', t) /\ Remain(trans, trans') /\ trans'[t].conn = None
      /\ trans'[t].state = trans[t].state /\ trans'[t].priority = trans[t].priority
  <2>. PICK v : v = [trans[t] EXCEPT !.conn = None, !.restarts = @ + 1]
    OBVIOUS
  <2>1. trans[t].restarts \in 0 .. MaxRestarts /\ MaxRestarts \in Nat
    BY <1>3, HttpAssumption DEF TransType
  <2>2. trans[t].restarts + 1 \in 0 .. MaxRestarts
    BY <1>1, <2>1
  <2>3. /\ v \in TransType /\ v.host = trans[t].host /\ v.priority = trans[t].priority
        /\ v.state = trans[t].state /\ v.conn = None
    BY <1>3, <2>2 DEF TransType
  <2>4. trans' = [trans EXCEPT ![t] = v]
    BY <1>1
  <2>5. v.state = "unused" => trans[t].state = "unused"
    BY <2>3
  <2>6. Changed(trans, trans', t) /\ trans'[t] = v /\ Remain(trans, trans')
    BY <1>2, <1>3, <2>3, <2>4, <2>5, Edited
  <2> QED BY <2>3, <2>6
<1>6. Carried(carried, carried', c, None)
  BY <1>1, SetFree
<1>. PICK s : s = msgs \o <<a>>
  OBVIOUS
<1>7. s \in Seq(Messages) /\ Mail(s, "run") /\ News(s) = N /\ Reclaims(s) = R \cup {c}
  <2>1. /\ Mail(msgs \o <<a>>, "run") /\ News(msgs \o <<a>>) = News(msgs)
        /\ Reclaims(msgs \o <<a>>) = Reclaims(msgs) \cup {a.conn}
    <3>1. a.type # "shutdown" /\ a.type # "new" /\ a.conn \notin Reclaims(msgs)
      BY <1>3, <1>4
    <3> QED BY <1>2, <1>4, <3>1, PostMail
  <2> QED BY <1>2, <1>4, <2>1
<1>8. Known(s, trans')
  <2>1. a.type \notin {"cancel", "resched"}
    BY <1>4
  <2>2. Known(msgs \o <<a>>, trans')
    BY <1>2, <1>4, <1>5, <2>1, KnownPost
  <2> QED BY <2>2
<1>9. msgs' = s \o <<b>>
  <2>1. msgs' = msgs \o (<<a>> \o <<b>>)
    BY <1>1 DEF Post
  <2>2. msgs \o (<<a>> \o <<b>>) = (msgs \o <<a>>) \o <<b>>
    BY <1>2, <1>4
  <2> QED BY <2>1, <2>2
<1>10. Mail(s \o <<b>>, "run") /\ News(s \o <<b>>) = N \cup {t} /\ Reclaims(s \o <<b>>) = R \cup {c}
  <2>1. /\ b \in Messages /\ b.type # "shutdown" /\ b.type = "new" /\ b.type # "reclaim"
        /\ b.trans \notin News(s) /\ Mail(s, "run")
    BY <1>3, <1>4, <1>7
  <2>2. /\ Mail(s \o <<b>>, "run") /\ News(s \o <<b>>) = News(s) \cup {b.trans}
        /\ Reclaims(s \o <<b>>) = Reclaims(s)
    BY <2>1, PostMail, SMTT(20)
  <2> QED BY <1>4, <1>7, <2>2
<1>11. Known(s \o <<b>>, trans')
  <2>1. b.type \notin {"cancel", "resched"} /\ Remain(trans', trans')
    BY <1>4 DEF Remain
  <2> QED BY <1>4, <1>7, <1>8, <2>1, KnownPost
<1>12. Books(mgr, N \cup {t}, R \cup {c}, trans', carried', "run")
  <2>1. Books(mgr, N, R, trans, carried, "run") /\ carried[c] = t
    BY <1>2
  <2> QED BY <1>3, <1>5, <1>6, <2>1, RestartBooks
<1>13. Books(mgr', News(msgs'), Reclaims(msgs'), trans', carried', main')
       /\ Mail(msgs', main') /\ Known(msgs', trans')
  BY <1>1, <1>2, <1>9, <1>10, <1>11, <1>12
<1>14. Typed'
  <2>1. events' \in 0 .. MaxEvents /\ keepAlive' \in SUBSET Conns
    BY HttpAssumption DEF HttpInv, Typed, Restart
  <2> QED BY <2>1 DEF HttpInv, Typed, Restart
<1> QED BY <1>1, <1>13, <1>14, StrandedSame, SameTotal DEF HttpInv

\* Only what connections are kept alive, and the bound on events.
LEMMA AliveStep ==
    ASSUME HttpInv, keepAlive' \in SUBSET Conns, events' \in 0 .. MaxEvents,
           UNCHANGED <<mgr, max, mSocketThreadTarget, msgs, main, trans, carried, failed>>
    PROVE  HttpInv' /\ Bounded
<1>1. /\ mgr' = mgr /\ failed' = failed
      /\ Books(mgr', News(msgs'), Reclaims(msgs'), trans', carried', main')
      /\ Mail(msgs', main') /\ Known(msgs', trans')
  BY Sorts
<1>2. Typed'
  BY DEF HttpInv, Typed
<1> QED BY <1>1, <1>2, StrandedSame, SameTotal DEF HttpInv

LEMMA HostOfActive ==
    ASSUME NEW c \in Active(mgr) PROVE HostOf(c) \in Hosts /\ c \in mgr.mActiveConns[HostOf(c)]
<1>1. \E h \in Hosts : c \in mgr.mActiveConns[h]
  BY DEF Active
<1> QED BY <1>1 DEF HostOf

LEMMA HangStep ==
    ASSUME HttpInv, NEW c \in Conns, MaxHangTimeExceeded(c)
    PROVE  HttpInv' /\ Bounded
<1>. PICK e : e = [type |-> "process", host |-> HostOf(c)]
  OBVIOUS
<1>1. /\ main' = main /\ mgr' = mgr /\ failed' = failed /\ carried' = carried /\ trans' = trans
      /\ Post(<<e>>) /\ c \in Active(mgr)
  BY DEF MaxHangTimeExceeded
<1>2. e \in Messages /\ e.type = "process"
  BY <1>1, HostOfActive DEF Messages
<1>3. /\ Mail(msgs', main') /\ Known(msgs', trans') /\ News(msgs') = News(msgs)
      /\ Reclaims(msgs') = Reclaims(msgs)
  <2>1. /\ e.type # "new" /\ e.type # "reclaim" /\ e.type # "shutdown" /\ Remain(trans, trans')
        /\ e.type \notin {"cancel", "resched"}
    BY <1>1, <1>2, SameTrans
  <2> QED BY <1>1, <1>2, <2>1, Posted
<1>4. Books(mgr', News(msgs'), Reclaims(msgs'), trans', carried', main')
  BY <1>1, <1>3, Sorts
<1>5. Typed'
  <2>1. events' \in 0 .. MaxEvents
    BY HttpAssumption DEF HttpInv, Typed, MaxHangTimeExceeded
  <2> QED BY <2>1 DEF HttpInv, Typed, MaxHangTimeExceeded
<1> QED BY <1>1, <1>3, <1>4, <1>5, StrandedSame, SameTotal DEF HttpInv

LEMMA SocketSteps ==
    ASSUME HttpInv, NEW c \in Conns,
           SocketDone(c) \/ OnHeadersAvailable(c) \/ MaxHangTimeExceeded(c) \/ IdleDies(c)
    PROVE  HttpInv' /\ Bounded
<1>1. CASE OnHeadersAvailable(c) \/ IdleDies(c)
  <2>1. keepAlive' \in SUBSET Conns
    BY <1>1 DEF HttpInv, Typed, OnHeadersAvailable, IdleDies
  <2>2. events' \in 0 .. MaxEvents
    BY <1>1, HttpAssumption DEF HttpInv, Typed, OnHeadersAvailable, IdleDies
  <2>3. UNCHANGED <<mgr, max, mSocketThreadTarget, msgs, main, trans, carried, failed>>
    BY <1>1 DEF OnHeadersAvailable, IdleDies
  <2> QED BY <2>1, <2>2, <2>3, AliveStep
<1>2. CASE SocketDone(c)
  BY <1>2, RestartStep, CloseStep DEF SocketDone
<1> QED BY <1>1, <1>2, HangStep
-----------------------------------------------------------------------------
(* The messages, but for those that dispatch.                               *)
LEMMA StrandedFewer ==
    ASSUME HttpInv, failed' = failed, Active(mgr') = Active(mgr),
           \A h \in Hosts : ToSet(mgr'.mPendingQ[h]) \subseteq ToSet(mgr.mPendingQ[h])
    PROVE  NothingStranded'
<1>1. PendingAnywhere' \subseteq PendingAnywhere
  BY DEF PendingAnywhere
<1>2. NothingStranded
  BY Sorts
<1> QED BY <1>1, <1>2 DEF NothingStranded

LEMMA Grows ==
    ASSUME HttpInv, MgrOK(mgr'), Sum(mgr') <= max.conns \/ Sum(mgr') <= Sum(mgr)
    PROVE  Bounded
<1>1. Total = Sum(mgr) /\ Total' = Sum(mgr')
  BY DEF Total, Sum
<1>2. MgrOK(mgr)
  BY Sorts
<1>3. Sum(mgr) \in Nat /\ Sum(mgr') \in Nat
  BY <1>2, MgrTypes DEF MgrOK, Sum
<1>4. max.conns \in Nat
  BY Sorts, LimitTypes
<1> QED BY <1>1, <1>3, <1>4 DEF Bounded

LEMMA SumSame ==
    ASSUME NEW m, NEW p, m.mNumActiveConns \in Nat, m.mNumIdleConns \in Nat,
           p.mNumActiveConns = m.mNumActiveConns, p.mNumIdleConns = m.mNumIdleConns
    PROVE  Sum(p) <= Sum(m)
BY DEF Sum

LEMMA FailedNow ==
    ASSUME HttpInv, NEW m, ActivateFails(m), UNCHANGED <<max, mSocketThreadTarget, main>>
    PROVE  Typed' /\ NothingStranded' /\ mgr' = m /\ carried' = carried
<1>1. failed' = TRUE /\ events < MaxEvents /\ events' = events + 1
      /\ keepAlive' = keepAlive \cap (Idle(m) \cup Active(m)) /\ mgr' = m /\ carried' = carried
  BY DEF ActivateFails, Lost
<1>2. Typed
  BY Sorts
<1>3. events' \in 0 .. MaxEvents
  BY <1>1, <1>2, HttpAssumption DEF Typed
<1>4. keepAlive' \in SUBSET Conns
  BY <1>1, <1>2 DEF Typed
<1>5. Typed'
  BY <1>1, <1>2, <1>3, <1>4 DEF Typed
<1>6. NothingStranded'
  BY <1>1 DEF NothingStranded
<1> QED BY <1>1, <1>5, <1>6

\* A transaction whose message arrives.
LEMMA ArrivedFields ==
    ASSUME HttpInv, NEW t, Arrived(t), Received
    PROVE  /\ t \in Transactions /\ t \in News(msgs) /\ main # "down"
           /\ Head(msgs).priority \in Priorities \cup {0}
           /\ trans[t] \in TransType /\ trans[t].state \in {"accepted", "error"}
           /\ \A h \in Hosts : t \notin ToSet(mgr.mPendingQ[h])
           /\ main' = main /\ max' = max /\ mSocketThreadTarget' = mSocketThreadTarget
           /\ Remain(trans, trans') =>
                /\ Mail(msgs', main') /\ Known(msgs', trans') /\ News(msgs') = News(msgs) \ {t}
                /\ Reclaims(msgs') = Reclaims(msgs)
<1>1. /\ Message("new") /\ Head(msgs).trans = t
      /\ main' = main /\ max' = max /\ mSocketThreadTarget' = mSocketThreadTarget
  BY DEF Arrived
<1>2. msgs # << >> /\ Head(msgs).type = "new"
  BY <1>1 DEF Message
<1>3. Head(msgs) \in Messages /\ main # "down" /\ t \in News(msgs)
  BY <1>1, <1>2, Sorts, TakeMail
<1>4. Head(msgs).priority \in Priorities \cup {0} /\ t \in Transactions
  BY <1>1, <1>2, <1>3, MessageFields
<1>5. /\ Books(mgr, News(msgs), Reclaims(msgs), trans, carried, main)
      /\ trans \in [Transactions -> TransType]
  BY Sorts
<1>6. trans[t].state \in {"accepted", "error"} /\ \A h \in Hosts : t \notin ToSet(mgr.mPendingQ[h])
  BY <1>3, <1>5 DEF Books, Announced
<1>7. ASSUME Remain(trans, trans')
      PROVE  /\ Mail(msgs', main') /\ Known(msgs', trans') /\ News(msgs') = News(msgs) \ {t}
             /\ Reclaims(msgs') = Reclaims(msgs)
  <2>1. "new" # "shutdown" /\ "new" # "reclaim"
    OBVIOUS
  <2> QED BY <1>1, <1>7, <2>1, Taken
<1> QED BY <1>1, <1>3, <1>4, <1>5, <1>6, <1>7

LEMMA DroppedStep ==
    ASSUME HttpInv, NEW t \in Transactions, NewDropped(t)
    PROVE  HttpInv' /\ Bounded
<1>. PICK N : N = News(msgs)
  OBVIOUS
<1>. PICK R : R = Reclaims(msgs)
  OBVIOUS
<1>1. /\ Arrived(t) /\ Received /\ Closed(t) /\ trans' = Prioritized(t)
      /\ mgr' = mgr /\ carried' = carried /\ keepAlive' = keepAlive /\ events' = events
      /\ failed' = failed
  BY DEF NewDropped, DroppedAsCanceled
<1>2. /\ t \in N /\ trans[t].state = "error" /\ Head(msgs).priority \in Priorities \cup {0}
      /\ \A h \in Hosts : t \notin ToSet(mgr.mPendingQ[h])
      /\ main' = main /\ max' = max /\ mSocketThreadTarget' = mSocketThreadTarget
  <2>1. trans[t].state \in {"accepted", "error"}
    BY <1>1, ArrivedFields
  <2> QED BY <1>1, <2>1, ArrivedFields DEF Closed
<1>3. /\ Books(mgr, N, R, trans, carried, main) /\ MgrOK(mgr) /\ Typed
      /\ trans \in [Transactions -> TransType]
  BY Sorts
<1>4. /\ Changed(trans, trans', t) /\ Remain(trans, trans') /\ trans'[t].conn = trans[t].conn
      /\ trans'[t].state = trans[t].state
  BY <1>1, <1>2, <1>3, Prioritizes
<1>5. Mail(msgs', main') /\ Known(msgs', trans') /\ News(msgs') = N \ {t} /\ Reclaims(msgs') = R
  BY <1>1, <1>4, ArrivedFields
<1>6. Books(mgr, N \ {t}, R, trans', carried, main)
  <2>1. Sorted(mgr, trans')
    <3>1. Sorted(mgr, trans) /\ \A u \in Transactions : u # t => trans'[u] = trans[u]
      BY <1>3, <1>4 DEF Books, Changed
    <3> QED BY <1>2, <1>3, <3>1, SortedUnless
  <2>2. \A u \in Transactions : /\ trans'[u].state = trans[u].state /\ trans'[u].host = trans[u].host
                                /\ trans'[u].conn = trans[u].conn
    BY <1>4 DEF Changed
  <2>3. N \ {t} \in SUBSET N /\ \A u \in N \ (N \ {t}) : trans[u].state = "error"
    BY <1>2
  <2>4. trans' \in [Transactions -> TransType]
    BY <1>4 DEF Changed
  <2> QED BY <1>3, <2>1, <2>2, <2>3, <2>4, SameBooks
<1>7. Books(mgr', News(msgs'), Reclaims(msgs'), trans', carried', main')
  BY <1>1, <1>2, <1>5, <1>6
<1>8. Typed'
  BY <1>1, <1>2, <1>3 DEF Typed
<1> QED BY <1>1, <1>5, <1>7, <1>8, StrandedSame, SameTotal DEF HttpInv

LEMMA BackAgain ==
    ASSUME NEW m \in MgrType, NEW h \in Hosts, NEW c \in m.mActiveConns[h]
    PROVE  Activated(Deactivated(m, h, c), h, c) = m
<1>1. /\ m.mActiveConns \in [Hosts -> SUBSET Conns] /\ m.mNumActiveConns \in Int
  BY MgrTypes
<1>2. [[m.mActiveConns EXCEPT ![h] = @ \ {c}] EXCEPT ![h] = @ \cup {c}] = m.mActiveConns
  <2>1. (m.mActiveConns[h] \ {c}) \cup {c} = m.mActiveConns[h]
    OBVIOUS
  <2> QED BY <1>1, <2>1
<1>3. (m.mNumActiveConns - 1) + 1 = m.mNumActiveConns
  BY <1>1
<1>. PICK x : x = m.mActiveConns
  OBVIOUS
<1>. PICK n : n = m.mNumActiveConns
  OBVIOUS
<1>4. Deactivated(m, h, c) = [m EXCEPT !.mActiveConns = [x EXCEPT ![h] = @ \ {c}],
                                       !.mNumActiveConns = n - 1]
  BY DEF Deactivated, MgrType
<1>5. Activated(Deactivated(m, h, c), h, c) =
        [m EXCEPT !.mActiveConns = [[x EXCEPT ![h] = @ \ {c}] EXCEPT ![h] = @ \cup {c}],
                  !.mNumActiveConns = (n - 1) + 1]
  BY <1>4 DEF Activated, MgrType
<1>6. Activated(Deactivated(m, h, c), h, c) = [m EXCEPT !.mActiveConns = x, !.mNumActiveConns = n]
  BY <1>2, <1>3, <1>5
<1> QED BY <1>6 DEF MgrType

LEMMA StickyStep ==
    ASSUME HttpInv, NEW t \in Transactions, NewSticky(t)
    PROVE  HttpInv' /\ Bounded
<1>. PICK N : N = News(msgs)
  OBVIOUS
<1>. PICK R : R = Reclaims(msgs)
  OBVIOUS
<1>. PICK c : c = trans[t].conn
  OBVIOUS
<1>. PICK h : h = trans[t].host
  OBVIOUS
<1>. PICK rest : rest = Deactivated(mgr, h, c)
  OBVIOUS
<1>1. /\ Arrived(t) /\ Received /\ ~ Closed(t) /\ c # None /\ c \in mgr.mActiveConns[h]
      /\ \/ /\ DispatchTransaction(rest, h, t, c) /\ trans' = Prioritized(t)
            /\ events' = events /\ failed' = failed
         \/ ActivateFails(rest) /\ Close(t, "error")
  BY DEF NewSticky, DroppedAsCanceled, Deactivated
<1>2. /\ t \in N /\ trans[t].state = "accepted" /\ Head(msgs).priority \in Priorities \cup {0}
      /\ \A g \in Hosts : t \notin ToSet(mgr.mPendingQ[g])
      /\ main' = main /\ max' = max /\ mSocketThreadTarget' = mSocketThreadTarget /\ main # "down"
      /\ trans[t] \in TransType
  <2>1. trans[t].state \in {"accepted", "error"}
    BY <1>1, ArrivedFields
  <2> QED BY <1>1, <2>1, ArrivedFields DEF Closed
<1>3. /\ Books(mgr, N, R, trans, carried, main) /\ MgrOK(mgr) /\ Typed /\ mgr \in MgrType
      /\ trans \in [Transactions -> TransType] /\ carried \in [Conns -> Transactions \cup {None}]
  BY Sorts DEF MgrOK
<1>4. c \in Conns /\ h \in Hosts
  <2>1. h \in Hosts
    BY <1>1, <1>3 DEF Books, Handles
  <2> QED BY <1>1, <1>2, <2>1 DEF TransType
<1>5. CASE /\ DispatchTransaction(rest, h, t, c) /\ trans' = Prioritized(t)
           /\ events' = events /\ failed' = failed
  <2>1. /\ mgr' = mgr /\ carried' = [carried EXCEPT ![c] = t]
        /\ keepAlive' = (keepAlive \cap (Idle(rest) \cup Active(rest)))
                          \cup (IF Keeps(t) THEN {c} ELSE {})
    <3>1. c \in mgr.mActiveConns[h]
      BY <1>1
    <3>2. Activated(Deactivated(mgr, h, c), h, c) = mgr
      BY <1>3, <1>4, <3>1, BackAgain
    <3> QED BY <1>5, <3>2 DEF DispatchTransaction
  <2>2. Carried(carried, carried', c, t)
    BY <1>2, <1>3, <1>4, <2>1 DEF Carried
  <2>3. /\ Changed(trans, trans', t) /\ Remain(trans, trans') /\ trans'[t].conn = c
        /\ trans'[t].state = "accepted"
    BY <1>2, <1>3, <1>5, Prioritizes
  <2>4. Mail(msgs', main') /\ Known(msgs', trans') /\ News(msgs') = N \ {t} /\ Reclaims(msgs') = R
    BY <1>1, <2>3, ArrivedFields
  <2>5. Books(mgr, N \ {t}, R, trans', carried', main)
    BY <1>2, <1>3, <1>4, <2>2, <2>3, StickyBooks
  <2>6. Books(mgr', News(msgs'), Reclaims(msgs'), trans', carried', main')
    BY <1>2, <2>1, <2>4, <2>5
  <2>7. keepAlive' \in SUBSET Conns
    BY <1>3, <1>4, <2>1 DEF Typed
  <2>8. Typed'
    BY <1>2, <1>3, <1>5, <2>7 DEF Typed
  <2> QED BY <1>5, <2>1, <2>4, <2>6, <2>8, StrandedSame, SameTotal DEF HttpInv
<1>6. CASE ActivateFails(rest) /\ Close(t, "error")
  <2>1. /\ Changed(trans, trans', t) /\ Remain(trans, trans')
        /\ trans'[t].state = "error" /\ trans'[t].conn = None
    BY <1>3, <1>6, Closes DEF KeepsHandle
  <2>2. Mail(msgs', main') /\ Known(msgs', trans') /\ News(msgs') = N \ {t} /\ Reclaims(msgs') = R
    BY <1>1, <2>1, ArrivedFields
  <2>3. Typed' /\ NothingStranded' /\ mgr' = rest /\ carried' = carried
    BY <1>2, <1>6, FailedNow
  <2>4. Books(rest, N \ {t}, R, trans', carried, main)
    BY <1>1, <1>2, <1>3, <1>4, <2>1, StickyFailBooks
  <2>5. Books(mgr', News(msgs'), Reclaims(msgs'), trans', carried', main')
    BY <1>2, <2>2, <2>3, <2>4
  <2>6. MgrOK(rest) /\ rest.mNumActiveConns = mgr.mNumActiveConns - 1
        /\ rest.mNumIdleConns = mgr.mNumIdleConns
    <3>1. c \in mgr.mActiveConns[h] /\ MgrOK(mgr) /\ h \in Hosts
      BY <1>1, <1>3, <1>4
    <3>2. MgrOK(Deactivated(mgr, h, c))
      BY <3>1, DeactivatedOK
    <3>3. /\ Deactivated(mgr, h, c).mNumActiveConns = mgr.mNumActiveConns - 1
          /\ Deactivated(mgr, h, c).mNumIdleConns = mgr.mNumIdleConns
      BY <1>3 DEF Deactivated, MgrType
    <3> QED BY <3>2, <3>3
  <2>7. Sum(rest) <= Sum(mgr)
    <3>1. mgr.mNumActiveConns \in Nat /\ mgr.mNumIdleConns \in Nat
      BY <1>3, MgrTypes
    <3> QED BY <2>6, <3>1 DEF Sum
  <2>8. Bounded
    BY <2>3, <2>6, <2>7, Grows
  <2> QED BY <2>2, <2>3, <2>5, <2>8 DEF HttpInv
<1> QED BY <1>1, <1>5, <1>6

\* Handlers of messages that are not about new transactions or connections.
LEMMA ParamStep ==
    ASSUME HttpInv, OnMsgUpdateParam
    PROVE  HttpInv' /\ Bounded
<1>1. /\ Message("param") /\ Received /\ max' = Head(msgs).limits /\ mgr' = mgr /\ main' = main
      /\ trans' = trans /\ carried' = carried /\ failed' = failed /\ events' = events
      /\ keepAlive' = keepAlive /\ mSocketThreadTarget' = mSocketThreadTarget
  BY DEF OnMsgUpdateParam
<1>2. /\ Head(msgs) \in Messages /\ Head(msgs).type = "param"
      /\ Mail(msgs', main') /\ Known(msgs', trans') /\ News(msgs') = News(msgs)
      /\ Reclaims(msgs') = Reclaims(msgs)
  <2>1. "param" # "shutdown" /\ "param" # "new" /\ "param" # "reclaim"
    OBVIOUS
  <2> QED BY <1>1, <2>1, SameTrans, Taken
<1>3. max' \in Limits
  BY <1>1, <1>2, MessageFields
<1>4. Books(mgr', News(msgs'), Reclaims(msgs'), trans', carried', main')
  BY <1>1, <1>2, Sorts
<1>5. Typed'
  BY <1>1, <1>3, Sorts DEF Typed
<1> QED BY <1>1, <1>2, <1>4, <1>5, StrandedSame, SameTotal DEF HttpInv

LEMMA PruneStep ==
    ASSUME HttpInv, OnMsgPruneDeadConnections
    PROVE  HttpInv' /\ Bounded
<1>. PICK p : p = Pruned(mgr)
  OBVIOUS
<1>1. /\ Message("prune") /\ Received /\ max' = max /\ mgr' = p /\ main' = main
      /\ trans' = trans /\ carried' = carried /\ failed' = failed /\ events' = events
      /\ keepAlive' = keepAlive /\ mSocketThreadTarget' = mSocketThreadTarget
  BY DEF OnMsgPruneDeadConnections, Pruned
<1>2. /\ Mail(msgs', main') /\ Known(msgs', trans') /\ News(msgs') = News(msgs)
      /\ Reclaims(msgs') = Reclaims(msgs)
  <2>1. "prune" # "shutdown" /\ "prune" # "new" /\ "prune" # "reclaim"
    OBVIOUS
  <2> QED BY <1>1, <2>1, SameTrans, Taken
<1>3. /\ Books(mgr, News(msgs), Reclaims(msgs), trans, carried, main) /\ MgrOK(mgr)
      /\ trans \in [Transactions -> TransType] /\ mgr \in MgrType /\ Typed
  BY Sorts DEF MgrOK
<1>4. /\ MgrOK(p) /\ p.mPendingQ = mgr.mPendingQ /\ p.mActiveConns = mgr.mActiveConns
      /\ p.mNumActiveConns = mgr.mNumActiveConns /\ p.mNumIdleConns <= mgr.mNumIdleConns
      /\ Active(p) = Active(mgr)
  BY <1>3, PrunedOK
<1>5. Books(p, News(msgs), Reclaims(msgs), trans, carried, main)
  <2>1. Sorted(p, trans)
    BY <1>3, <1>4 DEF Books, Sorted
  <2>2. \A h \in Hosts : ToSet(p.mPendingQ[h]) = ToSet(mgr.mPendingQ[h])
    BY <1>4
  <2>. PICK N : N = News(msgs)
    OBVIOUS
  <2>3. N \in SUBSET N /\ \A u \in N \ N : trans[u].state = "error"
    OBVIOUS
  <2>4. Books(p, N, Reclaims(msgs), trans, carried, main)
    BY <1>3, <1>4, <2>1, <2>2, <2>3, SameBooks
  <2> QED BY <2>4
<1>6. Books(mgr', News(msgs'), Reclaims(msgs'), trans', carried', main')
  BY <1>1, <1>2, <1>5
<1>7. Typed'
  BY <1>1, <1>3 DEF Typed
<1>8. NothingStranded'
  BY <1>1, <1>4, StrandedFewer
<1>9. Sum(p) <= Sum(mgr)
  <2>1. /\ mgr.mNumActiveConns \in Nat /\ mgr.mNumIdleConns \in Nat /\ p.mNumIdleConns \in Nat
    BY <1>3, <1>4, MgrTypes DEF MgrOK
  <2> QED BY <1>4, <2>1 DEF Sum
<1>10. Bounded
  BY <1>1, <1>4, <1>9, Grows
<1> QED BY <1>2, <1>6, <1>7, <1>8, <1>10 DEF HttpInv

\* A transaction leaves the queue of its host, if it is there.
LEMMA UnpendedOK ==
    ASSUME NEW m, NEW N, NEW R, Books(m, N, R, trans, carried, main),
           NEW t \in Transactions, trans[t].host \in Hosts, NEW T2, Changed(trans, T2, t)
    PROVE  /\ Requeued(m, Unpended(m, t), t, T2)
           /\ Unpended(m, t).mPendingQ =
                [m.mPendingQ EXCEPT ![trans[t].host] = RemoveFirst(m.mPendingQ[trans[t].host], t)]
           /\ Unpended(m, t).mNumActiveConns = m.mNumActiveConns
           /\ Unpended(m, t).mNumIdleConns = m.mNumIdleConns
           /\ Active(Unpended(m, t)) = Active(m)
<1>. PICK h \in Hosts : h = trans[t].host
  OBVIOUS
<1>. PICK q : q = m.mPendingQ[h]
  OBVIOUS
<1>. PICK r : r = RemoveFirst(q, t)
  OBVIOUS
<1>0. PICK p : p = [m EXCEPT !.mPendingQ[h] = r]
  OBVIOUS
<1>1. /\ MgrOK(m) /\ m \in MgrType /\ Sorted(m, trans)
      /\ \A g \in Hosts : \A u \in ToSet(m.mPendingQ[g]) : trans[u].host = g
  BY DEF Books, TypedBooks, MgrOK, Placed
<1>2. q \in Seq(Transactions) /\ Distinct(q)
  BY <1>1, QueueTypes
<1>3. r \in Seq(Transactions) /\ Distinct(r) /\ ToSet(r) = ToSet(q) \ {t}
  BY <1>2, RemoveSet
<1>4. /\ MgrOK(p) /\ p.mPendingQ = [m.mPendingQ EXCEPT ![h] = r] /\ p.mActiveConns = m.mActiveConns
      /\ p.mNumActiveConns = m.mNumActiveConns /\ p.mNumIdleConns = m.mNumIdleConns
      /\ Active(p) = Active(m)
  BY <1>0, <1>1, <1>3, PendingOK
<1>5. p = Unpended(m, t)
  BY <1>0 DEF Unpended
<1>6. m.mPendingQ \in [Hosts -> Seq(Transactions)]
  BY <1>1, MgrTypes
<1>7. p.mPendingQ[h] = r /\ \A g \in Hosts : g # h => p.mPendingQ[g] = m.mPendingQ[g]
  BY <1>4, <1>6
<1>8. \A g \in Hosts : ToSet(p.mPendingQ[g]) = ToSet(m.mPendingQ[g]) \ {t}
  <2>1. ASSUME NEW g \in Hosts, g # h PROVE t \notin ToSet(m.mPendingQ[g])
    BY <1>1, <2>1
  <2> QED BY <1>3, <1>7, <2>1
<1>9. SortedQ(r, trans)
  <2>1. SortedQ(q, trans)
    BY <1>1 DEF Sorted
  <2>2. CASE ~ Contains(q, t)
    <3>1. RemoveFirst(q, t) = q
      BY <2>2 DEF RemoveFirst, Contains
    <3> QED BY <2>1, <3>1
  <2>3. CASE Contains(q, t)
    <3>1. PICK i \in 1 .. Len(q) : q[i] = t /\ RemoveFirst(q, t) = RemoveAt(q, i)
      BY <1>2, <2>3, RemoveFirstElems
    <3>2. SortedQ(RemoveAt(q, i), trans)
      BY <1>2, <2>1, SortedRemoved
    <3> QED BY <3>1, <3>2
  <2> QED BY <2>2, <2>3
<1>10. Sorted(p, trans)
  BY <1>1, <1>7, <1>9 DEF Sorted
<1>11. Sorted(p, T2)
  <2>1. \A u \in Transactions : u # t => T2[u] = trans[u]
    BY DEF Changed
  <2>2. \A g \in Hosts : t \notin ToSet(p.mPendingQ[g])
    BY <1>8
  <2>3. MgrOK(p)
    BY <1>4
  <2> QED BY <1>10, <2>1, <2>2, <2>3, SortedWithout
<1>12. Requeued(m, p, t, T2)
  BY <1>4, <1>8, <1>11 DEF Requeued
<1> QED BY <1>4, <1>5, <1>12

LEMMA ReschedStep ==
    ASSUME HttpInv, OnMsgReschedTransaction
    PROVE  HttpInv' /\ Bounded
<1>0. PICK t : t = Head(msgs).trans
  OBVIOUS
<1>00. PICK h : h = trans[t].host
  OBVIOUS
<1>. PICK N : N = News(msgs)
  OBVIOUS
<1>. PICK R : R = Reclaims(msgs)
  OBVIOUS
<1>1. /\ Message("resched") /\ Received /\ max' = max /\ main' = main
      /\ trans' = Prioritized(t) /\ carried' = carried /\ failed' = failed /\ events' = events
      /\ keepAlive' = keepAlive /\ mSocketThreadTarget' = mSocketThreadTarget
      /\ mgr' = IF Contains(mgr.mPendingQ[h], t)
                THEN [mgr EXCEPT !.mPendingQ[h] = InsertTransactionSorted(RemoveFirst(@, t), t)]
                ELSE mgr
  BY <1>0, <1>00 DEF OnMsgReschedTransaction
<1>2. /\ Books(mgr, N, R, trans, carried, main) /\ MgrOK(mgr)
      /\ trans \in [Transactions -> TransType] /\ mgr \in MgrType /\ Typed
      /\ Known(msgs, trans) /\ msgs \in Seq(Messages) /\ Mail(msgs, main)
  BY Sorts DEF MgrOK
<1>3. /\ msgs # << >> /\ Head(msgs) \in Messages /\ Head(msgs).type = "resched"
      /\ Head(msgs) = msgs[1] /\ 1 \in DOMAIN msgs
  BY <1>1, <1>2 DEF Message
<1>4. t \in Transactions /\ Head(msgs).priority \in Priorities \cup {0} /\ h \in Hosts
  <2>1. t \in Transactions /\ Head(msgs).priority \in Priorities
    BY <1>0, <1>3, MessageFields
  <2>2. Exists(trans, t)
    BY <1>0, <1>2, <1>3 DEF Known
  <2> QED BY <1>00, <2>1, <2>2 DEF Exists
<1>5. /\ Changed(trans, trans', t) /\ Remain(trans, trans') /\ trans'[t].conn = trans[t].conn
      /\ trans'[t].state = trans[t].state
  BY <1>1, <1>2, <1>4, Prioritizes
<1>6. Mail(msgs', main') /\ Known(msgs', trans') /\ News(msgs') = N /\ Reclaims(msgs') = R
  <2>1. "resched" # "shutdown" /\ "resched" # "new" /\ "resched" # "reclaim"
    OBVIOUS
  <2> QED BY <1>1, <1>5, <2>1, Taken
<1>7. /\ MgrOK(mgr') /\ mgr'.mActiveConns = mgr.mActiveConns /\ Active(mgr') = Active(mgr)
      /\ mgr'.mNumActiveConns = mgr.mNumActiveConns /\ mgr'.mNumIdleConns = mgr.mNumIdleConns
      /\ Sorted(mgr', trans')
      /\ \A g \in Hosts : ToSet(mgr'.mPendingQ[g]) = ToSet(mgr.mPendingQ[g])
  <2>. PICK q : q = mgr.mPendingQ[h]
    OBVIOUS
  <2>r. PICK r : r = RemoveFirst(q, t)
    OBVIOUS
  <2>s. PICK s : s = InsertTransactionSorted(r, t)
    OBVIOUS
  <2>1. q \in Seq(Transactions) /\ Distinct(q)
    BY <1>2, <1>4, QueueTypes
  <2>2. \A g \in Hosts : \A u \in ToSet(mgr.mPendingQ[g]) : trans[u].host = g
    BY <1>2 DEF Books, Placed
  <2>3. mgr.mPendingQ \in [Hosts -> Seq(Transactions)]
    BY <1>2, MgrTypes
  <2>4. r \in Seq(Transactions) /\ Distinct(r) /\ ToSet(r) = ToSet(q) \ {t}
    BY <2>r, <2>1, RemoveSet
  <2>5. /\ Sorted(Unpended(mgr, t), trans')
        /\ Unpended(mgr, t).mPendingQ = [mgr.mPendingQ EXCEPT ![h] = r]
    BY <1>00, <2>r, <1>2, <1>4, <1>5, UnpendedOK DEF Requeued
  <2>6. CASE Contains(q, t)
    <3>1. mgr' = [mgr EXCEPT !.mPendingQ[h] = s]
      BY <2>r, <2>s, <1>1, <2>6
    <3>2. SortedQ(r, trans')
      BY <1>4, <2>3, <2>5 DEF Sorted
    <3>3. \A u \in Transactions : trans'[u].priority \in Int
      <4>1. ASSUME NEW u \in Transactions PROVE trans'[u].priority \in Priorities \cup {0}
        <5>1. trans'[u] \in TransType
          BY <1>5 DEF Changed
        <5> QED BY <5>1 DEF TransType
      <4>2. Priorities \cup {0} \subseteq Int
        BY HttpAssumption
      <4> QED BY <4>1, <4>2
    <3>4. PICK k \in 1 .. Len(r) + 1 : s = InsertAt(r, k, t) /\ SortedQ(InsertAt(r, k, t), trans')
      BY <1>4, <2>4, <2>s, <3>2, <3>3, SortedInserted
    <3>5. s \in Seq(Transactions) /\ Distinct(s) /\ ToSet(s) = ToSet(r) \cup {t}
      BY <1>4, <2>4, <3>4, InsertSet
    <3>6. t \in ToSet(q)
      BY <2>1, <2>6, ToSetContains
    <3>7. ToSet(s) = ToSet(q)
      BY <2>4, <3>5, <3>6
    <3>p. PICK p : p = [mgr EXCEPT !.mPendingQ[h] = s]
      OBVIOUS
    <3>8. /\ MgrOK(p) /\ p.mActiveConns = mgr.mActiveConns /\ Active(p) = Active(mgr)
          /\ p.mNumActiveConns = mgr.mNumActiveConns /\ p.mNumIdleConns = mgr.mNumIdleConns
          /\ p.mPendingQ = [mgr.mPendingQ EXCEPT ![h] = s]
      BY <3>p, <1>2, <1>4, <3>5, PendingOK
    <3>9. p.mPendingQ[h] = s /\ \A g \in Hosts : g # h => p.mPendingQ[g] = mgr.mPendingQ[g]
      BY <1>4, <2>3, <3>8
    <3>10. ASSUME NEW g \in Hosts PROVE SortedQ(p.mPendingQ[g], trans')
      <4>1. CASE g = h
        BY <3>4, <3>9, <4>1
      <4>2. CASE g # h
        <5>1. SortedQ(Unpended(mgr, t).mPendingQ[g], trans')
          BY <2>5 DEF Sorted
        <5>2. Unpended(mgr, t).mPendingQ[g] = mgr.mPendingQ[g]
          BY <2>3, <2>5, <4>2
        <5> QED BY <3>9, <4>2, <5>1, <5>2
      <4> QED BY <4>1, <4>2
    <3>11. Sorted(p, trans') /\ \A g \in Hosts : ToSet(p.mPendingQ[g]) = ToSet(mgr.mPendingQ[g])
      BY <3>7, <3>9, <3>10 DEF Sorted
    <3> QED BY <3>p, <3>1, <3>8, <3>11
  <2>7. CASE ~ Contains(q, t)
    <3>1. mgr' = mgr
      BY <1>1, <2>7
    <3>2. \A g \in Hosts : t \notin ToSet(mgr.mPendingQ[g])
      <4>1. t \notin ToSet(q)
        BY <2>1, <2>7, ToSetContains
      <4> QED BY <1>00, <2>2, <4>1
    <3>3. Sorted(mgr, trans')
      <4>1. Sorted(mgr, trans) /\ \A u \in Transactions : u # t => trans'[u] = trans[u]
        BY <1>2, <1>5 DEF Books, Changed
      <4> QED BY <1>2, <3>2, <4>1, SortedWithout
    <3> QED BY <1>2, <3>1, <3>3
  <2> QED BY <2>6, <2>7
<1>8. Books(mgr', N, R, trans', carried, main)
  <2>. PICK p : p = mgr'
    OBVIOUS
  <2>1. /\ MgrOK(p) /\ p.mActiveConns = mgr.mActiveConns /\ Sorted(p, trans')
        /\ \A g \in Hosts : ToSet(p.mPendingQ[g]) = ToSet(mgr.mPendingQ[g])
    BY <1>7
  <2>2. \A u \in Transactions : /\ trans'[u].state = trans[u].state /\ trans'[u].host = trans[u].host
                                /\ trans'[u].conn = trans[u].conn
    BY <1>5 DEF Changed
  <2>3. N \in SUBSET N /\ \A u \in N \ N : trans[u].state = "error"
    OBVIOUS
  <2>4. trans' \in [Transactions -> TransType]
    BY <1>5 DEF Changed
  <2>5. Books(p, N, R, trans', carried, main)
    BY <1>2, <2>1, <2>2, <2>3, <2>4, SameBooks
  <2> QED BY <2>5
<1>9. Books(mgr', News(msgs'), Reclaims(msgs'), trans', carried', main')
  BY <1>1, <1>6, <1>8
<1>10. Typed'
  BY <1>1, <1>2 DEF Typed
<1>11. NothingStranded'
  BY <1>1, <1>7, StrandedFewer
<1>12. Bounded
  <2>1. mgr.mNumActiveConns \in Nat /\ mgr.mNumIdleConns \in Nat
    BY <1>2, MgrTypes
  <2>2. Sum(mgr') <= Sum(mgr)
    BY <1>7, <2>1 DEF Sum
  <2> QED BY <1>7, <2>2, Grows
<1> QED BY <1>6, <1>9, <1>10, <1>11, <1>12 DEF HttpInv

LEMMA CancelStep ==
    ASSUME HttpInv, OnMsgCancelTransaction
    PROVE  HttpInv' /\ Bounded
<1>0. PICK t : t = Head(msgs).trans
  OBVIOUS
<1>00. PICK c : c = trans[t].conn
  OBVIOUS
<1>. PICK N : N = News(msgs)
  OBVIOUS
<1>. PICK R : R = Reclaims(msgs)
  OBVIOUS
<1>1. /\ Message("cancel") /\ max' = max /\ main' = main
      /\ failed' = failed /\ events' = events /\ mSocketThreadTarget' = mSocketThreadTarget
      /\ IF Closed(t) THEN Received /\ UNCHANGED <<mgr, trans, carried, keepAlive>>
         ELSE /\ Close(t, "error")
              /\ IF c = None
                 THEN Received /\ mgr' = Unpended(mgr, t) /\ UNCHANGED <<carried, keepAlive>>
                 ELSE /\ msgs' = Tail(msgs) \o IF mSocketThreadTarget THEN Reclaim(c) ELSE <<>>
                      /\ carried' = [carried EXCEPT ![c] = None]
                      /\ keepAlive' = keepAlive \ {c} /\ UNCHANGED mgr
  BY <1>0, <1>00 DEF OnMsgCancelTransaction
<1>2. /\ Books(mgr, N, R, trans, carried, main) /\ MgrOK(mgr) /\ mgr \in MgrType /\ Typed
      /\ trans \in [Transactions -> TransType] /\ carried \in [Conns -> Transactions \cup {None}]
      /\ Known(msgs, trans) /\ msgs \in Seq(Messages) /\ Mail(msgs, main)
  BY Sorts DEF MgrOK
<1>3. /\ msgs # << >> /\ Head(msgs) \in Messages /\ Head(msgs).type = "cancel"
      /\ Head(msgs) = msgs[1] /\ 1 \in DOMAIN msgs
  BY <1>1, <1>2 DEF Message
<1>4. t \in Transactions /\ Exists(trans, t)
  <2>1. t \in Transactions
    BY <1>0, <1>3, MessageFields
  <2>2. Exists(trans, t)
    BY <1>0, <1>2, <1>3 DEF Known
  <2> QED BY <2>1, <2>2
<1>5. trans[t] \in TransType /\ trans[t].host \in Hosts /\ c \in Conns \cup {None}
      /\ (~ Closed(t) => trans[t].state = "accepted")
  <2>1. trans[t] \in TransType
    BY <1>2, <1>4
  <2> QED BY <1>00, <1>4, <2>1 DEF Exists, Closed, TransType
<1>6. CASE Closed(t)
  <2>1. /\ Received /\ mgr' = mgr /\ trans' = trans /\ carried' = carried /\ keepAlive' = keepAlive
    BY <1>1, <1>6
  <2>2. Mail(msgs', main') /\ Known(msgs', trans') /\ News(msgs') = N /\ Reclaims(msgs') = R
    <3>1. "cancel" # "shutdown" /\ "cancel" # "new" /\ "cancel" # "reclaim"
      OBVIOUS
    <3> QED BY <1>1, <2>1, <3>1, SameTrans, Taken
  <2>3. Books(mgr', News(msgs'), Reclaims(msgs'), trans', carried', main')
    BY <1>1, <1>2, <2>1, <2>2
  <2>4. Typed'
    BY <1>1, <1>2, <2>1 DEF Typed
  <2> QED BY <1>1, <2>1, <2>2, <2>3, <2>4, StrandedSame, SameTotal DEF HttpInv
<1>7. ASSUME ~ Closed(t)
      PROVE  /\ Changed(trans, trans', t) /\ Remain(trans, trans') /\ trans'[t].conn = None
             /\ trans'[t].state = "error" /\ trans'[t].priority = trans[t].priority
  <2>1. Close(t, "error") /\ ~ KeepsHandle(t, "error")
    BY <1>1, <1>7 DEF KeepsHandle
  <2> QED BY <1>2, <1>4, <2>1, Closes
<1>8. CASE ~ Closed(t) /\ c = None
  <2>0. PICK p : p = Unpended(mgr, t)
    OBVIOUS
  <2>1. /\ Received /\ mgr' = p /\ carried' = carried /\ keepAlive' = keepAlive
    BY <1>1, <1>8, <2>0
  <2>2. Mail(msgs', main') /\ Known(msgs', trans') /\ News(msgs') = N /\ Reclaims(msgs') = R
    <3>1. "cancel" # "shutdown" /\ "cancel" # "new" /\ "cancel" # "reclaim"
      OBVIOUS
    <3> QED BY <1>1, <1>7, <1>8, <2>1, <3>1, Taken
  <2>3. /\ Requeued(mgr, p, t, trans') /\ Active(p) = Active(mgr)
        /\ p.mNumActiveConns = mgr.mNumActiveConns /\ p.mNumIdleConns = mgr.mNumIdleConns
    BY <1>2, <1>4, <1>5, <1>7, <1>8, <2>0, UnpendedOK
  <2>4. Books(p, N, R, trans', carried, main)
    <3>1. trans[t].conn = None /\ trans[t].state = "accepted"
      BY <1>00, <1>5, <1>8
    <3>2. N = N \/ N = N \ {t}
      OBVIOUS
    <3>3. Changed(trans, trans', t) /\ trans'[t].conn = None /\ trans'[t].state = "error"
      BY <1>7, <1>8
    <3>4. Books(mgr, N, R, trans, carried, main) /\ Requeued(mgr, p, t, trans')
      BY <1>2, <2>3
    <3> QED BY <1>4, <3>1, <3>2, <3>3, <3>4, CloseBooks
  <2>5. Books(mgr', News(msgs'), Reclaims(msgs'), trans', carried', main')
    BY <1>1, <2>1, <2>2, <2>4
  <2>6. Typed'
    BY <1>1, <1>2, <2>1 DEF Typed
  <2>7. NothingStranded'
    <3>1. /\ failed' = failed /\ Active(mgr') = Active(mgr)
          /\ \A h \in Hosts : ToSet(mgr'.mPendingQ[h]) \subseteq ToSet(mgr.mPendingQ[h])
      BY <1>1, <2>1, <2>3 DEF Requeued
    <3> QED BY <3>1, StrandedFewer
  <2>8. Bounded
    <3>1. mgr.mNumActiveConns \in Nat /\ mgr.mNumIdleConns \in Nat
      BY <1>2, MgrTypes
    <3>2. Sum(p) <= Sum(mgr)
      BY <2>3, <3>1 DEF Sum
    <3>3. MgrOK(p)
      BY <2>3 DEF Requeued
    <3> QED BY <2>1, <3>2, <3>3, Grows
  <2> QED BY <2>2, <2>5, <2>6, <2>7, <2>8 DEF HttpInv
<1>9. CASE ~ Closed(t) /\ c # None
  <2>0. PICK e : e = [type |-> "reclaim", conn |-> c]
    OBVIOUS
  <2>1. /\ msgs' = Tail(msgs) \o IF mSocketThreadTarget THEN <<e>> ELSE <<>>
        /\ carried' = [carried EXCEPT ![c] = None]
        /\ keepAlive' = keepAlive \ {c} /\ mgr' = mgr
    BY <1>1, <1>9, <2>0 DEF Reclaim
  <2>2. c \in Conns /\ e \in Messages /\ e.type = "reclaim" /\ e.conn = c
    BY <1>5, <1>9, <2>0 DEF Messages
  <2>3. c \notin R
    BY <1>00, <1>2, <1>4 DEF Books, Announced
  <2>4. /\ Mail(Tail(msgs), main) /\ News(Tail(msgs)) = N /\ Reclaims(Tail(msgs)) = R
        /\ main # "down"
    <3>1. /\ Head(msgs).type # "shutdown" /\ Head(msgs).type # "new" /\ Head(msgs).type # "reclaim"
      BY <1>3
    <3> QED BY <1>2, <1>3, <3>1, TakeMail
  <2>5. Remain(trans, trans') /\ Known(Tail(msgs), trans')
    BY <1>2, <1>3, <1>7, <1>9, KnownTail
  <2>6. Tail(msgs) \in Seq(Messages)
    BY <1>2, <1>3
  <2>7. ASSUME main = "run"
        PROVE  /\ Mail(msgs', main') /\ Known(msgs', trans') /\ News(msgs') = N
               /\ Reclaims(msgs') = R \cup {c}
    <3>0. PICK s : s = Tail(msgs)
      OBVIOUS
    <3>1. msgs' = s \o <<e>>
      BY <1>2, <2>1, <2>7, <3>0 DEF Typed
    <3>2. /\ Mail(s, "run") /\ e.type # "shutdown" /\ e.type # "new" /\ e.conn \notin Reclaims(s)
          /\ e \in Messages /\ News(s) = N /\ Reclaims(s) = R /\ s \in Seq(Messages)
      BY <2>2, <2>3, <2>4, <2>6, <2>7, <3>0
    <3>3. /\ Mail(s \o <<e>>, "run") /\ News(s \o <<e>>) = News(s)
          /\ Reclaims(s \o <<e>>) = Reclaims(s) \cup {e.conn}
      BY <2>2, <3>2, PostMail
    <3>4. Known(s \o <<e>>, trans')
      <4>1. e.type \notin {"cancel", "resched"} /\ Remain(trans', trans') /\ Known(s, trans')
        BY <2>2, <2>5, <3>0 DEF Remain
      <4> QED BY <3>2, <4>1, KnownPost
    <3> QED BY <1>1, <2>2, <2>7, <3>1, <3>2, <3>3, <3>4
  <2>8. ASSUME main # "run"
        PROVE  /\ Mail(msgs', main') /\ Known(msgs', trans') /\ News(msgs') = N
               /\ Reclaims(msgs') = R
    <3>1. msgs' = Tail(msgs)
      <4>1. msgs' = Tail(msgs) \o <<>>
        BY <1>2, <2>1, <2>8 DEF Typed
      <4> QED BY <2>6, <4>1
    <3> QED BY <1>1, <2>4, <2>5, <3>1
  <2>9. Carried(carried, carried', c, None)
    BY <2>1, <2>2, SetFree
  <2>10. Books(mgr, N, Reclaims(msgs'), trans', carried', main)
    <3>0. PICK R2 : R2 = Reclaims(msgs')
      OBVIOUS
    <3>1. (main = "run" /\ R2 = R \cup {c}) \/ (main # "run" /\ R2 = R)
      BY <2>7, <2>8, <3>0
    <3>2. /\ Changed(trans, trans', t) /\ trans'[t].conn = None /\ trans'[t].state = "error"
          /\ trans'[t].priority = trans[t].priority
      BY <1>7, <1>9
    <3>3. Books(mgr, N, R, trans, carried, main) /\ trans[t].conn = c /\ t \in Transactions
          /\ c \in Conns
      BY <1>00, <1>2, <1>4, <2>2
    <3>4. Books(mgr, N, R2, trans', carried', main)
      BY <2>9, <3>1, <3>2, <3>3, DropBooks
    <3> QED BY <3>0, <3>4
  <2>11. /\ Books(mgr', News(msgs'), Reclaims(msgs'), trans', carried', main')
         /\ Mail(msgs', main') /\ Known(msgs', trans')
    BY <1>1, <2>1, <2>7, <2>8, <2>10
  <2>12. Typed'
    <3>1. keepAlive' \in SUBSET Conns
      BY <1>2, <2>1 DEF Typed
    <3> QED BY <1>1, <1>2, <3>1 DEF Typed
  <2> QED BY <1>1, <2>1, <2>11, <2>12, StrandedSame, SameTotal DEF HttpInv
<1> QED BY <1>6, <1>8, <1>9

LEMMA DownStep ==
    ASSUME HttpInv, OnMsgShutdown
    PROVE  HttpInv' /\ Bounded
<1>1. /\ Message("shutdown") /\ Received /\ mgr' = NoConns /\ keepAlive' = {} /\ main' = "down"
      /\ trans' = [t \in Transactions |->
                     IF t \in PendingAnywhere THEN [trans[t] EXCEPT !.state = "error"] ELSE trans[t]]
      /\ max' = max /\ mSocketThreadTarget' = mSocketThreadTarget /\ carried' = carried
      /\ events' = events /\ failed' = failed
  BY DEF OnMsgShutdown, TellPending
<1>2. /\ Books(mgr, News(msgs), Reclaims(msgs), trans, carried, main) /\ MgrOK(mgr)
      /\ mgr \in MgrType /\ Typed
      /\ trans \in [Transactions -> TransType] /\ msgs \in Seq(Messages) /\ Mail(msgs, main)
  BY Sorts DEF MgrOK
<1>3. main = "waiting" /\ Tail(msgs) = << >> /\ News(msgs) = {} /\ Reclaims(msgs) = {}
  <2>1. msgs # << >> /\ Head(msgs).type = "shutdown"
    BY <1>1 DEF Message
  <2> QED BY <1>2, <2>1, TakeMail
<1>4. msgs' = << >>
  BY <1>1, <1>3 DEF Received
<1>5. Mail(msgs', "down") /\ Known(msgs', trans') /\ News(msgs') = {} /\ Reclaims(msgs') = {}
  BY <1>4 DEF Mail, Known, News, Reclaims
<1>6. \A u \in Transactions : u \in PendingAnywhere <=> \E h \in Hosts : u \in ToSet(mgr.mPendingQ[h])
  BY DEF PendingAnywhere
<1>7. ASSUME NEW u \in Transactions
      PROVE  /\ trans'[u] \in TransType /\ trans'[u].host = trans[u].host
             /\ trans'[u].conn = trans[u].conn
             /\ (\E h \in Hosts : u \in ToSet(mgr.mPendingQ[h])) => trans'[u].state = "error"
             /\ (\A h \in Hosts : u \notin ToSet(mgr.mPendingQ[h])) => trans'[u].state = trans[u].state
  <2>1. trans[u] \in TransType
    BY <1>2
  <2>2. CASE u \in PendingAnywhere
    <3>1. trans'[u] = [trans[u] EXCEPT !.state = "error"]
      BY <1>1, <2>2
    <3>2. /\ trans'[u] \in TransType /\ trans'[u].host = trans[u].host
          /\ trans'[u].conn = trans[u].conn /\ trans'[u].state = "error"
      BY <2>1, <3>1 DEF TransType
    <3> QED BY <1>6, <2>2, <3>2
  <2>3. CASE u \notin PendingAnywhere
    <3>1. trans'[u] = trans[u]
      BY <1>1, <2>3
    <3> QED BY <1>6, <2>1, <2>3, <3>1
  <2> QED BY <2>2, <2>3
<1>8. trans' \in [Transactions -> TransType]
  <2>1. trans' = [u \in Transactions |-> trans'[u]]
    BY <1>1
  <2> QED BY <1>7, <2>1
<1>9. Books(NoConns, {}, {}, trans', carried, "down")
  <2>1. Books(mgr, {}, {}, trans, carried, main)
    BY <1>2, <1>3
  <2> QED BY <1>7, <1>8, <2>1, DownBooks
<1>10. Books(mgr', News(msgs'), Reclaims(msgs'), trans', carried', main')
  BY <1>1, <1>5, <1>9
<1>11. Typed'
  BY <1>1, <1>2, <1>3 DEF Typed
<1>12. NothingStranded'
  <2>1. \A h \in Hosts : ToSet(mgr'.mPendingQ[h]) = {}
    BY <1>1, NoConnsOK, EmptyList
  <2> QED BY <2>1 DEF NothingStranded, PendingAnywhere
<1>13. Bounded
  <2>1. Sum(NoConns) = 0
    BY DEF Sum, NoConns
  <2>2. mgr.mNumActiveConns \in Nat /\ mgr.mNumIdleConns \in Nat
    BY <1>2, MgrTypes
  <2>3. Sum(NoConns) <= Sum(mgr)
    BY <2>1, <2>2 DEF Sum
  <2> QED BY <1>1, <2>3, NoConnsOK, Grows
<1> QED BY <1>1, <1>5, <1>10, <1>11, <1>12, <1>13 DEF HttpInv

-----------------------------------------------------------------------------
(* Dispatching.                                                             *)
LEMMA LimitMeansActive ==
    ASSUME Typed, NEW m, MgrOK(m), NEW h \in Hosts, NEW keep,
           AtActiveConnectionLimit(m, h, keep)
    PROVE  Active(m) # {}
<1> SUFFICES ASSUME Active(m) = {} PROVE FALSE
  OBVIOUS
<1>1. max.conns >= 1 /\ max.perHost >= 1 /\ max.persist >= 1
  BY LimitTypes
<1>2. m.mActiveConns[h] = {} /\ m.mActiveConns[h] \cap keepAlive = {}
  BY DEF Active
<1>3. m.mNumActiveConns = 0
  BY FS_EmptySet DEF MgrOK
<1>4. Cardinality(m.mActiveConns[h]) = 0 /\ Cardinality(m.mActiveConns[h] \cap keepAlive) = 0
  BY <1>2, FS_EmptySet
<1>5. max.conns \in Nat /\ max.perHost \in Nat /\ max.persist \in Nat
  BY LimitTypes
<1> QED BY <1>1, <1>3, <1>4, <1>5 DEF AtActiveConnectionLimit

LEMMA BelowLimit ==
    ASSUME Typed, NEW m, MgrOK(m), NEW h \in Hosts, NEW keep,
           ~ AtActiveConnectionLimit(m, h, keep)
    PROVE  max.conns \in Nat /\ m.mNumActiveConns < max.conns
<1>1. max.conns \in Nat /\ m.mNumActiveConns \in Nat
  BY LimitTypes, MgrTypes DEF MgrOK
<1>2. ~ (m.mNumActiveConns >= max.conns)
  BY DEF AtActiveConnectionLimit
<1> QED BY <1>1, <1>2

\* A transaction t gets the connection c from what GetConnection made of m.
LEMMA Dispatched ==
    ASSUME Typed, main # "down", NEW m, NEW N, NEW R, Books(m, N, R, trans, carried, main),
           NEW t \in Transactions, NEW h \in Hosts, h = trans[t].host,
           trans[t].conn = None, trans[t].state = "accepted",
           NEW x, NEW c \in Conns, Gotten(m, x, c), NEW p, Requeued(m, p, t, trans'),
           Active(p) = Active(x), Idle(p) = Idle(x),
           p.mNumActiveConns = x.mNumActiveConns, p.mNumIdleConns = x.mNumIdleConns,
           DispatchTransaction(p, h, t, c),
           Changed(trans, trans', t), trans'[t].conn = c, trans'[t].state = "accepted"
    PROVE  /\ Books(mgr', N \ {t}, R, trans', carried', main)
           /\ keepAlive' \in SUBSET Conns /\ Active(mgr') # {} /\ MgrOK(mgr')
           /\ Sum(mgr') <= max.conns \/ Sum(mgr') <= Sum(m)
<1>1. /\ c \in Conns /\ c \notin Active(p) \cup Idle(p) /\ MgrOK(p)
      /\ Sum(x) + 1 <= max.conns \/ Sum(x) + 1 <= Sum(m)
  BY DEF Gotten, Requeued
<1>2. /\ mgr' = Activated(p, h, c) /\ carried' = [carried EXCEPT ![c] = t]
      /\ keepAlive' = (keepAlive \cap (Idle(p) \cup Active(p)))
                        \cup (IF Keeps(t) THEN {c} ELSE {})
  BY DEF DispatchTransaction
<1>3. carried \in [Conns -> Transactions \cup {None}]
  BY DEF Books, TypedBooks
<1>4. Carried(carried, carried', c, t)
  BY <1>1, <1>2, <1>3 DEF Carried
<1>5. Books(Activated(p, trans[t].host, c), N \ {t}, R, trans', carried', main)
  BY <1>1, <1>4, DispatchBooks
<1>6. Books(mgr', N \ {t}, R, trans', carried', main)
  BY <1>2, <1>5
<1>7. keepAlive' \in SUBSET Conns
  <2>1. c \in Conns /\ keepAlive \in SUBSET Conns
    BY <1>1 DEF Typed
  <2>2. (IF Keeps(t) THEN {c} ELSE {}) \subseteq Conns
    BY <2>1
  <2> QED BY <1>2, <2>1, <2>2
<1>8. MgrOK(mgr') /\ Active(mgr') # {}
  <2>1. p \in MgrType
    BY <1>1 DEF MgrOK
  <2>2. mgr'.mActiveConns = [p.mActiveConns EXCEPT ![h] = @ \cup {c}]
    BY <1>2, <2>1 DEF Activated, MgrType
  <2>3. c \in mgr'.mActiveConns[h]
    BY <2>1, <2>2, MgrTypes
  <2>4. MgrOK(mgr')
    BY <1>6 DEF Books, TypedBooks
  <2> QED BY <2>3, <2>4 DEF Active
<1>9. mgr'.mNumActiveConns = p.mNumActiveConns + 1 /\ mgr'.mNumIdleConns = p.mNumIdleConns
  <2>1. p \in MgrType
    BY <1>1 DEF MgrOK
  <2> QED BY <1>2, <2>1 DEF Activated, MgrType
<1>10. Sum(mgr') = Sum(x) + 1
  <2>1. p.mNumActiveConns \in Nat /\ p.mNumIdleConns \in Nat
    BY <1>1, MgrTypes DEF MgrOK
  <2> QED BY <1>9, <2>1 DEF Sum
<1> QED BY <1>1, <1>6, <1>7, <1>8, <1>10

\* What a handler leaves that went on to serve a pending transaction from m,
\* while the messages were about N and R.
Served(m, N, R) ==
    /\ Books(mgr', N, R, trans', carried', main) /\ Remain(trans, trans')
    /\ keepAlive' \in SUBSET Conns /\ events' \in 0 .. MaxEvents /\ failed' \in BOOLEAN
    /\ NothingStranded' /\ (Sum(mgr') <= max.conns \/ Sum(mgr') <= Sum(m))

LEMMA EntryStep ==
    ASSUME Typed, main # "down", NEW m, NEW N, NEW R, Books(m, N, R, trans, carried, main),
           NEW h \in Hosts, Dispatchable(m, h) # {}, ProcessPendingQForEntry(m, h)
    PROVE  Served(m, N, R)
<1>0. PICK q : q = m.mPendingQ[h]
  OBVIOUS
<1>1. /\ MgrOK(m) /\ m \in MgrType /\ Sorted(m, trans) /\ trans \in [Transactions -> TransType]
      /\ \A g \in Hosts : \A u \in ToSet(m.mPendingQ[g]) :
           trans[u].host = g /\ trans[u].state = "accepted" /\ trans[u].conn = None
      /\ \A u \in N : \A g \in Hosts : u \notin ToSet(m.mPendingQ[g])
  BY DEF Books, TypedBooks, MgrOK, Placed, Announced
<1>2. q \in Seq(Transactions) /\ Distinct(q) /\ DOMAIN q = 1 .. Len(q)
  BY <1>0, <1>1, QueueTypes
<1>3. Dispatchable(m, h) \in SUBSET (1 .. Len(q)) /\ Dispatchable(m, h) \in SUBSET Nat
  BY <1>0, <1>2 DEF Dispatchable
<1>4. PICK i \in Dispatchable(m, h) : i = Min(Dispatchable(m, h))
  <2>1. \E y \in Dispatchable(m, h) : \A z \in Dispatchable(m, h) : y <= z
    BY <1>3, LeastNatural
  <2> QED BY <2>1 DEF Min
<1>5. PICK t \in Transactions : t = q[i] /\ i \in 1 .. Len(q) /\ t \in ToSet(q)
  BY <1>2, <1>3 DEF ToSet
<1>6. PICK k \in BOOLEAN : k = Keeps(t)
  <2>1. ("keep-alive" \in trans[t].caps) \in BOOLEAN
    OBVIOUS
  <2> QED BY <2>1 DEF Keeps
<1>7. max.conns \in Nat /\ m.mNumActiveConns < max.conns
  <2>1. ~ AtActiveConnectionLimit(m, h, k)
    BY <1>0, <1>5, <1>6 DEF Dispatchable
  <2> QED BY <1>1, <2>1, BelowLimit
<1>8. PICK r \in GetConnection(m, h, k) :
        \/ /\ DispatchTransaction([r.mgr EXCEPT !.mPendingQ[h] = RemoveAt(@, i)], h, t, r.conn)
           /\ trans' = [trans EXCEPT ![t].conn = r.conn] /\ events' = events /\ failed' = failed
        \/ ActivateFails(r.mgr) /\ trans' = trans
  BY <1>0, <1>4, <1>5, <1>6 DEF ProcessPendingQForEntry
<1>9. PICK x : x = r.mgr
  OBVIOUS
<1>10. PICK c : c = r.conn
  OBVIOUS
<1>11. Gotten(m, x, c)
  BY <1>1, <1>7, <1>9, <1>10, GetOK
<1>12. /\ MgrOK(x) /\ x.mPendingQ = m.mPendingQ /\ x.mActiveConns = m.mActiveConns
       /\ Active(x) = Active(m) /\ c \in Conns
       /\ Sum(x) + 1 <= max.conns \/ Sum(x) + 1 <= Sum(m)
  BY <1>11 DEF Gotten, Fewer
<1>13. /\ trans[t].host = h /\ trans[t].state = "accepted" /\ trans[t].conn = None /\ t \notin N
       /\ \A g \in Hosts : g # h => t \notin ToSet(m.mPendingQ[g])
  BY <1>0, <1>1, <1>5
<1>14. ASSUME DispatchTransaction([x EXCEPT !.mPendingQ[h] = RemoveAt(@, i)], h, t, c),
              trans' = [trans EXCEPT ![t].conn = c], events' = events, failed' = failed
       PROVE  Served(m, N, R)
  <2>0. PICK s : s = RemoveAt(q, i)
    OBVIOUS
  <2>1. s \in Seq(Transactions) /\ Distinct(s) /\ ToSet(s) = ToSet(q) \ {t}
    BY <1>2, <1>5, <2>0, RemoveAtSet
  <2>2. SortedQ(s, trans)
    <3>1. SortedQ(q, trans)
      BY <1>0, <1>1 DEF Sorted
    <3> QED BY <1>2, <1>5, <2>0, <3>1, SortedRemoved
  <2>3. PICK p : p = [x EXCEPT !.mPendingQ[h] = s]
    OBVIOUS
  <2>4. /\ MgrOK(p) /\ p.mPendingQ = [x.mPendingQ EXCEPT ![h] = s]
        /\ p.mActiveConns = x.mActiveConns /\ p.mNumActiveConns = x.mNumActiveConns
        /\ p.mNumIdleConns = x.mNumIdleConns /\ Active(p) = Active(x) /\ Idle(p) = Idle(x)
    BY <1>12, <2>1, <2>3, PendingOK
  <2>5. p = [x EXCEPT !.mPendingQ[h] = RemoveAt(@, i)]
    <3>1. x.mPendingQ[h] = q
      BY <1>0, <1>12
    <3> QED BY <2>0, <2>3, <3>1
  <2>6. DispatchTransaction(p, h, t, c)
    BY <1>14, <2>5
  <2>7. /\ Changed(trans, trans', t) /\ Remain(trans, trans') /\ trans'[t].conn = c
        /\ trans'[t].state = trans[t].state
    <3>1. 0 \in Priorities \cup {0}
      OBVIOUS
    <3> QED BY <1>1, <1>12, <1>14, <3>1, GetsConn
  <2>8. Requeued(m, p, t, trans')
    <3>1. m.mPendingQ \in [Hosts -> Seq(Transactions)]
      BY <1>1, MgrTypes
    <3>2. p.mPendingQ[h] = s /\ \A g \in Hosts : g # h => p.mPendingQ[g] = m.mPendingQ[g]
      BY <1>12, <2>4, <3>1
    <3>3. \A g \in Hosts : ToSet(p.mPendingQ[g]) = ToSet(m.mPendingQ[g]) \ {t}
      BY <1>0, <1>13, <2>1, <3>2
    <3>4. Sorted(p, trans)
      BY <1>1, <2>2, <3>2 DEF Sorted
    <3>5. Sorted(p, trans')
      <4>1. MgrOK(p) /\ \A u \in Transactions : u # t => trans'[u] = trans[u]
        BY <2>4, <2>7 DEF Changed
      <4>2. \A g \in Hosts : t \notin ToSet(p.mPendingQ[g])
        BY <3>3
      <4> QED BY <3>4, <4>1, <4>2, SortedWithout
    <3> QED BY <1>12, <2>4, <3>3, <3>5 DEF Requeued
  <2>9. /\ Books(mgr', N \ {t}, R, trans', carried', main)
        /\ keepAlive' \in SUBSET Conns /\ Active(mgr') # {} /\ MgrOK(mgr')
        /\ Sum(mgr') <= max.conns \/ Sum(mgr') <= Sum(m)
    <3>1. trans'[t].state = "accepted"
      BY <1>13, <2>7
    <3>2. /\ h = trans[t].host /\ trans[t].conn = None /\ trans[t].state = "accepted"
          /\ c \in Conns /\ Gotten(m, x, c) /\ Requeued(m, p, t, trans')
          /\ DispatchTransaction(p, h, t, c) /\ Changed(trans, trans', t) /\ trans'[t].conn = c
      BY <1>11, <1>12, <1>13, <2>6, <2>7, <2>8
    <3>3. /\ Active(p) = Active(x) /\ Idle(p) = Idle(x)
          /\ p.mNumActiveConns = x.mNumActiveConns /\ p.mNumIdleConns = x.mNumIdleConns
      BY <2>4
    <3> QED BY <3>1, <3>2, <3>3, Dispatched
  <2>10. N \ {t} = N
    BY <1>13
  <2>11. events' \in 0 .. MaxEvents /\ failed' \in BOOLEAN
    BY <1>14 DEF Typed
  <2>12. NothingStranded'
    BY <2>9 DEF NothingStranded
  <2> QED BY <2>7, <2>9, <2>10, <2>11, <2>12 DEF Served
<1>15. ASSUME ActivateFails(x), trans' = trans
       PROVE  Served(m, N, R)
  <2>1. /\ failed' = TRUE /\ events < MaxEvents /\ events' = events + 1
        /\ keepAlive' = keepAlive \cap (Idle(x) \cup Active(x)) /\ mgr' = x /\ carried' = carried
    BY <1>15 DEF ActivateFails, Lost
  <2>2. events' \in 0 .. MaxEvents /\ keepAlive' \in SUBSET Conns
    <3>1. events \in 0 .. MaxEvents /\ MaxEvents \in Nat /\ keepAlive \in SUBSET Conns
      BY HttpAssumption DEF Typed
    <3> QED BY <2>1, <3>1
  <2>3. Books(x, N, R, trans, carried, main)
    <3>1. Sorted(x, trans) /\ \A g \in Hosts : ToSet(x.mPendingQ[g]) = ToSet(m.mPendingQ[g])
      BY <1>1, <1>12 DEF Sorted
    <3>2. N \in SUBSET N /\ \A u \in N \ N : trans[u].state = "error"
      OBVIOUS
    <3> QED BY <1>1, <1>12, <3>1, <3>2, SameBooks
  <2>4. Sum(x) <= max.conns \/ Sum(x) <= Sum(m)
    <3>1. Sum(x) \in Nat /\ Sum(m) \in Nat
      BY <1>1, <1>12, MgrTypes DEF MgrOK, Sum
    <3> QED BY <1>7, <1>12, <3>1
  <2>5. NothingStranded'
    BY <2>1 DEF NothingStranded
  <2> QED BY <1>15, <2>1, <2>2, <2>3, <2>4, <2>5, SameTrans DEF Served
<1> QED BY <1>8, <1>9, <1>10, <1>14, <1>15

LEMMA ProcessStep ==
    ASSUME Typed, main # "down", NEW m, NEW N, NEW R, Books(m, N, R, trans, carried, main),
           NEW h \in Hosts, OnMsgProcessPendingQ(m, h)
    PROVE  Served(m, N, R)
<1>0. PICK ready : ready = {g \in Others(m, h) : Dispatchable(m, g) # {}}
  OBVIOUS
<1>1. Others(m, h) = {h} \/ (Dispatchable(m, h) = {} /\ Others(m, h) = Hosts)
  BY DEF Others
<1>2. CASE ready = {}
  <2>1. /\ mgr' = m /\ keepAlive' = keepAlive \cap (Idle(m) \cup Active(m))
        /\ trans' = trans /\ carried' = carried /\ events' = events /\ failed' = failed
    BY <1>0, <1>2 DEF OnMsgProcessPendingQ, Lost
  <2>2. \A g \in Hosts : Dispatchable(m, g) = {}
    BY <1>0, <1>1, <1>2 DEF Others
  <2>3. MgrOK(m) /\ m \in MgrType
    BY DEF Books, TypedBooks, MgrOK
  <2>4. NothingStranded'
    <3> SUFFICES ASSUME NEW g \in Hosts, ToSet(m.mPendingQ[g]) # {} PROVE Active(m) # {}
      BY <2>1 DEF NothingStranded, PendingAnywhere
    <3>1. PICK i \in DOMAIN m.mPendingQ[g] : TRUE
      BY DEF ToSet
    <3>2. AtActiveConnectionLimit(m, g, Keeps(m.mPendingQ[g][i]))
      BY <2>2 DEF Dispatchable
    <3> QED BY <2>3, <3>2, LimitMeansActive
  <2>5. keepAlive' \in SUBSET Conns /\ events' \in 0 .. MaxEvents /\ failed' \in BOOLEAN
    BY <2>1 DEF Typed
  <2>6. Sum(mgr') <= Sum(m)
    <3>1. m.mNumActiveConns \in Nat /\ m.mNumIdleConns \in Nat
      BY <2>3, MgrTypes
    <3> QED BY <2>1, <3>1 DEF Sum
  <2> QED BY <2>1, <2>4, <2>5, <2>6, SameTrans DEF Served
<1>3. CASE ready # {}
  <2>1. PICK g \in ready : ProcessPendingQForEntry(m, g)
    BY <1>0, <1>3 DEF OnMsgProcessPendingQ
  <2>2. g \in Hosts /\ Dispatchable(m, g) # {}
    BY <1>0, <1>1
  <2> QED BY <2>1, <2>2, EntryStep
<1> QED BY <1>2, <1>3

\* After a handler that took its message.
LEMMA ServedInv ==
    ASSUME HttpInv, NEW m, NEW N, NEW R, Served(m, N, R), MgrOK(m), Sum(m) <= Sum(mgr),
           UNCHANGED <<max, mSocketThreadTarget, main>>,
           Mail(msgs', main'), Known(msgs', trans'), News(msgs') = N, Reclaims(msgs') = R
    PROVE  HttpInv' /\ Bounded
<1>1. /\ Books(mgr', N, R, trans', carried', main) /\ keepAlive' \in SUBSET Conns
      /\ events' \in 0 .. MaxEvents /\ failed' \in BOOLEAN /\ NothingStranded'
      /\ Sum(mgr') <= max.conns \/ Sum(mgr') <= Sum(m)
  BY DEF Served
<1>2. Typed'
  BY <1>1, Sorts DEF Typed
<1>3. Books(mgr', News(msgs'), Reclaims(msgs'), trans', carried', main')
  BY <1>1
<1>4. Bounded
  <2>1. MgrOK(mgr')
    BY <1>1 DEF Books, TypedBooks
  <2>2. Sum(mgr') <= max.conns \/ Sum(mgr') <= Sum(mgr)
    <3>1. Sum(m) \in Nat /\ Sum(mgr) \in Nat /\ Sum(mgr') \in Nat
      <4>1. \A x : MgrOK(x) => Sum(x) \in Nat
        BY MgrTypes DEF MgrOK, Sum
      <4> QED BY <2>1, <4>1, Sorts
    <3> QED BY <1>1, <3>1
  <2> QED BY <2>1, <2>2, Grows
<1> QED BY <1>1, <1>2, <1>3, <1>4 DEF HttpInv

LEMMA ProcessMsgStep ==
    ASSUME HttpInv, OnMsgProcess
    PROVE  HttpInv' /\ Bounded
<1>. PICK N : N = News(msgs)
  OBVIOUS
<1>. PICK R : R = Reclaims(msgs)
  OBVIOUS
<1>0. PICK m : m = mgr
  OBVIOUS
<1>00. PICK h : h = Head(msgs).host
  OBVIOUS
<1>1. /\ Message("process") /\ Received /\ OnMsgProcessPendingQ(m, h)
      /\ max' = max /\ mSocketThreadTarget' = mSocketThreadTarget /\ main' = main
  BY <1>0, <1>00 DEF OnMsgProcess
<1>2. /\ Books(m, N, R, trans, carried, main) /\ MgrOK(m) /\ Typed
      /\ msgs \in Seq(Messages) /\ Mail(msgs, main)
  BY <1>0, Sorts
<1>3. h \in Hosts /\ main # "down"
  <2>1. msgs # << >> /\ Head(msgs).type = "process"
    BY <1>1 DEF Message
  <2>2. Head(msgs) \in Messages /\ main # "down"
    BY <1>2, <2>1, TakeMail
  <2> QED BY <1>00, <2>1, <2>2, MessageFields
<1>4. Served(m, N, R)
  BY <1>1, <1>2, <1>3, ProcessStep
<1>5. Mail(msgs', main') /\ Known(msgs', trans') /\ News(msgs') = N /\ Reclaims(msgs') = R
  <2>1. "process" # "shutdown" /\ "process" # "new" /\ "process" # "reclaim"
    OBVIOUS
  <2>2. Remain(trans, trans')
    BY <1>4 DEF Served
  <2> QED BY <1>1, <2>1, <2>2, Taken
<1>6. Sum(m) <= Sum(mgr)
  <2>1. m.mNumActiveConns \in Nat /\ m.mNumIdleConns \in Nat
    BY <1>2, MgrTypes DEF MgrOK
  <2> QED BY <1>0, <2>1 DEF Sum
<1> QED BY <1>1, <1>2, <1>4, <1>5, <1>6, ServedInv

LEMMA ReclaimStep ==
    ASSUME HttpInv, OnMsgReclaimConnection
    PROVE  HttpInv' /\ Bounded
<1>. PICK N : N = News(msgs)
  OBVIOUS
<1>. PICK R : R = Reclaims(msgs)
  OBVIOUS
<1>0. PICK c : c = Head(msgs).conn
  OBVIOUS
<1>00. PICK h : h = HostOf(c)
  OBVIOUS
<1>1. /\ Message("reclaim") /\ Received
      /\ \/ OnMsgProcessPendingQ(Deactivated(mgr, h, c), h)
         \/ c \in keepAlive /\ OnMsgProcessPendingQ(Idled(Deactivated(mgr, h, c), h, c), h)
      /\ max' = max /\ mSocketThreadTarget' = mSocketThreadTarget /\ main' = main
  BY <1>0, <1>00 DEF OnMsgReclaimConnection, Idled
<1>2. /\ Books(mgr, N, R, trans, carried, main) /\ MgrOK(mgr) /\ Typed /\ mgr \in MgrType
      /\ msgs \in Seq(Messages) /\ Mail(msgs, main) /\ trans \in [Transactions -> TransType]
  BY Sorts DEF MgrOK
<1>3. c \in R /\ main # "down"
  <2>1. msgs # << >> /\ Head(msgs).type = "reclaim"
    BY <1>1 DEF Message
  <2> QED BY <1>0, <1>2, <2>1, TakeMail
<1>4. h \in Hosts /\ c \in mgr.mActiveConns[h]
  <2>1. c \in Active(mgr)
    BY <1>2, <1>3 DEF Books, Announced
  <2> QED BY <1>00, <2>1, HostOfActive
<1>5. PICK d : d = Deactivated(mgr, h, c)
  OBVIOUS
<1>6. /\ MgrOK(d) /\ d.mPendingQ = mgr.mPendingQ /\ c \in Conns
      /\ Active(d) = Active(mgr) \ {c} /\ Idle(d) = Idle(mgr) /\ c \notin Idle(mgr)
  <2>1. MgrOK(mgr)
    BY <1>2
  <2>2. MgrOK(Deactivated(mgr, h, c)) /\ c \in Conns /\ c \notin Idle(mgr)
    BY <1>4, <2>1, DeactivatedOK
  <2>3. Deactivated(mgr, h, c).mPendingQ = mgr.mPendingQ
    BY <1>4, <2>1, DeactivatedOK
  <2>4. Active(Deactivated(mgr, h, c)) = Active(mgr) \ {c}
    BY <1>4, <2>1, DeactivatedOK
  <2>5. Idle(Deactivated(mgr, h, c)) = Idle(mgr)
    BY <1>4, <2>1, DeactivatedOK
  <2> QED BY <1>5, <2>2, <2>3, <2>4, <2>5
<1>7. d.mNumActiveConns = mgr.mNumActiveConns - 1 /\ d.mNumIdleConns = mgr.mNumIdleConns
  BY <1>2, <1>5 DEF Deactivated, MgrType
<1>8. Books(d, N, R \ {c}, trans, carried, main)
  BY <1>2, <1>3, <1>4, <1>5, ReclaimBooks
<1>9. PICK e : e = Idled(d, h, c)
  OBVIOUS
<1>10. /\ MgrOK(e) /\ e.mPendingQ = d.mPendingQ /\ e.mActiveConns = d.mActiveConns
  <2>1. c \notin Active(d) \cup Idle(d)
    BY <1>6
  <2>2. /\ MgrOK(Idled(d, h, c)) /\ Idled(d, h, c).mPendingQ = d.mPendingQ
        /\ Idled(d, h, c).mActiveConns = d.mActiveConns
    BY <1>4, <1>6, <2>1, IdledOK
  <2> QED BY <1>9, <2>2
<1>11. e.mNumActiveConns = d.mNumActiveConns /\ e.mNumIdleConns = d.mNumIdleConns + 1
  <2>1. d \in MgrType
    BY <1>6 DEF MgrOK
  <2> QED BY <1>9, <2>1 DEF Idled, MgrType
<1>12. Books(e, N, R \ {c}, trans, carried, main)
  <2>1. Sorted(e, trans)
    BY <1>8, <1>10 DEF Books, Sorted
  <2>2. \A g \in Hosts : ToSet(e.mPendingQ[g]) = ToSet(d.mPendingQ[g])
    BY <1>10
  <2>3. N \in SUBSET N /\ \A u \in N \ N : trans[u].state = "error"
    OBVIOUS
  <2> QED BY <1>2, <1>8, <1>10, <2>1, <2>2, <2>3, SameBooks
<1>13. /\ d.mNumActiveConns \in Nat /\ d.mNumIdleConns \in Nat
       /\ mgr.mNumActiveConns \in Nat /\ mgr.mNumIdleConns \in Nat
  BY <1>2, <1>6, MgrTypes DEF MgrOK
<1>14. Sum(d) <= Sum(mgr) /\ Sum(e) <= Sum(mgr)
  BY <1>7, <1>11, <1>13 DEF Sum
<1>15. ASSUME NEW m, MgrOK(m), Sum(m) <= Sum(mgr), Served(m, N, R \ {c})
       PROVE  HttpInv' /\ Bounded
  <2>1. Remain(trans, trans')
    BY <1>15 DEF Served
  <2>2. /\ Mail(msgs', main') /\ Known(msgs', trans') /\ News(msgs') = N
        /\ Reclaims(msgs') = R \ {c}
    <3>1. "reclaim" # "shutdown" /\ "reclaim" # "new"
      OBVIOUS
    <3> QED BY <1>0, <1>1, <2>1, <3>1, Taken
  <2>. PICK R2 : R2 = R \ {c}
    OBVIOUS
  <2>3. Served(m, N, R2) /\ Reclaims(msgs') = R2
    BY <1>15, <2>2
  <2> QED BY <1>1, <1>15, <2>2, <2>3, ServedInv
<1>16. CASE OnMsgProcessPendingQ(d, h)
  <2>1. Served(d, N, R \ {c})
    BY <1>2, <1>3, <1>4, <1>8, <1>16, ProcessStep
  <2> QED BY <1>6, <1>14, <1>15, <2>1
<1>17. CASE OnMsgProcessPendingQ(e, h)
  <2>1. Served(e, N, R \ {c})
    BY <1>2, <1>3, <1>4, <1>12, <1>17, ProcessStep
  <2> QED BY <1>10, <1>14, <1>15, <2>1
<1> QED BY <1>1, <1>5, <1>9, <1>16, <1>17

LEMMA NewStep ==
    ASSUME HttpInv, NEW t \in Transactions, NewTransaction(t)
    PROVE  HttpInv' /\ Bounded
<1>. PICK N : N = News(msgs)
  OBVIOUS
<1>. PICK R : R = Reclaims(msgs)
  OBVIOUS
<1>0. PICK h : h = trans[t].host
  OBVIOUS
<1>1. /\ Arrived(t) /\ Received /\ ~ Closed(t) /\ trans[t].conn = None
      /\ IF AtActiveConnectionLimit(mgr, h, Keeps(t))
         THEN /\ trans' = Prioritized(t)
              /\ mgr' = [mgr EXCEPT !.mPendingQ[h] = InsertTransactionSorted(@, t)]
              /\ UNCHANGED <<carried, keepAlive, events, failed>>
         ELSE \E r \in GetConnection(mgr, h, Keeps(t)) :
                \/ /\ DispatchTransaction(r.mgr, h, t, r.conn)
                   /\ trans' = [Prioritized(t) EXCEPT ![t].conn = r.conn]
                   /\ events' = events /\ failed' = failed
                \/ ActivateFails(r.mgr) /\ Close(t, "error")
  BY <1>0 DEF NewTransaction, DroppedAsCanceled
<1>2. /\ t \in N /\ trans[t].state = "accepted" /\ Head(msgs).priority \in Priorities \cup {0}
      /\ \A g \in Hosts : t \notin ToSet(mgr.mPendingQ[g])
      /\ main' = main /\ max' = max /\ mSocketThreadTarget' = mSocketThreadTarget /\ main # "down"
  <2>1. trans[t].state \in {"accepted", "error"}
    BY <1>1, ArrivedFields
  <2> QED BY <1>1, <2>1, ArrivedFields DEF Closed
<1>3. /\ Books(mgr, N, R, trans, carried, main) /\ MgrOK(mgr) /\ Typed /\ mgr \in MgrType
      /\ trans \in [Transactions -> TransType] /\ Sorted(mgr, trans)
  BY Sorts DEF MgrOK, Books
<1>4. h \in Hosts
  BY <1>0, <1>2, <1>3 DEF Books, Placed
<1>5. ASSUME Remain(trans, trans')
      PROVE  Mail(msgs', main') /\ Known(msgs', trans') /\ News(msgs') = N \ {t} /\ Reclaims(msgs') = R
  BY <1>1, <1>5, ArrivedFields
<1>6. PICK k \in BOOLEAN : k = Keeps(t)
  <2>1. ("keep-alive" \in trans[t].caps) \in BOOLEAN
    OBVIOUS
  <2> QED BY <2>1 DEF Keeps
<1>7. CASE AtActiveConnectionLimit(mgr, h, Keeps(t))
  <2>0. PICK q : q = mgr.mPendingQ[h]
    OBVIOUS
  <2>00. PICK s : s = InsertTransactionSorted(q, t)
    OBVIOUS
  <2>1. /\ trans' = Prioritized(t) /\ mgr' = [mgr EXCEPT !.mPendingQ[h] = s]
        /\ carried' = carried /\ keepAlive' = keepAlive /\ events' = events /\ failed' = failed
    BY <1>1, <1>7, <2>0, <2>00
  <2>2. /\ Changed(trans, trans', t) /\ Remain(trans, trans') /\ trans'[t].conn = trans[t].conn
        /\ trans'[t].state = trans[t].state
    BY <1>2, <1>3, <2>1, Prioritizes
  <2>3. q \in Seq(Transactions) /\ Distinct(q) /\ t \notin ToSet(q)
    BY <1>2, <1>3, <1>4, <2>0, QueueTypes
  <2>4. Sorted(mgr, trans')
    <3>1. \A u \in Transactions : u # t => trans'[u] = trans[u]
      BY <2>2 DEF Changed
    <3> QED BY <1>2, <1>3, <3>1, SortedWithout
  <2>5. \A u \in Transactions : trans'[u].priority \in Int
    <3>1. ASSUME NEW u \in Transactions PROVE trans'[u].priority \in Priorities \cup {0}
      <4>1. trans'[u] \in TransType
        BY <2>2 DEF Changed
      <4> QED BY <4>1 DEF TransType
    <3>2. Priorities \cup {0} \subseteq Int
      BY HttpAssumption
    <3> QED BY <3>1, <3>2
  <2>6. SortedQ(q, trans')
    BY <1>4, <2>0, <2>4 DEF Sorted
  <2>7. PICK i \in 1 .. Len(q) + 1 : s = InsertAt(q, i, t) /\ SortedQ(InsertAt(q, i, t), trans')
    BY <2>00, <2>3, <2>5, <2>6, SortedInserted
  <2>8. s \in Seq(Transactions) /\ Distinct(s) /\ ToSet(s) = ToSet(q) \cup {t}
    BY <2>3, <2>7, InsertSet
  <2>9. PICK p : p = [mgr EXCEPT !.mPendingQ[h] = s]
    OBVIOUS
  <2>10. /\ MgrOK(p) /\ p.mActiveConns = mgr.mActiveConns /\ Active(p) = Active(mgr)
         /\ p.mNumActiveConns = mgr.mNumActiveConns /\ p.mNumIdleConns = mgr.mNumIdleConns
         /\ p.mPendingQ = [mgr.mPendingQ EXCEPT ![h] = s]
    BY <1>3, <1>4, <2>8, <2>9, PendingOK
  <2>11. p.mPendingQ[h] = s /\ \A g \in Hosts : g # h => p.mPendingQ[g] = mgr.mPendingQ[g]
    <3>1. mgr.mPendingQ \in [Hosts -> Seq(Transactions)]
      BY <1>3, MgrTypes
    <3> QED BY <1>4, <2>10, <3>1
  <2>12. Sorted(p, trans')
    BY <2>4, <2>7, <2>11 DEF Sorted
  <2>13. Books(p, N \ {t}, R, trans', carried, main)
    <3>1. /\ ToSet(p.mPendingQ[trans[t].host]) = ToSet(mgr.mPendingQ[trans[t].host]) \cup {t}
          /\ \A g \in Hosts : g # trans[t].host => p.mPendingQ[g] = mgr.mPendingQ[g]
      BY <1>0, <2>0, <2>8, <2>11
    <3>2. trans[t].conn = None /\ trans'[t].conn = None /\ trans'[t].state = "accepted"
      BY <1>1, <1>2, <2>2
    <3>3. Changed(trans, trans', t) /\ MgrOK(p) /\ p.mActiveConns = mgr.mActiveConns
      BY <2>2, <2>10
    <3>4. t \in N /\ trans[t].state = "accepted" /\ Books(mgr, N, R, trans, carried, main)
      BY <1>2, <1>3
    <3>5. PICK T2 : T2 = trans'
      OBVIOUS
    <3>6. /\ Sorted(p, T2) /\ Changed(trans, T2, t) /\ T2[t].conn = None
          /\ T2[t].state = "accepted"
      BY <2>12, <3>2, <3>3, <3>5
    <3>7. Books(p, N \ {t}, R, T2, carried, main)
      BY <3>1, <3>2, <3>3, <3>4, <3>6, WaitBooks
    <3> QED BY <3>5, <3>7
  <2>14. mgr' = p /\ Mail(msgs', main') /\ Known(msgs', trans')
         /\ Books(mgr', News(msgs'), Reclaims(msgs'), trans', carried', main')
    BY <1>2, <1>5, <2>1, <2>2, <2>9, <2>13
  <2>15. Typed'
    BY <1>2, <1>3, <2>1 DEF Typed
  <2>16. NothingStranded'
    <3>1. Active(mgr) # {}
      BY <1>3, <1>4, <1>7, LimitMeansActive
    <3> QED BY <2>10, <2>14, <3>1 DEF NothingStranded
  <2>17. Bounded
    <3>1. mgr.mNumActiveConns \in Nat /\ mgr.mNumIdleConns \in Nat
      BY <1>3, MgrTypes
    <3>2. Sum(p) <= Sum(mgr)
      BY <2>10, <3>1 DEF Sum
    <3> QED BY <2>10, <2>14, <3>2, Grows
  <2> QED BY <2>14, <2>15, <2>16, <2>17 DEF HttpInv
<1>8. CASE ~ AtActiveConnectionLimit(mgr, h, Keeps(t))
  <2>1. max.conns \in Nat /\ mgr.mNumActiveConns < max.conns
    BY <1>3, <1>4, <1>8, BelowLimit
  <2>2. PICK r \in GetConnection(mgr, h, k) :
          \/ /\ DispatchTransaction(r.mgr, h, t, r.conn)
             /\ trans' = [Prioritized(t) EXCEPT ![t].conn = r.conn]
             /\ events' = events /\ failed' = failed
          \/ ActivateFails(r.mgr) /\ Close(t, "error")
    BY <1>1, <1>6, <1>8
  <2>3. PICK x : x = r.mgr
    OBVIOUS
  <2>4. PICK c : c = r.conn
    OBVIOUS
  <2>5. Gotten(mgr, x, c)
    BY <1>3, <1>4, <2>1, <2>3, <2>4, GetOK
  <2>6. /\ MgrOK(x) /\ x.mPendingQ = mgr.mPendingQ /\ x.mActiveConns = mgr.mActiveConns
        /\ c \in Conns
        /\ x.mNumActiveConns = mgr.mNumActiveConns /\ x.mNumIdleConns <= mgr.mNumIdleConns
    BY <2>5 DEF Gotten, Fewer
  <2>7. ASSUME Changed(trans, trans', t)
        PROVE  Requeued(mgr, x, t, trans')
    <3>1. Sorted(x, trans) /\ \A g \in Hosts : t \notin ToSet(x.mPendingQ[g])
      BY <1>2, <1>3, <2>6 DEF Sorted
    <3>2. Sorted(x, trans')
      <4>1. MgrOK(x) /\ \A u \in Transactions : u # t => trans'[u] = trans[u]
        BY <2>6, <2>7 DEF Changed
      <4> QED BY <3>1, <4>1, SortedWithout
    <3>3. \A g \in Hosts : ToSet(x.mPendingQ[g]) = ToSet(mgr.mPendingQ[g]) \ {t}
      BY <1>2, <2>6
    <3> QED BY <2>6, <3>2, <3>3 DEF Requeued
  <2>8. ASSUME DispatchTransaction(x, h, t, c),
               trans' = [Prioritized(t) EXCEPT ![t].conn = c], events' = events, failed' = failed
        PROVE  HttpInv' /\ Bounded
    <3>1. /\ Changed(trans, trans', t) /\ Remain(trans, trans') /\ trans'[t].conn = c
          /\ trans'[t].state = trans[t].state
      BY <1>2, <1>3, <2>6, <2>8, GetsConn DEF Prioritized
    <3>2. Requeued(mgr, x, t, trans')
      BY <2>7, <3>1
    <3>3. /\ Books(mgr', N \ {t}, R, trans', carried', main)
          /\ keepAlive' \in SUBSET Conns /\ Active(mgr') # {} /\ MgrOK(mgr')
          /\ Sum(mgr') <= max.conns \/ Sum(mgr') <= Sum(mgr)
      <4>1. trans'[t].state = "accepted" /\ trans[t].state = "accepted" /\ trans[t].conn = None
        BY <1>1, <1>2, <3>1
      <4> QED BY <1>0, <1>2, <1>3, <1>4, <2>5, <2>6, <2>8, <3>1, <3>2, <4>1, Dispatched
    <3>4. /\ Mail(msgs', main') /\ Known(msgs', trans')
          /\ Books(mgr', News(msgs'), Reclaims(msgs'), trans', carried', main')
      BY <1>2, <1>5, <3>1, <3>3
    <3>5. Typed'
      BY <1>2, <1>3, <2>8, <3>3 DEF Typed
    <3>6. NothingStranded'
      BY <3>3 DEF NothingStranded
    <3> QED BY <3>3, <3>4, <3>5, <3>6, Grows DEF HttpInv
  <2>9. ASSUME ActivateFails(x), Close(t, "error")
        PROVE  HttpInv' /\ Bounded
    <3>1. /\ Changed(trans, trans', t) /\ Remain(trans, trans')
          /\ trans'[t].state = "error" /\ trans'[t].conn = None
      BY <1>3, <2>9, Closes DEF KeepsHandle
    <3>2. Requeued(mgr, x, t, trans')
      BY <2>7, <3>1
    <3>3. Typed' /\ NothingStranded' /\ mgr' = x /\ carried' = carried
      BY <1>2, <2>9, FailedNow
    <3>4. Books(x, N \ {t}, R, trans', carried, main)
      <4>1. trans[t].conn = None /\ trans[t].state = "accepted"
        BY <1>1, <1>2
      <4>0. PICK N2 : N2 = N \ {t}
        OBVIOUS
      <4>2. N2 = N \/ N2 = N \ {t}
        BY <4>0
      <4>3. Books(mgr, N, R, trans, carried, main)
        BY <1>3
      <4>4. Books(x, N2, R, trans', carried, main)
        BY <3>1, <3>2, <4>1, <4>2, <4>3, CloseBooks
      <4> QED BY <4>0, <4>4
    <3>5. /\ Mail(msgs', main') /\ Known(msgs', trans')
          /\ Books(mgr', News(msgs'), Reclaims(msgs'), trans', carried', main')
      BY <1>2, <1>5, <3>1, <3>3, <3>4
    <3>6. Bounded
      <4>1. /\ mgr.mNumActiveConns \in Nat /\ mgr.mNumIdleConns \in Nat
            /\ x.mNumActiveConns \in Nat /\ x.mNumIdleConns \in Nat
        BY <1>3, <2>6, MgrTypes DEF MgrOK
      <4>2. Sum(x) <= Sum(mgr)
        BY <2>6, <4>1 DEF Sum
      <4> QED BY <2>6, <3>3, <4>2, Grows
    <3> QED BY <3>3, <3>5, <3>6 DEF HttpInv
  <2> QED BY <2>2, <2>3, <2>4, <2>8, <2>9
<1> QED BY <1>7, <1>8

-----------------------------------------------------------------------------
(* All steps.                                                               *)
LEMMA MainSteps ==
    ASSUME HttpInv, MainStep
    PROVE  HttpInv' /\ Bounded
<1>1. ASSUME NEW t \in Transactions, NEW u \in Transactions, NEW p \in Priorities,
             DoAuthRetry(t, u, p)
      PROVE  HttpInv' /\ Bounded
  BY <1>1, RetryStep
<1>2. ASSUME NEW t \in Transactions, NEW p \in Priorities, trans[t].state = "accepted",
             Call([type |-> "resched", trans |-> t, priority |-> p])
      PROVE  HttpInv' /\ Bounded
  <2>0. PICK e : e = [type |-> "resched", trans |-> t, priority |-> p]
    OBVIOUS
  <2>1. e \in Messages /\ e.type = "resched" /\ e.trans = t
    BY <2>0 DEF Messages
  <2> QED BY <1>2, <2>0, <2>1, CallStep
<1>3. ASSUME NEW t \in Transactions, NEW req \in Requests, AddTransaction(t, req)
      PROVE  HttpInv' /\ Bounded
  BY <1>3, AddStep
<1>4. ASSUME NEW t \in Transactions, trans[t].state = "accepted",
             Call([type |-> "cancel", trans |-> t])
      PROVE  HttpInv' /\ Bounded
  <2>0. PICK e : e = [type |-> "cancel", trans |-> t]
    OBVIOUS
  <2>1. e \in Messages /\ e.type = "cancel" /\ e.trans = t
    BY <2>0 DEF Messages
  <2> QED BY <1>4, <2>0, <2>1, CallStep
<1>5. ASSUME NEW limits \in Limits, Call([type |-> "param", limits |-> limits])
      PROVE  HttpInv' /\ Bounded
  <2>0. PICK e : e = [type |-> "param", limits |-> limits]
    OBVIOUS
  <2>1. e \in Messages /\ e.type = "param"
    BY <2>0 DEF Messages
  <2> QED BY <1>5, <2>0, <2>1, CallStep
<1>6. ASSUME Call([type |-> "prune"])
      PROVE  HttpInv' /\ Bounded
  <2>0. PICK e : e = [type |-> "prune"]
    OBVIOUS
  <2>1. e \in Messages /\ e.type = "prune"
    BY <2>0 DEF Messages
  <2> QED BY <1>6, <2>0, <2>1, CallStep
<1> QED BY <1>1, <1>2, <1>3, <1>4, <1>5, <1>6, ShutdownStep DEF MainStep

LEMMA MessageSteps ==
    ASSUME HttpInv, HandleMessage
    PROVE  HttpInv' /\ Bounded
<1>1. ASSUME NEW t \in Transactions, NewDropped(t) \/ NewSticky(t) \/ NewTransaction(t)
      PROVE  HttpInv' /\ Bounded
  BY <1>1, DroppedStep, StickyStep, NewStep
<1> QED BY <1>1, ProcessMsgStep, ReclaimStep, ReschedStep, CancelStep, ParamStep, PruneStep, DownStep
        DEF HandleMessage

LEMMA EveryStep ==
    ASSUME HttpInv, [Next]_vars
    PROVE  HttpInv' /\ Bounded
<1>1. CASE Next
  BY <1>1, MainSteps, MessageSteps, ReleaseStep, SocketSteps DEF Next
<1>2. CASE UNCHANGED vars
  <2>1. /\ UNCHANGED <<mgr, max, mSocketThreadTarget, msgs, main, trans, carried, failed>>
        /\ keepAlive' = keepAlive /\ events' = events
    BY <1>2 DEF vars
  <2>2. keepAlive' \in SUBSET Conns /\ events' \in 0 .. MaxEvents
    BY <2>1, Sorts DEF Typed
  <2> QED BY <2>1, <2>2, AliveStep
<1> QED BY <1>1, <1>2

(* The inductive invariant of the manager: its books with what is announced *)
(* in messages, carried on connections and held by transactions.            *)
THEOREM Invariance == Spec => []HttpInv
<1>1. HttpInv /\ [Next]_vars => HttpInv'
  BY EveryStep
<1> QED BY Initially, <1>1, PTL DEF Spec

\* A transaction in one queue at most, and on one connection at most.
LEMMA InOnePlace ==
    ASSUME HttpInv PROVE TransactionInOnePlace
<1>. PICK N : N = News(msgs)
  OBVIOUS
<1>1. /\ Books(mgr, N, Reclaims(msgs), trans, carried, main) /\ MgrOK(mgr)
      /\ carried \in [Conns -> Transactions \cup {None}] /\ trans \in [Transactions -> TransType]
  BY Sorts
<1> SUFFICES ASSUME NEW t \in Transactions
             PROVE  IF trans[t].state = "accepted" THEN Places(t) = IF Arriving(t) THEN 0 ELSE 1
                    ELSE Places(t) = 0
  BY DEF TransactionInOnePlace
<1>2. Arriving(t) <=> t \in N
  BY DEF Arriving, News
<1> DEFINE Q == {h \in Hosts : Contains(mgr.mPendingQ[h], t)}
           D == {c \in Conns : carried[c] = t}
<1>3. Places(t) = Cardinality(Q) + Cardinality(D)
  BY DEF Places
<1>4. Q = {h \in Hosts : t \in ToSet(mgr.mPendingQ[h])}
  <2>1. ASSUME NEW h \in Hosts
        PROVE  t \in ToSet(mgr.mPendingQ[h]) <=> Contains(mgr.mPendingQ[h], t)
    BY <1>1, QueueTypes, ToSetContains
  <2> QED BY <2>1
<1>5. t # None
  BY NoneIsNothing
<1>6. \A c \in D : trans[t].conn = c /\ trans[t].state = "accepted" /\ t \notin N
  BY <1>1, <1>5 DEF Books, Handles, Announced
<1>7. \A h \in Q : trans[t].host = h /\ trans[t].state = "accepted" /\ trans[t].conn = None /\ t \notin N
  BY <1>1, <1>4 DEF Books, Placed, Announced
<1>8. Cardinality({}) = 0 /\ \A x : Cardinality({x}) = 1
  BY FS_EmptySet, FS_Singleton
<1>9. trans[t].state = "accepted" /\ t \notin N =>
        \/ trans[t].host \in Q
        \/ trans[t].conn \in D
  <2>1. trans[t] \in TransType
    BY <1>1
  <2>2. trans[t].conn \in Conns \cup {None}
    BY <2>1 DEF TransType
  <2> QED BY <1>1, <1>4, <2>2 DEF Books, Placed
<1>10. \A c \in D : c # None
  BY NoneIsNothing
<1> HIDE DEF Q, D
<1>11. CASE Q = {} /\ D = {}
  BY <1>2, <1>3, <1>8, <1>9, <1>11
<1>12. CASE Q # {}
  <2>1. PICK h \in Q : TRUE
    BY <1>12
  <2>2. Q = {h} /\ D = {}
    BY <1>6, <1>7, <1>10, <2>1
  <2>3. Cardinality(Q) = 1 /\ Cardinality(D) = 0
    BY <1>8, <2>2
  <2>4. Places(t) = 1
    BY <1>3, <2>3
  <2> QED BY <1>2, <1>7, <2>1, <2>4
<1>13. CASE Q = {} /\ D # {}
  <2>1. PICK c \in D : TRUE
    BY <1>13
  <2>2. D = {c}
    BY <1>6, <2>1
  <2>3. Cardinality(Q) = 0 /\ Cardinality(D) = 1
    BY <1>8, <1>13, <2>2
  <2>4. Places(t) = 1
    BY <1>3, <2>3
  <2> QED BY <1>2, <1>6, <2>1, <2>4
<1> QED BY <1>11, <1>12, <1>13

LEMMA BooksKept ==
    ASSUME HttpInv PROVE ManagerInv
<1>. PICK N : N = News(msgs)
  OBVIOUS
<1>. PICK R : R = Reclaims(msgs)
  OBVIOUS
<1>1. /\ Books(mgr, N, R, trans, carried, main) /\ MgrOK(mgr) /\ mgr \in MgrType
      /\ carried \in [Conns -> Transactions \cup {None}] /\ trans \in [Transactions -> TransType]
      /\ Typed
  BY Sorts DEF MgrOK
<1>2. TypeOK
  <2>1. /\ mgr.mPendingQ \in [Hosts -> Seq(Transactions)]
        /\ mgr.mActiveConns \in [Hosts -> SUBSET Conns] /\ mgr.mIdleConns \in [Hosts -> Seq(Conns)]
    BY <1>1, MgrTypes
  <2>2. {mgr.mNumActiveConns, mgr.mNumIdleConns} \subseteq 0 .. Cardinality(Conns)
    BY <1>1, ListTypes DEF MgrOK
  <2> QED BY <1>1, <2>1, <2>2 DEF TypeOK, Typed, TransType
<1>3. CountsExact
  <2>1. ASSUME NEW h \in Hosts PROVE IsInjective(mgr.mIdleConns[h])
    BY <1>1 DEF MgrOK, IsInjective, Distinct
  <2> QED BY <1>1, <2>1 DEF CountsExact, MgrOK
<1>4. ActiveAccounted
  <2> SUFFICES ASSUME mSocketThreadTarget, NEW c \in Active(mgr)
               PROVE  \/ carried[c] # None /\ trans[carried[c]].conn = c
                      \/ \E t \in Transactions : /\ trans[t].conn = c
                                                 /\ (trans[t].state = "ok" \/ Arriving(t))
                      \/ \E i \in DOMAIN msgs : msgs[i].type = "reclaim" /\ msgs[i].conn = c
    BY DEF ActiveAccounted
  <2>1. main = "run" /\ c \in Conns
    BY <1>1, ListTypes DEF Typed
  <2>2. \/ carried[c] # None \/ c \in R
        \/ \E t \in Transactions : trans[t].conn = c /\ (trans[t].state = "ok" \/ t \in N)
    BY <1>1, <2>1 DEF Books, Accounted
  <2>3. carried[c] # None => trans[carried[c]].conn = c
    BY <1>1, <2>1 DEF Books, Handles
  <2> QED BY <2>2, <2>3 DEF Arriving, News, Reclaims
<1>5. PendingSorted
  BY <1>1 DEF Books, Sorted, SortedQ, PendingSorted
<1> QED BY <1>2, <1>3, <1>4, <1>5 DEF ManagerInv

(* The books of nsHttpConnectionMgr are right at all times: mNumActiveConns *)
(* and mNumIdleConns, kept by hand in every handler, are what the lists     *)
(* hold, whatever was purged, pruned, reused, reclaimed and dropped; no     *)
(* connection is listed twice; each active one carries a transaction, waits *)
(* for its retry or is about to be reclaimed; pending queues stay sorted.   *)
THEOREM BooksBalance == Spec => []ManagerInv
<1>1. HttpInv => ManagerInv
  BY BooksKept
<1> QED BY Invariance, <1>1, PTL

(* A transaction that is not closed is in a message, in the queue of its    *)
(* host or on a connection, and nowhere twice; a closed one is in none of   *)
(* them, in whatever order cancel, restart and answer came.                 *)
THEOREM OnePlaceEach == Spec => []TransactionInOnePlace
<1>1. HttpInv => TransactionInOnePlace
  BY InOnePlace
<1> QED BY Invariance, <1>1, PTL

(* Unless an Activate failed, nothing is pending while no connection is     *)
(* active: there is one whose reclaiming looks at the queues again.         *)
THEOREM SomeoneServes == Spec => []NothingStranded
<1>1. HttpInv => NothingStranded
  BY DEF HttpInv
<1> QED BY Invariance, <1>1, PTL

(* No step of any handler takes the open connections of all hosts past      *)
(* mMaxConns, also after UpdateParam has lowered it below their number.     *)
THEOREM LimitKept == Spec => NeverGrowsPastMax
<1>1. HttpInv /\ [Next]_vars => [Total' > Total => Total' <= max.conns]_vars
  BY EveryStep DEF Bounded
<1> QED BY Invariance, <1>1, PTL DEF Spec, NeverGrowsPastMax
=============================================================================
