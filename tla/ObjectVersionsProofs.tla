------------------------ MODULE ObjectVersionsProofs ------------------------
(***************************************************************************)
(* What writes, deliveries and restarts make of the versions of an object. *)
(***************************************************************************)
EXTENDS ObjectVersions, Conditions, SequenceTheorems, TLAPS

\* The versions of an object, without their order.
Copies(h) == {h[i] : i \in 1..Len(h)}

\* Both ends of a history are versions.
LEMMA VersionsEnds ==
    ASSUME NEW S, NEW h \in Versions(S)
    PROVE  /\ Copies(h) \subseteq S
           /\ Stored(h) \in Copies(h) /\ Cached(h) \in Copies(h)
           /\ Stored(h) \in S /\ Cached(h) \in S
           /\ Current(h) => Stored(h) = Cached(h)
           /\ Cached(h) = h[1] /\ h \in Seq(S) /\ Len(h) \in 1..(MaxLag + 1) /\ Len(h) \in Nat
BY LagAssumption DEF Versions, Copies, Stored, Cached, Current

\* A write is one more version at the end.
LEMMA VersionsAppend ==
    ASSUME NEW S, NEW h \in Versions(S), NEW o \in S, CanWrite(h) \/ Current(h)
    PROVE  /\ Append(h, o) \in Versions(S)
           /\ Stored(Append(h, o)) = o
           /\ Cached(Append(h, o)) = Cached(h)
           /\ Copies(Append(h, o)) = Copies(h) \union {o}
           /\ ~Current(Append(h, o))
           /\ Len(Append(h, o)) = Len(h) + 1
           /\ \A i \in 1..Len(h) : Append(h, o)[i] = h[i]
<1>1. /\ h \in Seq(S) /\ Len(h) \in Nat /\ Len(h) >= 1 /\ Len(h) <= MaxLag
      /\ MaxLag \in Nat
  <2> DEFINE l == Len(h)
  <2>1. h \in Seq(S) /\ l \in 1..(MaxLag + 1) /\ (l <= MaxLag \/ l = 1)
    BY DEF Versions, CanWrite, Current
  <2>2. MaxLag \in Nat /\ MaxLag >= 1
    BY LagAssumption
  <2> HIDE DEF l
  <2>3. l \in Nat /\ l >= 1 /\ l <= MaxLag
    BY <2>1, <2>2
  <2>4. QED BY <2>1, <2>2, <2>3 DEF l
<1>2. /\ Append(h, o) \in Seq(S) /\ Len(Append(h, o)) = Len(h) + 1
      /\ \A i \in 1..Len(h) : Append(h, o)[i] = h[i]
      /\ Append(h, o)[Len(h) + 1] = o
  BY <1>1, AppendProperties
<1>3. Append(h, o) \in Versions(S)
  BY <1>1, <1>2 DEF Versions
<1>4. Copies(Append(h, o)) = Copies(h) \union {o}
  BY <1>1, <1>2 DEF Copies
<1>5. Cached(Append(h, o)) = Cached(h)
  <2>1. Cached(Append(h, o)) = Append(h, o)[1] /\ Cached(h) = h[1]
    BY <1>3, VersionsEnds
  <2>2. QED BY <2>1, <1>1, <1>2
<1>6. QED BY <1>1, <1>2, <1>3, <1>4, <1>5 DEF Stored, Current

\* So is a write that may change nothing.
LEMMA VersionsWritten ==
    ASSUME NEW S, NEW h \in Versions(S), NEW o \in S, CanWrite(h) \/ o = Stored(h)
    PROVE  /\ Written(h, o) \in Versions(S)
           /\ Stored(Written(h, o)) = o
           /\ Cached(Written(h, o)) = Cached(h)
           /\ Copies(Written(h, o)) = Copies(h) \union {o}
BY VersionsAppend, VersionsEnds DEF Written

\* A delivery drops the oldest version, never the stored one.
LEMMA VersionsTail ==
    ASSUME NEW S, NEW h \in Versions(S), ~Current(h)
    PROVE  /\ Tail(h) \in Versions(S)
           /\ Stored(Tail(h)) = Stored(h)
           /\ Copies(Tail(h)) \subseteq Copies(h)
           /\ Cached(Tail(h)) \in Copies(h) /\ Cached(Tail(h)) = h[2]
           /\ Len(Tail(h)) = Len(h) - 1
           /\ \A i \in 1..Len(Tail(h)) : Tail(h)[i] = h[i + 1]
<1>0. h \in Seq(S) /\ Len(h) \in 1..(MaxLag + 1) /\ Len(h) # 1 /\ MaxLag \in Nat
  BY LagAssumption DEF Versions, Current
<1>1. h \in Seq(S) /\ Len(h) \in Nat /\ Len(h) >= 2 /\ Len(h) <= MaxLag + 1 /\ MaxLag \in Nat
  <2> DEFINE l == Len(h)
  <2>1. l \in 1..(MaxLag + 1) /\ l # 1 /\ MaxLag \in Nat
    BY <1>0
  <2> HIDE DEF l
  <2>2. l \in Nat /\ l >= 2 /\ l <= MaxLag + 1
    BY <2>1
  <2>3. QED BY <1>0, <2>2 DEF l
<1>2. h # << >>
  BY <1>1
<1>3. /\ Tail(h) \in Seq(S) /\ Len(Tail(h)) = Len(h) - 1
      /\ \A i \in 1..Len(Tail(h)) : Tail(h)[i] = h[i + 1]
  BY <1>1, <1>2, HeadTailProperties
<1>4. Tail(h) \in Versions(S)
  BY <1>1, <1>3 DEF Versions
<1>5. Copies(Tail(h)) \subseteq Copies(h)
  BY <1>1, <1>3 DEF Copies
<1>6. Cached(Tail(h)) \in Copies(h) /\ Cached(Tail(h)) = h[2]
  <2>1. Cached(Tail(h)) = Tail(h)[1]
    BY <1>4, VersionsEnds
  <2>2. QED BY <2>1, <1>1, <1>3 DEF Copies
<1>7. Stored(Tail(h)) = Stored(h)
  BY <1>1, <1>3 DEF Stored
<1>8. QED BY <1>3, <1>4, <1>5, <1>6, <1>7

\* A new object, or one that the informers list anew, has one version.
LEMMA VersionsOne ==
    ASSUME NEW S, NEW o \in S
    PROVE  /\ <<o>> \in Versions(S)
           /\ Stored(<<o>>) = o /\ Cached(<<o>>) = o
           /\ Copies(<<o>>) = {o} /\ Current(<<o>>)
           /\ Len(<<o>>) = 1 /\ <<o>>[1] = o
BY LagAssumption DEF Versions, Stored, Cached, Copies, Current

-----------------------------------------------------------------------------
(* Finalizers. *)

\* The finalizer over the versions of an object: it comes while the object is live,
\* stays until the object is gone, and one that is gone had been seen deleting
\* by then, or never had it.
FinalizerHistory(h) ==
    /\ \A x \in Copies(h) :
          /\ x.life = "deleting" => x.fin
          /\ x.life \in {"absent", "gone"} => ~x.fin
          /\ x.fin => Stored(h).fin \/ Stored(h).life = "gone"
    /\ Stored(h).life = "gone" =>
          \A x, y \in Copies(h) : ~(x.life = "live" /\ y.fin)

\* Writes, deliveries and restarts keep the history in order.
LEMMA FinalizerHistories ==
    ASSUME NEW S, NEW h \in Versions(S), FinalizerHistory(h)
    PROVE  /\ \A o \in S :
                  /\ CanWrite(h) \/ Current(h)
                  /\ o.life = "deleting" => o.fin
                  /\ o.life \in {"absent", "gone"} => ~o.fin
                  /\ Stored(h).fin => o.fin \/ (o.life = "gone" /\ Current(h) /\ Stored(h).life # "live")
                  /\ Stored(h).life # "gone"
                  => FinalizerHistory(Append(h, o))
           /\ ~Current(h) => FinalizerHistory(Tail(h))
           /\ FinalizerHistory(<<Stored(h)>>)
<1>1. ASSUME NEW o \in S,
             CanWrite(h) \/ Current(h),
             o.life = "deleting" => o.fin,
             o.life \in {"absent", "gone"} => ~o.fin,
             Stored(h).fin => o.fin \/ (o.life = "gone" /\ Current(h) /\ Stored(h).life # "live"),
             Stored(h).life # "gone"
      PROVE  FinalizerHistory(Append(h, o))
  <2>1. Copies(Append(h, o)) = Copies(h) \union {o} /\ Stored(Append(h, o)) = o
    BY <1>1, VersionsAppend
  <2>2. \A x \in Copies(h) : x.fin => Stored(h).fin
    BY <1>1 DEF FinalizerHistory
  <2>3. Current(h) => Copies(h) = {Stored(h)}
    BY VersionsEnds DEF Copies, Current, Stored
  <2>4. \A x \in Copies(h) \union {o} :
            /\ x.life = "deleting" => x.fin
            /\ x.life \in {"absent", "gone"} => ~x.fin
            /\ x.fin => o.fin \/ o.life = "gone"
    BY <1>1, <2>2 DEF FinalizerHistory
  <2>5. o.life = "gone" => \A x, y \in Copies(h) \union {o} : ~(x.life = "live" /\ y.fin)
    BY <1>1, <2>2, <2>3
  <2>6. QED BY <2>1, <2>4, <2>5 DEF FinalizerHistory
<1>2. ASSUME ~Current(h) PROVE FinalizerHistory(Tail(h))
  BY <1>2, VersionsTail DEF FinalizerHistory
<1>3. FinalizerHistory(<<Stored(h)>>)
  <2>1. Stored(h) \in S /\ Stored(h) \in Copies(h)
    BY VersionsEnds
  <2>2. Copies(<<Stored(h)>>) = {Stored(h)} /\ Stored(<<Stored(h)>>) = Stored(h)
    BY <2>1, VersionsOne
  <2>3. QED BY <2>1, <2>2 DEF FinalizerHistory
<1>4. QED BY <1>1, <1>2, <1>3

-----------------------------------------------------------------------------
(* Lives. *)

\* A life in L is not left for one outside of it.
Absorbing(h, L) ==
    \A i, j \in 1..Len(h) : i <= j /\ h[i].life \in L => h[j].life \in L

LEMMA AbsorbingSteps ==
    ASSUME NEW S, NEW L, NEW h \in Versions(S), Absorbing(h, L)
    PROVE  /\ \A o \in S : (CanWrite(h) \/ Current(h)) /\ (Stored(h).life \in L => o.life \in L)
                  => Absorbing(Append(h, o), L)
           /\ ~Current(h) => Absorbing(Tail(h), L) /\ (Cached(h).life \in L => Cached(Tail(h)).life \in L)
           /\ Absorbing(<<Stored(h)>>, L)
           /\ Cached(h).life \in L => Stored(h).life \in L
<1>1. Len(h) \in Nat /\ Len(h) >= 1 /\ Cached(h) = h[1] /\ Stored(h) = h[Len(h)] /\ Stored(h) \in S
  BY VersionsEnds DEF Stored
<1>2. ASSUME NEW o \in S, CanWrite(h) \/ Current(h), Stored(h).life \in L => o.life \in L
      PROVE  Absorbing(Append(h, o), L)
  <2>1. /\ Len(Append(h, o)) = Len(h) + 1 /\ Stored(Append(h, o)) = o
        /\ \A i \in 1..Len(h) : Append(h, o)[i] = h[i]
    BY <1>2, VersionsAppend
  <2>2. Append(h, o)[Len(h) + 1] = o
    BY <2>1 DEF Stored
  <2>3. \A i \in 1..Len(h) : h[i].life \in L => h[Len(h)].life \in L
    BY <1>1 DEF Absorbing
  <2>4. QED BY <1>1, <1>2, <2>1, <2>2, <2>3 DEF Absorbing
<1>3. ASSUME ~Current(h)
      PROVE  Absorbing(Tail(h), L) /\ (Cached(h).life \in L => Cached(Tail(h)).life \in L)
  <2>1. /\ Len(Tail(h)) = Len(h) - 1 /\ Cached(Tail(h)) = h[2]
        /\ \A i \in 1..Len(Tail(h)) : Tail(h)[i] = h[i + 1]
    BY <1>3, VersionsTail
  <2>2. Len(h) # 1
    BY <1>3 DEF Current
  <2> DEFINE l == Len(h)
  <2>3. l > 1
    <3>1. l \in Nat /\ l >= 1 /\ l # 1
      BY <1>1, <2>2
    <3> HIDE DEF l
    <3>2. QED BY <3>1
  <2>4. ASSUME NEW i \in 1..Len(Tail(h)), NEW j \in 1..Len(Tail(h)), i <= j, Tail(h)[i].life \in L
        PROVE  Tail(h)[j].life \in L
    <3>1. i + 1 \in 1..Len(h) /\ j + 1 \in 1..Len(h) /\ i + 1 <= j + 1
      BY <1>1, <2>1, <2>4
    <3>2. Tail(h)[i] = h[i + 1] /\ Tail(h)[j] = h[j + 1]
      BY <2>1
    <3>3. QED BY <2>4, <3>1, <3>2 DEF Absorbing
  <2>5. h[1].life \in L => h[2].life \in L
    BY <1>1, <2>3 DEF Absorbing
  <2>6. QED BY <1>1, <2>1, <2>4, <2>5 DEF Absorbing
<1>4. Absorbing(<<Stored(h)>>, L)
  <2>1. Len(<<Stored(h)>>) = 1 /\ <<Stored(h)>>[1] = Stored(h)
    BY <1>1, VersionsOne
  <2>2. QED BY <2>1 DEF Absorbing
<1>5. QED BY <1>1, <1>2, <1>3, <1>4 DEF Absorbing

-----------------------------------------------------------------------------
(* Conditions. *)

\* The condition manager makes conditions of conditions.
LEMMA ConditionTypes ==
    ASSUME NEW cs \in Conditions, NEW why \in Reasons
    PROVE  /\ NoConditions \in Conditions
           /\ SetReady(why) \in Conditions /\ SetProgressing(why) \in Conditions
           /\ SetDegraded(why) \in Conditions /\ SetPaused(cs) \in Conditions
           /\ EnsureAllConditions(cs) \in Conditions
<1>1. "" \in Reasons /\ "Initializing" \in Reasons /\ "Paused" \in Reasons
  BY DEF Reasons
<1>2. \A r, p, d \in BOOLEAN, w \in Reasons : Primary(r, p, d, w) \in Conditions
  BY DEF Primary, Conditions
<1>3. SetPaused(cs) \in Conditions
  BY <1>1 DEF SetPaused, Conditions
<1>4. QED
  BY <1>1, <1>2, <1>3
  DEF NoConditions, SetReady, SetProgressing, SetDegraded, EnsureAllConditions

=============================================================================
