--------------------------- MODULE SearchIndexProofs ---------------------------
(***************************************************************************)
(* TLAPS proofs about search_code's index, for any number of calls that    *)
(* race to build it, any files and texts, and an event queue of any size.  *)
(* The document counts are those of the units, by a count of what every    *)
(* addition and removal changes; and no update is lost between inotify and *)
(* the index, by an invariant about the order of the queued events.        *)
(***************************************************************************)
EXTENDS SearchIndex, FiniteSetTheorems, TLAPS

Index == [units : [Files -> Seq(Seq(Tokens))], df : [Tokens -> Nat], totalLen : Nat, totalDocs : Nat]

Types ==
    /\ files \in [Files -> Texts \cup {Absent}]
    /\ pc \in [Calls -> {"idle", "build", "watch", "publish", "done", "hit", "failed"}]
    /\ todo \in [Calls -> SUBSET Files]
    /\ idx \in [Calls -> Index]
    /\ ctxDone \in [Calls -> BOOLEAN]
    /\ wpc \in [Calls -> {"none", "run", "apply", "orphan", "closed"}]
    /\ hand \in [Calls -> {<<>>} \cup (Files \X Seq(Seq(Tokens)))]
    /\ watched \in [Calls -> SUBSET {"root", "sub"}]
    /\ queue \in [Calls -> Seq(Event)]
    /\ missed \in [Calls -> SUBSET Files]

\* The watcher's goroutine starts when its index is complete, holds an
\* extraction only between reading and applying it, and a call that has no
\* index, or builds it, hears of nothing.
WatcherOrder(c) ==
    /\ wpc[c] = "apply" <=> hand[c] # <<>>
    /\ wpc[c] \in {"run", "apply"} => pc[c] \in {"publish", "done"}
    /\ pc[c] \in {"idle", "build", "hit", "failed"} => watched[c] = {} /\ queue[c] = <<>>

\* Build has added nothing for a file it has yet to read.
Unread(c) ==
    /\ pc[c] = "idle" => \A f \in Files : idx[c].units[f] = <<>>
    /\ pc[c] = "build" => \A f \in todo[c] : idx[c].units[f] = <<>>

\* Nothing is in a directory that does not exist.
SubIsEmpty == ~sub => \A f \in SubFiles : files[f] = Absent

\* An event is about f; the last queued one about it says that it went.
About(e, f) == e.kind \in {"add", "gone"} /\ e.file = f

LastIsGone(q, f) ==
    \E k \in DOMAIN q : /\ q[k].kind = "gone" /\ q[k].file = f
                        /\ \A j \in k + 1 .. Len(q) : ~About(q[j], f)

\* c's index is kept up to date about f.
Tracked(c, f) == HasIndex(c) /\ ~ctxDone[c] /\ f \notin todo[c] \cup missed[c]

\* The queue is right in its last word about a file: one that went last is
\* absent, unless its return was missed.
GoneIsAbsent(c) ==
    \A f \in Files : Tracked(c, f) /\ LastIsGone(queue[c], f) => files[f] = Absent

\* StaleIsPending, for one call.
UpToDate(c) ==
    \A f \in Files : Tracked(c, f) =>
        \/ PendingIn(queue[c], f)
        \/ IF hand[c] # <<>> /\ hand[c][1] = f THEN hand[c][2] = ExtractGoFile(f)
           ELSE idx[c].units[f] = ExtractGoFile(f)

CallInv(c) ==
    WatcherOrder(c) /\ Unread(c) /\ GoneIsAbsent(c) /\ UpToDate(c) /\ ExactCounts(idx[c])

IInv == Types /\ SubIsEmpty /\ \A c \in Calls : CallInv(c)

--------------------------------------------------------------------------------
(* Counting.  Units, token occurrences and units with a given token are    *)
(* all counted file by file: Whole is what a family of finite sets, one    *)
(* for each file, has in it.                                               *)

Whole(P) == UNION {{f} \X P[f] : f \in Files}

Finite(P) == \A f \in Files : IsFiniteSet(P[f])

\* The sets an index's counts are about, as such families.
UnitsBy(ix)     == [f \in Files |-> DOMAIN ix.units[f]]
OccurBy(ix)     == [f \in Files |-> Occurrences(ix.units[f])]
HavingBy(ix, t) == [f \in Files |-> Having(ix.units[f], t)]

\* A union over files of finite sets is finite.
LEMMA WholeFinite ==
    ASSUME NEW D \in SUBSET Files, NEW P, \A f \in D : IsFiniteSet(P[f])
    PROVE  IsFiniteSet(UNION {{f} \X P[f] : f \in D})
<1>. DEFINE S == {{f} \X P[f] : f \in D}
            g == [f \in D |-> {f} \X P[f]]
<1>1. IsFiniteSet(D)  BY SearchAssumption, FS_Subset
<1>2. g \in Surjection(D, S)  BY DEF Surjection
<1>3. IsFiniteSet(S)  BY <1>1, <1>2, FS_Surjection
<1>4. ASSUME NEW T \in S PROVE IsFiniteSet(T)
  <2>1. PICK f \in D : T = {f} \X P[f]  OBVIOUS
  <2>. QED  BY <2>1, FS_Singleton, FS_Product
<1>. HIDE DEF S
<1>5. IsFiniteSet(UNION S)  BY <1>3, <1>4, FS_UNION
<1>. QED  BY <1>5 DEF S

\* Of a whole, what is in one file can be counted apart from the rest.
LEMMA SplitWhole ==
    ASSUME NEW P, Finite(P), NEW f \in Files
    PROVE  LET rest == UNION {{g} \X P[g] : g \in Files \ {f}} IN
           /\ IsFiniteSet(rest) /\ IsFiniteSet(Whole(P))
           /\ Cardinality(Whole(P)) = Cardinality(rest) + Cardinality(P[f])
<1>. DEFINE rest == UNION {{g} \X P[g] : g \in Files \ {f}}
            own == {f} \X P[f]
<1>1. IsFiniteSet(rest) /\ IsFiniteSet(Whole(P))
  <2>1. \A g \in Files : IsFiniteSet(P[g])  BY DEF Finite
  <2>2. IsFiniteSet(rest)  BY <2>1, WholeFinite, Files \ {f} \in SUBSET Files
  <2>3. IsFiniteSet(UNION {{g} \X P[g] : g \in Files})  BY <2>1, WholeFinite, Files \in SUBSET Files
  <2>. QED  BY <2>2, <2>3 DEF Whole
<1>2. IsFiniteSet(own) /\ Cardinality(own) = Cardinality(P[f])
  <2>1. IsFiniteSet({f}) /\ Cardinality({f}) = 1  BY FS_Singleton
  <2>2. IsFiniteSet(P[f]) /\ Cardinality(P[f]) \in Nat  BY FS_CardinalityType DEF Finite
  <2>3. IsFiniteSet(own) /\ Cardinality(own) = Cardinality({f}) * Cardinality(P[f])
    BY <2>1, <2>2, FS_Product, Zenon
  <2>. QED  BY <2>1, <2>2, <2>3
<1>3. Whole(P) = rest \cup own  BY DEF Whole
<1>4. rest \cap own = {}  OBVIOUS
<1>. HIDE DEF rest, own
<1>5. Cardinality(Whole(P)) = Cardinality(rest) + Cardinality(own) - 0
  BY <1>1, <1>2, <1>3, <1>4, FS_Union, FS_EmptySet
<1>6. Cardinality(rest) \in Nat /\ Cardinality(own) \in Nat
  BY <1>1, <1>2, FS_CardinalityType
<1>7. Cardinality(Whole(P)) = Cardinality(rest) + Cardinality(P[f])  BY <1>2, <1>5, <1>6
<1>. QED  BY <1>1, <1>7 DEF rest

\* Replacing what is in one file changes the count by the difference.
LEMMA ReplaceInWhole ==
    ASSUME NEW P, Finite(P), NEW Q, Finite(Q), NEW f \in Files, \A g \in Files \ {f} : Q[g] = P[g]
    PROVE  /\ Cardinality(Whole(Q)) + Cardinality(P[f]) = Cardinality(Whole(P)) + Cardinality(Q[f])
           /\ Cardinality(Whole(Q)) \in Nat /\ Cardinality(Whole(P)) \in Nat
           /\ Cardinality(P[f]) \in Nat /\ Cardinality(Q[f]) \in Nat
           /\ Cardinality(P[f]) <= Cardinality(Whole(P))
<1>. DEFINE restP == UNION {{g} \X P[g] : g \in Files \ {f}}
            restQ == UNION {{g} \X Q[g] : g \in Files \ {f}}
<1>1. restP = restQ  OBVIOUS
<1>2. /\ IsFiniteSet(restP) /\ IsFiniteSet(Whole(P))
      /\ Cardinality(Whole(P)) = Cardinality(restP) + Cardinality(P[f])
  BY SplitWhole
<1>3. IsFiniteSet(Whole(Q)) /\ Cardinality(Whole(Q)) = Cardinality(restQ) + Cardinality(Q[f])
  BY SplitWhole
<1>. HIDE DEF restP, restQ
<1>4. /\ Cardinality(restP) \in Nat /\ Cardinality(P[f]) \in Nat /\ Cardinality(Q[f]) \in Nat
      /\ Cardinality(Whole(P)) \in Nat /\ Cardinality(Whole(Q)) \in Nat
  BY <1>2, <1>3, FS_CardinalityType DEF Finite
<1>. QED  BY <1>1, <1>2, <1>3, <1>4

\* A list of units has finitely many units and occurrences, and as many units
\* as it is long; the empty list has none.
LEMMA ListFinite ==
    ASSUME NEW u \in Seq(Seq(Tokens))
    PROVE  /\ IsFiniteSet(DOMAIN u) /\ Cardinality(DOMAIN u) = Len(u)
           /\ IsFiniteSet(Occurrences(u))
           /\ \A t : IsFiniteSet(Having(u, t))
<1>1. Len(u) \in Nat /\ DOMAIN u = 1 .. Len(u)  OBVIOUS
<1>2. IsFiniteSet(1 .. Len(u)) /\ Cardinality(1 .. Len(u)) = Len(u)
  <2>1. \A n \in Nat : IsFiniteSet(1 .. n) /\ Cardinality(1 .. n) = IF 1 > n THEN 0 ELSE n - 1 + 1
    BY FS_Interval
  <2>. QED  BY <1>1, <2>1
<1>3. \A t : Having(u, t) \in SUBSET (DOMAIN u)  BY DEF Having
<1>4. \A t : IsFiniteSet(Having(u, t))  BY <1>1, <1>2, <1>3, FS_Subset
<1>5. IsFiniteSet(Occurrences(u))
  <2>. DEFINE S == {{k} \X DOMAIN u[k] : k \in DOMAIN u}
              g == [k \in DOMAIN u |-> {k} \X DOMAIN u[k]]
  <2>1. g \in Surjection(DOMAIN u, S)  BY DEF Surjection
  <2>2. IsFiniteSet(S)  BY <1>1, <1>2, <2>1, FS_Surjection
  <2>3. ASSUME NEW T \in S PROVE IsFiniteSet(T)
    <3>1. PICK k \in DOMAIN u : T = {k} \X DOMAIN u[k]  OBVIOUS
    <3>2. u[k] \in Seq(Tokens)  OBVIOUS
    <3>3. DOMAIN u[k] = 1 .. Len(u[k]) /\ Len(u[k]) \in Nat  BY <3>2
    <3>4. IsFiniteSet(DOMAIN u[k])  BY <3>3, FS_Interval
    <3>. QED  BY <3>1, <3>4, FS_Singleton, FS_Product
  <2>. HIDE DEF S
  <2>4. IsFiniteSet(UNION S)  BY <2>2, <2>3, FS_UNION
  <2>. QED  BY <2>4 DEF S, Occurrences
<1>. QED  BY <1>1, <1>2, <1>4, <1>5

\* The empty list has neither units nor occurrences.
LEMMA ListEmpty ==
    /\ <<>> \in Seq(Seq(Tokens)) /\ Len(<<>>) = 0
    /\ Cardinality(DOMAIN <<>>) = 0
    /\ Cardinality(Occurrences(<<>>)) = 0
    /\ \A t : Cardinality(Having(<<>>, t)) = 0
<1>1. DOMAIN <<>> = {} /\ Len(<<>>) = 0 /\ <<>> \in Seq(Seq(Tokens))  OBVIOUS
<1>2. Occurrences(<<>>) = {} /\ \A t : Having(<<>>, t) = {}
  BY <1>1, Zenon DEF Occurrences, Having
<1>. QED  BY <1>1, <1>2, FS_EmptySet

\* Of an index whose units have their types the families are finite, and their
\* wholes are what ExactCounts counts.
LEMMA Families ==
    ASSUME NEW ix \in Index
    PROVE  /\ Finite(UnitsBy(ix)) /\ Finite(OccurBy(ix)) /\ \A t : Finite(HavingBy(ix, t))
           /\ Whole(UnitsBy(ix)) = Docs(ix)
           /\ Whole(OccurBy(ix)) = OccurrencesIn(ix)
           /\ \A t : Whole(HavingBy(ix, t)) = HavingIn(ix, t)
<1>1. \A f \in Files : ix.units[f] \in Seq(Seq(Tokens))  BY DEF Index
<1>2. Finite(UnitsBy(ix)) /\ Finite(OccurBy(ix)) /\ \A t : Finite(HavingBy(ix, t))
  BY <1>1, ListFinite DEF Finite, UnitsBy, OccurBy, HavingBy
<1>3. Whole(UnitsBy(ix)) = Docs(ix)  BY DEF Whole, UnitsBy, Docs
<1>4. Whole(OccurBy(ix)) = OccurrencesIn(ix)  BY DEF Whole, OccurBy, OccurrencesIn
<1>5. ASSUME NEW t PROVE Whole(HavingBy(ix, t)) = HavingIn(ix, t)
  <2>1. \A d : d \in Whole(HavingBy(ix, t))
                <=> \E f \in Files : \E k \in DOMAIN ix.units[f] :
                       d = <<f, k>> /\ t \in Range(ix.units[f][k])
    BY DEF Whole, HavingBy, Having
  <2>2. \A d : d \in HavingIn(ix, t)
                <=> \E f \in Files : \E k \in DOMAIN ix.units[f] :
                       d = <<f, k>> /\ t \in Range(ix.units[f][k])
    BY DEF HavingIn, Docs, ToksOf
  <2>. HIDE DEF Whole, HavingIn
  <2>. QED  BY <2>1, <2>2
<1>. QED  BY <1>2, <1>3, <1>4, <1>5

\* A token that some unit has has a document, so it is searched for.
LEMMA CountedIsFound ==
    ASSUME NEW ix \in Index, NEW t \in Tokens, ix.df[t] = Cardinality(HavingIn(ix, t))
    PROVE  HavingIn(ix, t) \subseteq Search(ix, t)
<1>1. IsFiniteSet(HavingIn(ix, t))
  <2>. DEFINE P == HavingBy(ix, t)
  <2>1. \A f \in Files : IsFiniteSet(P[f])  BY Families DEF Finite
  <2>. HIDE DEF P
  <2>2. IsFiniteSet(UNION {{f} \X P[f] : f \in Files})  BY <2>1, WholeFinite, Files \in SUBSET Files
  <2>3. IsFiniteSet(Whole(P))  BY <2>2 DEF Whole
  <2>. QED  BY <2>3, Families DEF P
<1>2. HavingIn(ix, t) # {} => ix.df[t] # 0  BY <1>1, FS_EmptySet
<1>. QED  BY <1>2 DEF HavingIn, Search

\* When one file's list is replaced, the new counts are exact as soon as they
\* differ from the old ones by what the two lists differ in.
LEMMA ReplaceExact ==
    ASSUME NEW ix \in Index, NEW new \in Index, NEW f \in Files, NEW u \in Seq(Seq(Tokens)),
           ExactCounts(ix), new.units = [ix.units EXCEPT ![f] = u],
           new.totalDocs + Len(ix.units[f]) = ix.totalDocs + Len(u),
           new.totalLen + Cardinality(Occurrences(ix.units[f])) = ix.totalLen + Cardinality(Occurrences(u)),
           \A t \in Tokens : new.df[t] + Cardinality(Having(ix.units[f], t))
                               = ix.df[t] + Cardinality(Having(u, t))
    PROVE  ExactCounts(new)
<1>. DEFINE old == ix.units[f]
<1>1. old \in Seq(Seq(Tokens)) /\ ix.units \in [Files -> Seq(Seq(Tokens))]  BY DEF Index
<1>2. new.units[f] = u /\ \A g \in Files \ {f} : new.units[g] = ix.units[g]  BY <1>1
<1>3. new.totalDocs = Cardinality(Docs(new))
  <2>1. UnitsBy(new)[f] = DOMAIN u /\ UnitsBy(ix)[f] = DOMAIN old
        /\ \A g \in Files \ {f} : UnitsBy(new)[g] = UnitsBy(ix)[g]
    BY <1>2 DEF UnitsBy
  <2>2. /\ Cardinality(Docs(new)) + Cardinality(DOMAIN old) = Cardinality(Docs(ix)) + Cardinality(DOMAIN u)
        /\ Cardinality(Docs(new)) \in Nat /\ Cardinality(Docs(ix)) \in Nat
    BY <2>1, Families, ReplaceInWhole
  <2>3. ix.totalDocs = Cardinality(Docs(ix)) /\ new.totalDocs \in Nat  BY DEF ExactCounts, Index
  <2>4. Cardinality(DOMAIN old) = Len(old) /\ Cardinality(DOMAIN u) = Len(u) /\ Len(old) \in Nat /\ Len(u) \in Nat
    BY <1>1, ListFinite
  <2>. QED  BY <2>2, <2>3, <2>4
<1>4. new.totalLen = Cardinality(OccurrencesIn(new))
  <2>1. OccurBy(new)[f] = Occurrences(u) /\ OccurBy(ix)[f] = Occurrences(old)
        /\ \A g \in Files \ {f} : OccurBy(new)[g] = OccurBy(ix)[g]
    BY <1>2 DEF OccurBy
  <2>2. /\ Cardinality(OccurrencesIn(new)) + Cardinality(Occurrences(old))
             = Cardinality(OccurrencesIn(ix)) + Cardinality(Occurrences(u))
        /\ Cardinality(OccurrencesIn(new)) \in Nat /\ Cardinality(OccurrencesIn(ix)) \in Nat
        /\ Cardinality(Occurrences(old)) \in Nat /\ Cardinality(Occurrences(u)) \in Nat
    BY <2>1, Families, ReplaceInWhole
  <2>3. ix.totalLen = Cardinality(OccurrencesIn(ix)) /\ new.totalLen \in Nat  BY DEF ExactCounts, Index
  <2>. QED  BY <2>2, <2>3
<1>5. ASSUME NEW t \in Tokens PROVE new.df[t] = Cardinality(HavingIn(new, t))
  <2>1. HavingBy(new, t)[f] = Having(u, t) /\ HavingBy(ix, t)[f] = Having(old, t)
        /\ \A g \in Files \ {f} : HavingBy(new, t)[g] = HavingBy(ix, t)[g]
    BY <1>2 DEF HavingBy
  <2>2. /\ Cardinality(HavingIn(new, t)) + Cardinality(Having(old, t))
             = Cardinality(HavingIn(ix, t)) + Cardinality(Having(u, t))
        /\ Cardinality(HavingIn(new, t)) \in Nat /\ Cardinality(HavingIn(ix, t)) \in Nat
        /\ Cardinality(Having(old, t)) \in Nat /\ Cardinality(Having(u, t)) \in Nat
    BY <2>1, Families, ReplaceInWhole
  <2>3. ix.df[t] = Cardinality(HavingIn(ix, t)) /\ new.df[t] \in Nat  BY DEF ExactCounts, Index
  <2>4. new.df[t] + Cardinality(Having(old, t)) = ix.df[t] + Cardinality(Having(u, t))  OBVIOUS
  <2>. QED  BY <2>2, <2>3, <2>4
<1>. QED  BY <1>3, <1>4, <1>5, CountedIsFound DEF ExactCounts

\* addUnitsLocked, which is only called for a file without units, sets them and
\* keeps the counts exact.
LEMMA AddExact ==
    ASSUME NEW ix \in Index, ExactCounts(ix), NEW f \in Files, NEW u \in Seq(Seq(Tokens)),
           ix.units[f] = <<>>
    PROVE  LET new == addUnitsLocked(ix, f, u) IN
           new \in Index /\ ExactCounts(new) /\ new.units = [ix.units EXCEPT ![f] = u]
<1>. DEFINE new == addUnitsLocked(ix, f, u)
<1>1. ix.units \in [Files -> Seq(Seq(Tokens))] /\ ix.df \in [Tokens -> Nat] /\ ix.totalLen \in Nat /\ ix.totalDocs \in Nat
  BY DEF Index
<1>2. /\ Len(u) \in Nat /\ Cardinality(Occurrences(u)) \in Nat
      /\ \A t \in Tokens : Cardinality(Having(u, t)) \in Nat
  BY ListFinite, FS_CardinalityType
<1>3. <<>> \o u = u  OBVIOUS
<1>4. /\ new.units = [ix.units EXCEPT ![f] = u]
      /\ new.df = [t \in Tokens |-> ix.df[t] + Cardinality(Having(u, t))]
      /\ new.totalLen = ix.totalLen + Cardinality(Occurrences(u))
      /\ new.totalDocs = ix.totalDocs + Len(u)
  BY <1>1, <1>3 DEF addUnitsLocked
<1>5. new \in Index
  <2>1. new = [units |-> new.units, df |-> new.df, totalLen |-> new.totalLen, totalDocs |-> new.totalDocs]
    BY DEF addUnitsLocked
  <2>2. new.units \in [Files -> Seq(Seq(Tokens))]  BY <1>1, <1>4
  <2>3. new.df \in [Tokens -> Nat] /\ new.totalLen \in Nat /\ new.totalDocs \in Nat  BY <1>1, <1>2, <1>4
  <2>. HIDE DEF new
  <2>. QED  BY <2>1, <2>2, <2>3 DEF Index
<1>. HIDE DEF new
<1>6. ExactCounts(new)
  <2>1. new.totalDocs + Len(ix.units[f]) = ix.totalDocs + Len(u)  BY <1>1, <1>2, <1>4, ListEmpty
  <2>2. new.totalLen + Cardinality(Occurrences(ix.units[f])) = ix.totalLen + Cardinality(Occurrences(u))
    BY <1>1, <1>2, <1>4, ListEmpty
  <2>3. \A t \in Tokens : new.df[t] + Cardinality(Having(ix.units[f], t)) = ix.df[t] + Cardinality(Having(u, t))
    BY <1>1, <1>2, <1>4, ListEmpty
  <2>. QED  BY <1>4, <1>5, <2>1, <2>2, <2>3, ReplaceExact
<1>. QED  BY <1>4, <1>5, <1>6 DEF new

\* removeFileLocked takes a file's units out and keeps the counts exact: no
\* count stops at zero early, as a file has no more units than the index.
LEMMA RemoveExact ==
    ASSUME NEW ix \in Index, ExactCounts(ix), NEW f \in Files
    PROVE  LET new == removeFileLocked(ix, f) IN
           new \in Index /\ ExactCounts(new) /\ new.units = [ix.units EXCEPT ![f] = <<>>]
<1>. DEFINE new == removeFileLocked(ix, f)
            old == ix.units[f]
<1>1. ix.units \in [Files -> Seq(Seq(Tokens))] /\ ix.df \in [Tokens -> Nat] /\ ix.totalLen \in Nat /\ ix.totalDocs \in Nat
  BY DEF Index
<1>2. old \in Seq(Seq(Tokens)) /\ Len(old) \in Nat  BY <1>1
<1>3. Len(old) <= ix.totalDocs
  <2>1. Cardinality(UnitsBy(ix)[f]) <= Cardinality(Whole(UnitsBy(ix)))
    BY Families, ReplaceInWhole
  <2>. QED  BY <1>2, <2>1, Families, ListFinite DEF UnitsBy, ExactCounts
<1>4. Cardinality(Occurrences(old)) <= ix.totalLen /\ Cardinality(Occurrences(old)) \in Nat
  <2>1. Cardinality(OccurBy(ix)[f]) <= Cardinality(Whole(OccurBy(ix))) /\ Cardinality(OccurBy(ix)[f]) \in Nat
    BY Families, ReplaceInWhole
  <2>. QED  BY <2>1, Families DEF OccurBy, ExactCounts
<1>5. ASSUME NEW t \in Tokens
      PROVE  Cardinality(Having(old, t)) <= ix.df[t] /\ Cardinality(Having(old, t)) \in Nat
  <2>1. Cardinality(HavingBy(ix, t)[f]) <= Cardinality(Whole(HavingBy(ix, t))) /\ Cardinality(HavingBy(ix, t)[f]) \in Nat
    BY Families, ReplaceInWhole
  <2>. QED  BY <2>1, Families DEF HavingBy, ExactCounts
<1>6. /\ new.units = [ix.units EXCEPT ![f] = <<>>]
      /\ new.df = [t \in Tokens |-> Less(ix.df[t], Cardinality(Having(old, t)))]
      /\ new.totalLen = ix.totalLen - Cardinality(Occurrences(old))
      /\ new.totalDocs = ix.totalDocs - Len(old)
  BY DEF removeFileLocked
<1>7. \A t \in Tokens : Less(ix.df[t], Cardinality(Having(old, t))) = ix.df[t] - Cardinality(Having(old, t))
                        /\ ix.df[t] - Cardinality(Having(old, t)) \in Nat
  BY <1>1, <1>5 DEF Less
<1>8. new \in Index
  <2>1. new = [units |-> new.units, df |-> new.df, totalLen |-> new.totalLen, totalDocs |-> new.totalDocs]
    BY DEF removeFileLocked
  <2>2. new.units \in [Files -> Seq(Seq(Tokens))]  BY <1>1, <1>6, ListEmpty
  <2>3. new.df \in [Tokens -> Nat]  BY <1>6, <1>7
  <2>4. new.totalLen \in Nat /\ new.totalDocs \in Nat  BY <1>1, <1>2, <1>3, <1>4, <1>6
  <2>. HIDE DEF new
  <2>. QED  BY <2>1, <2>2, <2>3, <2>4 DEF Index
<1>. HIDE DEF new
<1>9. \A t \in Tokens : new.df[t] + Cardinality(Having(ix.units[f], t)) = ix.df[t] + Cardinality(Having(<<>>, t))
  BY <1>1, <1>5, <1>6, <1>7, ListEmpty
<1>10. new.totalDocs + Len(ix.units[f]) = ix.totalDocs + Len(<<>>)
  BY <1>1, <1>2, <1>6, ListEmpty
<1>11. new.totalLen + Cardinality(Occurrences(ix.units[f])) = ix.totalLen + Cardinality(Occurrences(<<>>))
  BY <1>1, <1>4, <1>6, ListEmpty
<1>12. ExactCounts(new)
  <2>. DEFINE none == <<>>
  <2>1. none \in Seq(Seq(Tokens))  OBVIOUS
  <2>2. new.units = [ix.units EXCEPT ![f] = none]  BY <1>6
  <2>3. /\ \A t \in Tokens : new.df[t] + Cardinality(Having(ix.units[f], t)) = ix.df[t] + Cardinality(Having(none, t))
        /\ new.totalDocs + Len(ix.units[f]) = ix.totalDocs + Len(none)
        /\ new.totalLen + Cardinality(Occurrences(ix.units[f])) = ix.totalLen + Cardinality(Occurrences(none))
    BY <1>9, <1>10, <1>11
  <2>. HIDE DEF none
  <2>. QED  BY <1>8, <2>1, <2>2, <2>3, ReplaceExact
<1>. QED  BY <1>6, <1>8, <1>12 DEF new

\* The empty index counts nothing.
LEMMA EmptyExact == EmptyIndex \in Index /\ ExactCounts(EmptyIndex)
<1>1. EmptyIndex \in Index  BY ListEmpty DEF EmptyIndex, Index
<1>2. \A f \in Files : EmptyIndex.units[f] = <<>>  BY DEF EmptyIndex
<1>3. Docs(EmptyIndex) = {} /\ OccurrencesIn(EmptyIndex) = {} /\ \A t : HavingIn(EmptyIndex, t) = {}
  <2>0. DOMAIN <<>> = {}  OBVIOUS
  <2>1. Occurrences(<<>>) = {}  BY <2>0, Zenon DEF Occurrences
  <2>2. Docs(EmptyIndex) = {}  BY <1>2, <2>0 DEF Docs
  <2>3. OccurrencesIn(EmptyIndex) = {}  BY <1>2, <2>1 DEF OccurrencesIn
  <2>. QED  BY <2>2, <2>3 DEF HavingIn
<1>4. /\ EmptyIndex.totalDocs = 0 /\ EmptyIndex.totalLen = 0
      /\ \A t \in Tokens : EmptyIndex.df[t] = 0
  BY DEF EmptyIndex
<1>. QED  BY <1>1, <1>3, <1>4, FS_EmptySet DEF ExactCounts

--------------------------------------------------------------------------------
(* The event queue.                                                        *)

\* A new event is the last word about its file and changes nothing else.
LEMMA AppendEvent ==
    ASSUME NEW q \in Seq(Event), NEW e \in Event, NEW f \in Files
    PROVE  /\ Append(q, e) \in Seq(Event)
           /\ PendingIn(q, f) \/ About(e, f) => PendingIn(Append(q, e), f)
           /\ LastIsGone(Append(q, e), f) => IF About(e, f) THEN e.kind = "gone" ELSE LastIsGone(q, f)
<1>. DEFINE r == Append(q, e)
<1>1. /\ r \in Seq(Event) /\ Len(r) = Len(q) + 1 /\ r[Len(q) + 1] = e /\ Len(q) \in Nat
      /\ \A k \in 1 .. Len(q) : r[k] = q[k]
  OBVIOUS
<1>2. DOMAIN q = 1 .. Len(q) /\ DOMAIN r = 1 .. Len(q) + 1  BY <1>1
<1>. HIDE DEF r
<1>3. PendingIn(q, f) \/ About(e, f) => PendingIn(r, f)
  BY <1>1, <1>2 DEF PendingIn, About
<1>4. ASSUME LastIsGone(r, f) PROVE IF About(e, f) THEN e.kind = "gone" ELSE LastIsGone(q, f)
  <2>1. PICK k \in 1 .. Len(q) + 1 : /\ r[k].kind = "gone" /\ r[k].file = f
                                     /\ \A j \in k + 1 .. Len(q) + 1 : ~About(r[j], f)
    BY <1>1, <1>2, <1>4 DEF LastIsGone
  <2>2. CASE k = Len(q) + 1  BY <1>1, <2>1, <2>2 DEF About
  <2>3. CASE k # Len(q) + 1
    <3>1. k \in 1 .. Len(q) /\ Len(q) + 1 \in k + 1 .. Len(q) + 1  BY <1>1, <2>3
    <3>2. ~About(e, f)  BY <1>1, <2>1, <3>1
    <3>3. \A j \in k + 1 .. Len(q) : ~About(q[j], f)  BY <1>1, <2>1, <3>1
    <3>. QED  BY <1>1, <1>2, <2>1, <3>1, <3>2, <3>3 DEF LastIsGone
  <2>. QED  BY <2>2, <2>3
<1>. QED  BY <1>1, <1>3, <1>4 DEF r

\* When the first event is taken, the last words about every file stay, except
\* that of the event itself when nothing follows it.
LEMMA TailEvent ==
    ASSUME NEW q \in Seq(Event), q # <<>>, NEW f \in Files
    PROVE  /\ Tail(q) \in Seq(Event) /\ Head(q) \in Event
           /\ PendingIn(q, f) => About(Head(q), f) \/ PendingIn(Tail(q), f)
           /\ LastIsGone(Tail(q), f) => PendingIn(Tail(q), f) /\ LastIsGone(q, f)
           /\ Head(q).kind = "gone" /\ Head(q).file = f /\ ~PendingIn(Tail(q), f) => LastIsGone(q, f)
<1>. DEFINE r == Tail(q)
<1>1. /\ r \in Seq(Event) /\ Len(r) = Len(q) - 1 /\ Head(q) = q[1] /\ Len(q) \in Nat /\ Len(q) # 0
      /\ \A k \in 1 .. Len(q) - 1 : r[k] = q[k + 1]
  OBVIOUS
<1>2. DOMAIN q = 1 .. Len(q) /\ DOMAIN r = 1 .. Len(q) - 1 /\ Head(q) \in Event  BY <1>1
<1>. HIDE DEF r
<1>3. \A k \in 2 .. Len(q) : k - 1 \in 1 .. Len(q) - 1 /\ r[k - 1] = q[k]  BY <1>1
<1>4. PendingIn(q, f) => About(Head(q), f) \/ PendingIn(r, f)
  <2>1. SUFFICES ASSUME NEW k \in 1 .. Len(q), About(q[k], f) PROVE About(Head(q), f) \/ PendingIn(r, f)
    BY <1>2 DEF PendingIn, About
  <2>2. CASE k = 1  BY <1>1, <2>1, <2>2
  <2>3. CASE k # 1  BY <1>1, <1>2, <1>3, <2>1, <2>3 DEF PendingIn, About
  <2>. QED  BY <2>2, <2>3
<1>5. LastIsGone(r, f) => PendingIn(r, f) /\ LastIsGone(q, f)
  <2>1. SUFFICES ASSUME NEW k \in 1 .. Len(q) - 1, r[k].kind = "gone", r[k].file = f,
                        \A j \in k + 1 .. Len(q) - 1 : ~About(r[j], f)
                 PROVE  PendingIn(r, f) /\ LastIsGone(q, f)
    BY <1>1, <1>2 DEF LastIsGone
  <2>2. k + 1 \in 1 .. Len(q) /\ q[k + 1] = r[k]  BY <1>1
  <2>3. ASSUME NEW j \in (k + 1) + 1 .. Len(q) PROVE ~About(q[j], f)
    <3>1. j - 1 \in k + 1 .. Len(q) - 1 /\ j \in 2 .. Len(q)  BY <1>1
    <3>. QED  BY <1>3, <2>1, <3>1
  <2>4. PendingIn(r, f)  BY <1>2, <2>1 DEF PendingIn
  <2>5. LastIsGone(q, f)  BY <1>2, <2>1, <2>2, <2>3 DEF LastIsGone
  <2>. QED  BY <2>4, <2>5
<1>6. Head(q).kind = "gone" /\ Head(q).file = f /\ ~PendingIn(r, f) => LastIsGone(q, f)
  <2>1. SUFFICES ASSUME q[1].kind = "gone", q[1].file = f, ~PendingIn(r, f) PROVE LastIsGone(q, f)
    BY <1>1
  <2>2. ASSUME NEW j \in 1 + 1 .. Len(q) PROVE ~About(q[j], f)
    BY <1>1, <1>2, <1>3, <2>1 DEF PendingIn, About
  <2>3. 1 \in DOMAIN q  BY <1>1, <1>2
  <2>. QED  BY <2>1, <2>2, <2>3 DEF LastIsGone
<1>. QED  BY <1>1, <1>2, <1>4, <1>5, <1>6 DEF r

\* A full queue gets at most a note that it overflowed, which is about no file.
LEMMA EnqueueEvent ==
    ASSUME NEW c \in Calls, queue[c] \in Seq(Event), NEW e \in Event, NEW f \in Files
    PROVE  /\ Enqueue(c, e) \in Seq(Event)
           /\ PendingIn(queue[c], f) \/ (Fits(c) /\ About(e, f)) => PendingIn(Enqueue(c, e), f)
           /\ LastIsGone(Enqueue(c, e), f) =>
                IF Fits(c) /\ About(e, f) THEN e.kind = "gone" ELSE LastIsGone(queue[c], f)
<1>. DEFINE note == [kind |-> "overflow", file |-> None]
<1>1. note \in Event /\ ~About(note, f)  BY DEF Event, About
<1>2. CASE Fits(c)
  <2>1. Enqueue(c, e) = Append(queue[c], e)  BY <1>2 DEF Enqueue
  <2>. QED  BY <1>2, <2>1, AppendEvent
<1>3. CASE ~Fits(c) /\ Enqueue(c, e) = queue[c]  BY <1>3
<1>4. CASE ~Fits(c) /\ Enqueue(c, e) = Append(queue[c], note)
  <2>. HIDE DEF note
  <2>. QED  BY <1>1, <1>4, AppendEvent
<1>5. ~Fits(c) => Enqueue(c, e) = queue[c] \/ Enqueue(c, e) = Append(queue[c], note)
  BY DEF Enqueue
<1>. QED  BY <1>2, <1>3, <1>4, <1>5

--------------------------------------------------------------------------------
(* The steps.                                                              *)

Same(d) ==
    /\ pc'[d] = pc[d] /\ todo'[d] = todo[d] /\ idx'[d] = idx[d] /\ ctxDone'[d] = ctxDone[d]
    /\ wpc'[d] = wpc[d] /\ hand'[d] = hand[d] /\ watched'[d] = watched[d]
    /\ queue'[d] = queue[d] /\ missed'[d] = missed[d]

\* The units of a file's text have their types.
LEMMA Extracted ==
    ASSUME Types, NEW f \in Files
    PROVE  ExtractGoFile(f) \in Seq(Seq(Tokens))
BY SearchAssumption DEF Types, ExtractGoFile

\* A call for which nothing changes keeps its invariant.
LEMMA Frame ==
    ASSUME NEW d \in Calls, CallInv(d), files' = files, Same(d)
    PROVE  CallInv(d)'
<1>1. WatcherOrder(d)' /\ Unread(d)'  BY DEF CallInv, Same, WatcherOrder, Unread
<1>2. GoneIsAbsent(d)'  BY DEF CallInv, Same, GoneIsAbsent, Tracked, HasIndex
<1>3. UpToDate(d)'  BY DEF CallInv, Same, UpToDate, Tracked, HasIndex, ExtractGoFile
<1>4. ExactCounts(idx[d])'  BY DEF CallInv, Same
<1>. QED  BY <1>1, <1>2, <1>3, <1>4 DEF CallInv

\* A step of one call, which leaves the workspace alone, has only that call's
\* invariant to keep.
LEMMA OneCall ==
    ASSUME IInv, NEW c \in Calls, Types', UNCHANGED <<files, sub>>,
           \A d \in Calls \ {c} : Same(d), CallInv(c)'
    PROVE  IInv'
<1>1. SubIsEmpty'  BY DEF IInv, SubIsEmpty
<1>2. ASSUME NEW d \in Calls PROVE CallInv(d)'
  <2>1. CASE d = c  BY <2>1
  <2>2. CASE d # c  BY <2>2, Frame DEF IInv
  <2>. QED  BY <2>1, <2>2
<1>. QED  BY <1>1, <1>2 DEF IInv

\* A call without an index has nothing to keep up to date.
LEMMA NoIndex ==
    ASSUME NEW c \in Calls, Types, pc[c] \in {"idle", "hit", "failed"}
    PROVE  GoneIsAbsent(c) /\ UpToDate(c)
BY DEF GoneIsAbsent, UpToDate, Tracked, HasIndex

\* Initially no call has begun.
LEMMA InitIInv == Init => IInv
<1>. SUFFICES ASSUME Init PROVE IInv  OBVIOUS
<1>1. Types
  <2>1. <<>> \in Seq(Event)  OBVIOUS
  <2>2. idx \in [Calls -> Index]  BY EmptyExact DEF Init
  <2>. QED  BY <2>1, <2>2 DEF Init, Types
<1>2. SubIsEmpty  BY DEF Init, SubIsEmpty
<1>3. ASSUME NEW c \in Calls PROVE CallInv(c)
  <2>1. pc[c] = "idle" /\ wpc[c] = "none" /\ hand[c] = <<>> /\ watched[c] = {} /\ queue[c] = <<>>
        /\ idx[c] = EmptyIndex
    BY DEF Init
  <2>2. WatcherOrder(c)  BY <2>1 DEF WatcherOrder
  <2>3. Unread(c)  BY <2>1 DEF Unread, EmptyIndex
  <2>4. GoneIsAbsent(c) /\ UpToDate(c)  BY <1>1, <2>1, NoIndex
  <2>. QED  BY <2>1, <2>2, <2>3, <2>4, EmptyExact DEF CallInv
<1>. QED  BY <1>1, <1>2, <1>3 DEF IInv

\* getOrBuildIndex, up to the watch.
LEMMA BuildIInv ==
    ASSUME IInv, NEW c \in Calls,
           CacheHit(c) \/ CacheMiss(c) \/ (\E f \in Files : BuildFile(c, f)) \/ BuildFails(c)
    PROVE  IInv'
<1>0. Types /\ CallInv(c) /\ WatcherOrder(c) /\ Unread(c) /\ ExactCounts(idx[c]) /\ UpToDate(c)
  BY DEF IInv, CallInv
<1>1. CASE CacheHit(c)
  <2>1. Types'  BY <1>0, <1>1 DEF CacheHit, Types
  <2>2. UNCHANGED <<files, sub>> /\ \A d \in Calls \ {c} : Same(d)
    BY <1>0, <1>1 DEF CacheHit, Types, Same
  <2>3. pc[c] = "idle" /\ pc'[c] = "hit"  BY <1>0, <1>1 DEF CacheHit, Types
  <2>4. (GoneIsAbsent(c) /\ UpToDate(c))'  BY <2>1, <2>3 DEF GoneIsAbsent, UpToDate, Tracked, HasIndex
  <2>5. CallInv(c)'
    BY <1>0, <1>1, <2>3, <2>4 DEF CacheHit, CallInv, WatcherOrder, Unread
  <2>. QED  BY <2>1, <2>2, <2>5, OneCall
<1>2. CASE CacheMiss(c)
  <2>1. Types'  BY <1>0, <1>2 DEF CacheMiss, Types
  <2>2. UNCHANGED <<files, sub>> /\ \A d \in Calls \ {c} : Same(d)
    BY <1>0, <1>2 DEF CacheMiss, Types, Same
  <2>3. pc[c] = "idle" /\ pc'[c] = "build" /\ todo'[c] = Files  BY <1>0, <1>2 DEF CacheMiss, Types
  <2>4. (GoneIsAbsent(c) /\ UpToDate(c))'  BY <2>1, <2>3 DEF GoneIsAbsent, UpToDate, Tracked
  <2>5. CallInv(c)'
    BY <1>0, <1>2, <2>3, <2>4 DEF CacheMiss, CallInv, WatcherOrder, Unread
  <2>. QED  BY <2>1, <2>2, <2>5, OneCall
<1>3. ASSUME NEW f \in Files, BuildFile(c, f) PROVE IInv'
  <2>. DEFINE u == ExtractGoFile(f)
              new == addUnitsLocked(idx[c], f, u)
  <2>1. pc[c] = "build" /\ f \in todo[c] /\ idx[c] \in Index /\ idx[c].units[f] = <<>>
    BY <1>0, <1>3 DEF BuildFile, Types, Unread
  <2>2. u \in Seq(Seq(Tokens))  BY <1>0, Extracted
  <2>. HIDE DEF u
  <2>3. new \in Index /\ ExactCounts(new) /\ new.units = [idx[c].units EXCEPT ![f] = u]
    BY <1>0, <2>1, <2>2, AddExact
  <2>4. idx' = [idx EXCEPT ![c] = new] /\ todo' = [todo EXCEPT ![c] = @ \ {f}]
        /\ UNCHANGED <<files, sub, cache, pc, ctxDone, wpc, hand, watched, queue, changes, missed>>
    BY <1>3 DEF BuildFile, u
  <2>. HIDE DEF new
  <2>5. Types'  BY <1>0, <2>3, <2>4 DEF Types
  <2>6. \A d \in Calls \ {c} : Same(d)  BY <1>0, <2>4 DEF Types, Same
  <2>7. idx'[c] = new /\ todo'[c] = todo[c] \ {f}  BY <1>0, <2>4 DEF Types
  <2>8. idx[c].units \in [Files -> Seq(Seq(Tokens))]  BY <2>1 DEF Index
  <2>9. idx'[c].units[f] = u /\ \A g \in Files \ {f} : idx'[c].units[g] = idx[c].units[g]
    BY <2>3, <2>7, <2>8
  <2>10. WatcherOrder(c)'  BY <1>0, <2>4 DEF WatcherOrder
  <2>11. Unread(c)'  BY <1>0, <2>1, <2>4, <2>7, <2>9 DEF Unread, Types
  <2>12. GoneIsAbsent(c)'
    BY <1>0, <2>1, <2>4 DEF GoneIsAbsent, LastIsGone, WatcherOrder
  <2>13. UpToDate(c)'
    <3>1. hand[c] = <<>>  BY <1>0, <2>1 DEF WatcherOrder
    <3>2. SUFFICES ASSUME NEW g \in Files, Tracked(c, g)'
                   PROVE  idx'[c].units[g] = ExtractGoFile(g)'
      BY <2>4, <3>1 DEF UpToDate
    <3>3. ExtractGoFile(g)' = ExtractGoFile(g)  BY <2>4 DEF ExtractGoFile
    <3>4. CASE g = f  BY <2>9, <3>3, <3>4 DEF u
    <3>5. CASE g # f
      <4>1. Tracked(c, g)  BY <2>4, <2>7, <3>2, <3>5 DEF Tracked, HasIndex
      <4>2. ~PendingIn(queue[c], g)  BY <1>0, <2>1 DEF WatcherOrder, PendingIn
      <4>. QED  BY <1>0, <2>9, <3>1, <3>3, <3>5, <4>1, <4>2 DEF UpToDate
    <3>. QED  BY <3>4, <3>5
  <2>14. ExactCounts(idx[c])'  BY <2>3, <2>7
  <2>. QED  BY <2>4, <2>5, <2>6, <2>10, <2>11, <2>12, <2>13, <2>14, OneCall DEF CallInv
<1>4. CASE BuildFails(c)
  <2>1. Types'  BY <1>0, <1>4, EmptyExact DEF BuildFails, Types
  <2>2. UNCHANGED <<files, sub>> /\ \A d \in Calls \ {c} : Same(d)
    BY <1>0, <1>4 DEF BuildFails, Types, Same
  <2>3. pc[c] = "build" /\ pc'[c] = "failed" /\ idx'[c] = EmptyIndex  BY <1>0, <1>4 DEF BuildFails, Types
  <2>4. (GoneIsAbsent(c) /\ UpToDate(c))'  BY <2>1, <2>3 DEF GoneIsAbsent, UpToDate, Tracked, HasIndex
  <2>5. ExactCounts(idx[c])'  BY <2>3, EmptyExact
  <2>6. CallInv(c)'
    BY <1>0, <1>4, <2>3, <2>4, <2>5 DEF BuildFails, CallInv, WatcherOrder, Unread
  <2>. QED  BY <2>1, <2>2, <2>6, OneCall
<1>. QED  BY <1>1, <1>2, <1>3, <1>4

\* Watching and publishing: where the watch fails, what its queue held is
\* missed from then on.
LEMMA WatchIInv ==
    ASSUME IInv, NEW c \in Calls,
           WatchRoot(c) \/ WatchRest(c) \/ WatchFails(c) \/ Publish(c) \/ LoseRace(c)
    PROVE  IInv'
<1>0. Types /\ CallInv(c) /\ WatcherOrder(c) /\ Unread(c) /\ ExactCounts(idx[c]) /\ UpToDate(c) /\ GoneIsAbsent(c)
  BY DEF IInv, CallInv
<1>1. CASE WatchRoot(c)
  <2>1. Types'  BY <1>0, <1>1 DEF WatchRoot, Types
  <2>2. UNCHANGED <<files, sub>> /\ \A d \in Calls \ {c} : Same(d)
    BY <1>0, <1>1 DEF WatchRoot, Types, Same
  <2>3. pc[c] = "build" /\ pc'[c] = "watch"  BY <1>0, <1>1 DEF WatchRoot, Types
  <2>4. \A f \in Files : Tracked(c, f)' => Tracked(c, f)
    BY <1>1, <2>3 DEF WatchRoot, Tracked, HasIndex
  <2>5. GoneIsAbsent(c)'  BY <1>0, <1>1, <2>4 DEF WatchRoot, GoneIsAbsent
  <2>6. UpToDate(c)'  BY <1>0, <1>1, <2>4 DEF WatchRoot, UpToDate, ExtractGoFile
  <2>7. WatcherOrder(c)' /\ Unread(c)' /\ ExactCounts(idx[c])'
    BY <1>0, <1>1, <2>3 DEF WatchRoot, WatcherOrder, Unread
  <2>. QED  BY <2>1, <2>2, <2>5, <2>6, <2>7, OneCall DEF CallInv
<1>2. CASE WatchRest(c)
  <2>1. Types'  BY <1>0, <1>2 DEF WatchRest, Types
  <2>2. UNCHANGED <<files, sub>> /\ \A d \in Calls \ {c} : Same(d)
    BY <1>0, <1>2 DEF WatchRest, Types, Same
  <2>3. pc[c] = "watch" /\ pc'[c] = "publish" /\ wpc'[c] = "run" /\ wpc[c] # "apply"
    BY <1>0, <1>2 DEF WatchRest, Types, WatcherOrder
  <2>4. \A f \in Files : Tracked(c, f)' => Tracked(c, f)
    BY <1>2, <2>3 DEF WatchRest, Tracked, HasIndex
  <2>5. GoneIsAbsent(c)'  BY <1>0, <1>2, <2>4 DEF WatchRest, GoneIsAbsent
  <2>6. UpToDate(c)'  BY <1>0, <1>2, <2>4 DEF WatchRest, UpToDate, ExtractGoFile
  <2>7. WatcherOrder(c)' /\ Unread(c)' /\ ExactCounts(idx[c])'
    BY <1>0, <1>2, <2>3 DEF WatchRest, WatcherOrder, Unread
  <2>. QED  BY <2>1, <2>2, <2>5, <2>6, <2>7, OneCall DEF CallInv
<1>3. CASE WatchFails(c)
  <2>0. <<>> \in Seq(Event)  OBVIOUS
  <2>1. Types'  BY <1>0, <1>3, <2>0 DEF WatchFails, Types
  <2>2. UNCHANGED <<files, sub>> /\ \A d \in Calls \ {c} : Same(d)
    BY <1>0, <1>3 DEF WatchFails, Types, Same
  <2>3. /\ pc[c] \in {"build", "watch"} /\ pc'[c] = "publish" /\ queue'[c] = <<>>
        /\ missed'[c] = missed[c] \cup {f \in Files : PendingIn(queue[c], f)}
        /\ UNCHANGED <<files, todo, idx, ctxDone, wpc, hand>>
    BY <1>0, <1>3 DEF WatchFails, Types, Pending
  <2>4. \A f \in Files : Tracked(c, f)' => Tracked(c, f) /\ ~PendingIn(queue[c], f)
    BY <2>3 DEF Tracked, HasIndex
  <2>5. GoneIsAbsent(c)'  BY <2>3 DEF GoneIsAbsent, LastIsGone
  <2>6. UpToDate(c)'  BY <1>0, <2>3, <2>4 DEF UpToDate, ExtractGoFile
  <2>7. WatcherOrder(c)' /\ Unread(c)' /\ ExactCounts(idx[c])'
    BY <1>0, <2>3 DEF WatcherOrder, Unread
  <2>. QED  BY <2>1, <2>2, <2>5, <2>6, <2>7, OneCall DEF CallInv
<1>4. CASE Publish(c)
  <2>1. Types'  BY <1>0, <1>4 DEF Publish, Types
  <2>2. UNCHANGED <<files, sub>> /\ \A d \in Calls \ {c} : Same(d)
    BY <1>0, <1>4 DEF Publish, Types, Same
  <2>3. pc[c] = "publish" /\ pc'[c] = "done"  BY <1>0, <1>4 DEF Publish, Types
  <2>4. \A f \in Files : Tracked(c, f)' => Tracked(c, f)
    BY <1>4, <2>3 DEF Publish, Tracked, HasIndex
  <2>5. GoneIsAbsent(c)'  BY <1>0, <1>4, <2>4 DEF Publish, GoneIsAbsent
  <2>6. UpToDate(c)'  BY <1>0, <1>4, <2>4 DEF Publish, UpToDate, ExtractGoFile
  <2>7. WatcherOrder(c)' /\ Unread(c)' /\ ExactCounts(idx[c])'
    BY <1>0, <1>4, <2>3 DEF Publish, WatcherOrder, Unread
  <2>. QED  BY <2>1, <2>2, <2>5, <2>6, <2>7, OneCall DEF CallInv
<1>5. CASE LoseRace(c)
  <2>0. <<>> \in Seq(Event)  OBVIOUS
  <2>1. Types'  BY <1>0, <1>5, <2>0, EmptyExact DEF LoseRace, Types
  <2>2. UNCHANGED <<files, sub>> /\ \A d \in Calls \ {c} : Same(d)
    BY <1>0, <1>5 DEF LoseRace, Types, Same
  <2>3. /\ pc'[c] = "hit" /\ idx'[c] = EmptyIndex /\ hand'[c] = <<>> /\ watched'[c] = {} /\ queue'[c] = <<>>
        /\ wpc'[c] \notin {"run", "apply"}
    BY <1>0, <1>5 DEF LoseRace, Types
  <2>4. (GoneIsAbsent(c) /\ UpToDate(c))'  BY <2>1, <2>3 DEF GoneIsAbsent, UpToDate, Tracked, HasIndex
  <2>5. WatcherOrder(c)' /\ Unread(c)'  BY <2>3 DEF WatcherOrder, Unread
  <2>6. ExactCounts(idx[c])'  BY <2>3, EmptyExact
  <2>. QED  BY <2>1, <2>2, <2>4, <2>5, <2>6, OneCall DEF CallInv
<1>. QED  BY <1>1, <1>2, <1>3, <1>4, <1>5

\* The watcher takes an event from the head of a queue that keeps its order.
LEMMA TakeIInv ==
    ASSUME IInv, NEW c \in Calls, DropError(c) \/ DirCreated(c) \/ Extract(c) \/ RemoveFile(c)
    PROVE  IInv'
<1>. DEFINE e == Head(queue[c])
            q == queue[c]
<1>0. Types /\ CallInv(c) /\ WatcherOrder(c) /\ Unread(c) /\ ExactCounts(idx[c]) /\ UpToDate(c) /\ GoneIsAbsent(c)
  BY DEF IInv, CallInv
<1>1. /\ wpc[c] = "run" /\ hand[c] = <<>> /\ pc[c] \in {"publish", "done"} /\ q # <<>> /\ q \in Seq(Event)
      /\ queue' = [queue EXCEPT ![c] = Tail(q)]
      /\ UNCHANGED <<files, sub, cache, pc, todo, ctxDone>>
  BY <1>0 DEF DropError, DirCreated, Extract, RemoveFile, WatcherOrder, Types
<1>2. e \in Event /\ Tail(q) \in Seq(Event) /\ queue'[c] = Tail(q)
  BY <1>0, <1>1, TailEvent DEF Types
<1>3. \A f \in Files : /\ PendingIn(q, f) => About(e, f) \/ PendingIn(Tail(q), f)
                       /\ LastIsGone(Tail(q), f) => PendingIn(Tail(q), f) /\ LastIsGone(q, f)
                       /\ e.kind = "gone" /\ e.file = f /\ ~PendingIn(Tail(q), f) => LastIsGone(q, f)
  BY <1>1, TailEvent
<1>. HIDE DEF q, e
<1>4. \A f \in Files : ExtractGoFile(f)' = ExtractGoFile(f)  BY <1>1 DEF ExtractGoFile
<1>5. CASE DropError(c) \/ DirCreated(c)
  <2>1. e.kind \notin {"add", "gone"} /\ UNCHANGED <<idx, wpc, hand, missed>>
    BY <1>5 DEF DropError, DirCreated, e
  <2>2. Types'
    <3>1. watched' \in [Calls -> SUBSET {"root", "sub"}]
      <4>. DEFINE w == watched[c] \cup (IF sub THEN {"sub"} ELSE {})
      <4>1. w \in SUBSET {"root", "sub"}  BY <1>0 DEF Types
      <4>2. UNCHANGED watched \/ watched' = [watched EXCEPT ![c] = w]
        BY <1>5 DEF DropError, DirCreated
      <4>. HIDE DEF w
      <4>. QED  BY <1>0, <4>1, <4>2 DEF Types
    <3>. QED  BY <1>0, <1>1, <1>2, <2>1, <3>1 DEF Types
  <2>3. \A d \in Calls \ {c} : Same(d)
    BY <1>0, <1>1, <1>5 DEF DropError, DirCreated, Types, Same
  <2>4. \A f \in Files : Tracked(c, f)' = Tracked(c, f)  BY <1>1, <2>1 DEF Tracked, HasIndex
  <2>5. \A f \in Files : ~About(e, f)  BY <2>1 DEF About
  <2>6. GoneIsAbsent(c)'
    BY <1>0, <1>1, <1>2, <1>3, <2>4 DEF GoneIsAbsent, q
  <2>7. UpToDate(c)'
    BY <1>0, <1>1, <1>2, <1>3, <1>4, <2>1, <2>4, <2>5 DEF UpToDate, q
  <2>8. WatcherOrder(c)' /\ Unread(c)' /\ ExactCounts(idx[c])'
    BY <1>0, <1>1, <2>1 DEF WatcherOrder, Unread
  <2>. QED  BY <1>1, <2>2, <2>3, <2>6, <2>7, <2>8, OneCall DEF CallInv
<1>6. CASE Extract(c)
  <2>. DEFINE f == e.file
              u == ExtractGoFile(f)
  <2>1. /\ e.kind = "add" /\ hand' = [hand EXCEPT ![c] = <<f, u>>] /\ wpc' = [wpc EXCEPT ![c] = "apply"]
        /\ missed' = [missed EXCEPT ![c] = IF PendingIn(Tail(q), f) THEN @ ELSE @ \ {f}]
        /\ UNCHANGED <<idx, watched>>
    BY <1>6 DEF Extract, e, q
  <2>2. f \in Files /\ About(e, f) /\ \A g \in Files : About(e, g) => g = f
    BY <1>2, <2>1 DEF Event, About
  <2>3. u \in Seq(Seq(Tokens))  BY <1>0, <2>2, Extracted
  <2>4. u = ExtractGoFile(f)  OBVIOUS
  <2>. HIDE DEF f, u
  <2>5. Types'  BY <1>0, <1>1, <1>2, <2>1, <2>2, <2>3 DEF Types
  <2>6. \A d \in Calls \ {c} : Same(d)  BY <1>0, <1>1, <2>1 DEF Types, Same
  <2>7. /\ hand'[c] # <<>> /\ hand'[c][1] = f /\ hand'[c][2] = u /\ wpc'[c] = "apply"
        /\ missed'[c] = IF PendingIn(Tail(q), f) THEN missed[c] ELSE missed[c] \ {f}
    <3>1. <<f, u>> # <<>>  OBVIOUS
    <3>. QED  BY <1>0, <2>1, <3>1 DEF Types
  <2>8. \A g \in Files : Tracked(c, g)' /\ (g # f \/ PendingIn(Tail(q), f)) => Tracked(c, g)
    BY <1>1, <2>7 DEF Tracked, HasIndex
  <2>9. GoneIsAbsent(c)'
    <3>1. SUFFICES ASSUME NEW g \in Files, Tracked(c, g)', LastIsGone(Tail(q), g) PROVE files[g] = Absent
      BY <1>1, <1>2 DEF GoneIsAbsent
    <3>2. PendingIn(Tail(q), g) /\ LastIsGone(q, g)  BY <1>3, <3>1
    <3>3. Tracked(c, g)  BY <2>8, <3>1, <3>2
    <3>. QED  BY <1>0, <3>2, <3>3 DEF GoneIsAbsent, q
  <2>10. UpToDate(c)'
    <3>1. SUFFICES ASSUME NEW g \in Files, Tracked(c, g)', ~PendingIn(Tail(q), g)
                   PROVE  IF g = f THEN u = ExtractGoFile(f) ELSE idx[c].units[g] = ExtractGoFile(g)
      BY <1>1, <1>2, <1>4, <2>1, <2>7 DEF UpToDate
    <3>2. CASE g = f  BY <2>4, <3>2
    <3>3. CASE g # f
      <4>1. Tracked(c, g) /\ ~PendingIn(q, g)  BY <1>3, <2>2, <2>8, <3>1, <3>3
      <4>. QED  BY <1>0, <1>1, <3>3, <4>1 DEF UpToDate, q
    <3>. QED  BY <3>2, <3>3
  <2>11. WatcherOrder(c)' /\ Unread(c)' /\ ExactCounts(idx[c])'
    BY <1>0, <1>1, <2>1, <2>7 DEF WatcherOrder, Unread
  <2>. QED  BY <1>1, <2>5, <2>6, <2>9, <2>10, <2>11, OneCall DEF CallInv
<1>7. CASE RemoveFile(c)
  <2>. DEFINE f == e.file
              new == removeFileLocked(idx[c], f)
  <2>1. /\ e.kind = "gone" /\ idx' = [idx EXCEPT ![c] = new]
        /\ UNCHANGED <<wpc, hand, watched, missed>>
    BY <1>7 DEF RemoveFile, e
  <2>2. f \in Files /\ \A g \in Files : About(e, g) => g = f
    BY <1>2, <2>1 DEF Event, About
  <2>3. idx[c] \in Index  BY <1>0 DEF Types
  <2>. HIDE DEF f
  <2>4. new \in Index /\ ExactCounts(new) /\ new.units = [idx[c].units EXCEPT ![f] = <<>>]
    BY <1>0, <2>2, <2>3, RemoveExact
  <2>. HIDE DEF new
  <2>5. Types'  BY <1>0, <1>1, <1>2, <2>1, <2>4 DEF Types
  <2>6. \A d \in Calls \ {c} : Same(d)  BY <1>0, <1>1, <2>1 DEF Types, Same
  <2>7. idx'[c] = new /\ idx[c].units \in [Files -> Seq(Seq(Tokens))]
    BY <1>0, <2>1, <2>3 DEF Types, Index
  <2>8. \A g \in Files : Tracked(c, g)' = Tracked(c, g)  BY <1>1, <2>1 DEF Tracked, HasIndex
  <2>9. GoneIsAbsent(c)'
    BY <1>0, <1>1, <1>2, <1>3, <2>8 DEF GoneIsAbsent, q
  <2>10. UpToDate(c)'
    <3>1. SUFFICES ASSUME NEW g \in Files, Tracked(c, g), ~PendingIn(Tail(q), g)
                   PROVE  new.units[g] = ExtractGoFile(g)
      BY <1>1, <1>2, <1>4, <2>1, <2>7, <2>8 DEF UpToDate
    <3>2. CASE g = f
      <4>1. LastIsGone(q, f)  BY <1>3, <2>1, <3>1, <3>2 DEF f
      <4>2. files[f] = Absent  BY <1>0, <2>2, <3>1, <3>2, <4>1 DEF GoneIsAbsent, q
      <4>3. ExtractGoFile(f) = <<>>  BY <4>2, SearchAssumption DEF ExtractGoFile
      <4>. QED  BY <2>4, <2>7, <3>2, <4>3
    <3>3. CASE g # f
      <4>1. ~PendingIn(q, g)  BY <1>3, <2>2, <3>1, <3>3
      <4>. QED  BY <1>0, <1>1, <2>4, <2>7, <3>1, <3>3, <4>1 DEF UpToDate, q
    <3>. QED  BY <3>2, <3>3
  <2>11. WatcherOrder(c)' /\ Unread(c)'
    BY <1>0, <1>1, <2>1 DEF WatcherOrder, Unread
  <2>12. ExactCounts(idx[c])'  BY <2>4, <2>7
  <2>. QED  BY <1>1, <2>5, <2>6, <2>9, <2>10, <2>11, <2>12, OneCall DEF CallInv
<1>. QED  BY <1>5, <1>6, <1>7

\* AddFile's second half puts what the first read in place of what was there.
LEMMA ApplyIInv == ASSUME IInv, NEW c \in Calls, AddFile(c) PROVE IInv'
<1>. DEFINE f == hand[c][1]
            u == hand[c][2]
            mid == removeFileLocked(idx[c], f)
            new == addUnitsLocked(mid, f, u)
<1>0. Types /\ CallInv(c) /\ WatcherOrder(c) /\ Unread(c) /\ ExactCounts(idx[c]) /\ UpToDate(c) /\ GoneIsAbsent(c)
  BY DEF IInv, CallInv
<1>1. /\ wpc[c] = "apply" /\ hand[c] # <<>> /\ pc[c] \in {"publish", "done"}
      /\ idx' = [idx EXCEPT ![c] = new] /\ hand' = [hand EXCEPT ![c] = <<>>]
      /\ wpc' = [wpc EXCEPT ![c] = "run"]
      /\ UNCHANGED <<files, sub, cache, pc, todo, ctxDone, watched, queue, changes, missed>>
  BY <1>0 DEF AddFile, WatcherOrder
<1>2. hand[c] \in Files \X Seq(Seq(Tokens))  BY <1>0, <1>1 DEF Types
<1>3. f \in Files /\ u \in Seq(Seq(Tokens)) /\ idx[c] \in Index  BY <1>0, <1>2 DEF Types
<1>. HIDE DEF u
<1>4. mid \in Index /\ ExactCounts(mid) /\ mid.units = [idx[c].units EXCEPT ![f] = <<>>]
  <2>. HIDE DEF f
  <2>. QED  BY <1>0, <1>3, RemoveExact
<1>. HIDE DEF f, mid
<1>5. idx[c].units \in [Files -> Seq(Seq(Tokens))]  BY <1>3 DEF Index
<1>6. mid.units[f] = <<>> /\ mid.units \in [Files -> Seq(Seq(Tokens))]  BY <1>3, <1>4, <1>5 DEF Index
<1>7. new \in Index /\ ExactCounts(new) /\ new.units = [mid.units EXCEPT ![f] = u]
  BY <1>3, <1>4, <1>6, AddExact
<1>. HIDE DEF new
<1>8. new.units[f] = u /\ \A g \in Files \ {f} : new.units[g] = idx[c].units[g]
  BY <1>3, <1>4, <1>5, <1>6, <1>7
<1>9. Types'  BY <1>0, <1>1, <1>7 DEF Types
<1>10. \A d \in Calls \ {c} : Same(d)  BY <1>0, <1>1 DEF Types, Same
<1>11. idx'[c] = new /\ hand'[c] = <<>> /\ wpc'[c] = "run"  BY <1>0, <1>1 DEF Types
<1>12. \A g \in Files : Tracked(c, g)' = Tracked(c, g)  BY <1>1 DEF Tracked, HasIndex
<1>13. GoneIsAbsent(c)'  BY <1>0, <1>1, <1>12 DEF GoneIsAbsent
<1>14. UpToDate(c)'
  <2>1. SUFFICES ASSUME NEW g \in Files, Tracked(c, g), ~PendingIn(queue[c], g)
                 PROVE  new.units[g] = ExtractGoFile(g)
    BY <1>1, <1>11, <1>12 DEF UpToDate, ExtractGoFile
  <2>2. IF g = f THEN u = ExtractGoFile(g) ELSE idx[c].units[g] = ExtractGoFile(g)
    BY <1>0, <1>1, <2>1 DEF UpToDate, f, u
  <2>. QED  BY <1>8, <2>2
<1>15. WatcherOrder(c)' /\ Unread(c)'  BY <1>0, <1>1, <1>11 DEF WatcherOrder, Unread
<1>16. ExactCounts(idx[c])'  BY <1>7, <1>11
<1>. QED  BY <1>1, <1>9, <1>10, <1>13, <1>14, <1>15, <1>16, OneCall DEF CallInv

\* When its context has ended nobody promises anything about the index.
LEMMA EndIInv == ASSUME IInv, NEW c \in Calls, ContextEnds(c) PROVE IInv'
<1>0. Types /\ WatcherOrder(c) /\ Unread(c) /\ ExactCounts(idx[c])  BY DEF IInv, CallInv
<1>1. <<>> \in Seq(Event)  OBVIOUS
<1>2. Types'  BY <1>0, <1>1 DEF ContextEnds, Types
<1>3. UNCHANGED <<files, sub>> /\ \A d \in Calls \ {c} : Same(d)
  BY <1>0 DEF ContextEnds, Types, Same
<1>4. /\ ctxDone'[c] /\ wpc[c] # "apply" /\ wpc'[c] = "closed" /\ watched'[c] = {} /\ queue'[c] = <<>>
      /\ UNCHANGED <<pc, todo, idx, hand>>
  BY <1>0 DEF ContextEnds, Types
<1>5. (GoneIsAbsent(c) /\ UpToDate(c))'  BY <1>4 DEF GoneIsAbsent, UpToDate, Tracked
<1>6. WatcherOrder(c)' /\ Unread(c)' /\ ExactCounts(idx[c])'
  BY <1>0, <1>4 DEF WatcherOrder, Unread
<1>. QED  BY <1>2, <1>3, <1>5, <1>6, OneCall DEF CallInv

\* The workspace changes, and inotify tells every watcher with room for it.
LEMMA ChangeIInv ==
    ASSUME IInv, NEW f \in Files, NEW t \in Texts \cup {Absent}, Change(f, t)
    PROVE  IInv'
<1>. DEFINE e == [kind |-> IF t = Absent THEN "gone" ELSE "add", file |-> f]
<1>0. Types  BY DEF IInv
<1>1. e \in Event /\ (e.kind = "gone" <=> t = Absent) /\ \A g \in Files : About(e, g) <=> g = f
  BY DEF Event, About
<1>2. /\ files' = [files EXCEPT ![f] = t] /\ (f \in SubFiles => sub)
      /\ queue' = [c \in Calls |-> IF DirOf(f) \in watched[c] THEN Enqueue(c, e) ELSE queue[c]]
      /\ missed' = [c \in Calls |-> IF Sees(c, f) \/ Ahead(c, f) THEN missed[c] ELSE missed[c] \cup {f}]
      /\ UNCHANGED <<sub, pc, todo, idx, ctxDone, wpc, hand, watched>>
  BY DEF Change
<1>. HIDE DEF e
<1>3. files'[f] = t /\ \A g \in Files \ {f} : files'[g] = files[g]  BY <1>0, <1>2 DEF Types
<1>4. \A c \in Calls : Enqueue(c, e) \in Seq(Event)
  BY <1>0, <1>1, EnqueueEvent DEF Types
<1>5. Types'
  <2>1. files' \in [Files -> Texts \cup {Absent}]  BY <1>0, <1>2 DEF Types
  <2>2. queue' \in [Calls -> Seq(Event)]  BY <1>0, <1>2, <1>4 DEF Types
  <2>3. missed' \in [Calls -> SUBSET Files]  BY <1>0, <1>2 DEF Types
  <2>. QED  BY <1>0, <1>2, <2>1, <2>2, <2>3 DEF Types
<1>6. SubIsEmpty'  BY <1>2, <1>3, SearchAssumption DEF IInv, SubIsEmpty
<1>7. ASSUME NEW c \in Calls PROVE CallInv(c)'
  <2>0. CallInv(c) /\ queue[c] \in Seq(Event)  BY <1>0 DEF IInv, Types
  <2>1. \A g \in Files :
          /\ PendingIn(queue[c], g) => PendingIn(queue'[c], g)
          /\ LastIsGone(queue'[c], g) => (g = f /\ t = Absent) \/ LastIsGone(queue[c], g)
          /\ Sees(c, f) /\ LastIsGone(queue'[c], f) => t = Absent
    <3>1. CASE DirOf(f) \in watched[c]
      <4>1. queue'[c] = Enqueue(c, e)  BY <1>2, <3>1
      <4>. QED  BY <1>1, <2>0, <4>1, EnqueueEvent DEF Sees
    <3>2. CASE DirOf(f) \notin watched[c]  BY <1>2, <3>2 DEF Sees
    <3>. QED  BY <3>1, <3>2
  <2>2. Sees(c, f) => PendingIn(queue'[c], f)
    <3>. SUFFICES ASSUME Sees(c, f) PROVE PendingIn(queue'[c], f)  OBVIOUS
    <3>1. queue'[c] = Enqueue(c, e) /\ Fits(c)  BY <1>2 DEF Sees
    <3>. QED  BY <1>1, <2>0, <3>1, EnqueueEvent
  <2>3. \A g \in Files : Tracked(c, g)' => Tracked(c, g) /\ (g = f => Sees(c, f))
    BY <1>2 DEF Tracked, HasIndex, Ahead
  <2>4. GoneIsAbsent(c)'
    <3>1. SUFFICES ASSUME NEW g \in Files, Tracked(c, g)', LastIsGone(queue'[c], g) PROVE files'[g] = Absent
      BY DEF GoneIsAbsent
    <3>2. CASE g = f  BY <1>3, <2>1, <2>3, <3>1, <3>2
    <3>3. CASE g # f
      <4>1. Tracked(c, g) /\ LastIsGone(queue[c], g)  BY <2>1, <2>3, <3>1, <3>3
      <4>. QED  BY <1>3, <2>0, <3>3, <4>1 DEF CallInv, GoneIsAbsent
    <3>. QED  BY <3>2, <3>3
  <2>5. UpToDate(c)'
    <3>1. SUFFICES ASSUME NEW g \in Files, Tracked(c, g)', ~PendingIn(queue'[c], g)
                   PROVE  IF hand[c] # <<>> /\ hand[c][1] = g THEN hand[c][2] = ExtractGoFile(g)'
                          ELSE idx[c].units[g] = ExtractGoFile(g)'
      BY <1>2 DEF UpToDate
    <3>2. g # f  BY <2>2, <2>3, <3>1
    <3>3. Tracked(c, g) /\ ~PendingIn(queue[c], g)  BY <2>1, <2>3, <3>1
    <3>4. ExtractGoFile(g)' = ExtractGoFile(g)  BY <1>3, <3>2 DEF ExtractGoFile
    <3>. QED  BY <2>0, <3>3, <3>4 DEF CallInv, UpToDate
  <2>6. Unread(c)' /\ ExactCounts(idx[c])'  BY <1>2, <2>0 DEF CallInv, Unread
  <2>7. WatcherOrder(c)'
    <3>1. watched[c] = {} => queue'[c] = queue[c]  BY <1>2
    <3>. QED  BY <1>2, <2>0, <3>1 DEF CallInv, WatcherOrder
  <2>. QED  BY <2>4, <2>5, <2>6, <2>7 DEF CallInv
<1>. QED  BY <1>5, <1>6, <1>7 DEF IInv

\* A change that is missed, or that Build has yet to read, leaves every index
\* as right as it was.
LEMMA UnseenIInv ==
    ASSUME IInv, Types', SubIsEmpty', UNCHANGED <<pc, todo, idx, ctxDone, wpc, hand>>,
           \A c \in Calls : missed[c] \subseteq missed'[c],
           \A f \in Files : files'[f] # files[f] => \A c \in Calls : f \in missed'[c] \/ Ahead(c, f),
           \A c \in Calls : watched[c] = {} => watched'[c] = {} /\ queue'[c] = queue[c],
           \A c \in Calls : \A f \in Files :
              /\ PendingIn(queue[c], f) => PendingIn(queue'[c], f)
              /\ LastIsGone(queue'[c], f) => LastIsGone(queue[c], f)
    PROVE  IInv'
<1>. SUFFICES ASSUME NEW c \in Calls PROVE CallInv(c)'  BY DEF IInv
<1>1. CallInv(c)  BY DEF IInv
<1>2. \A f \in Files : Tracked(c, f)' => Tracked(c, f) /\ files'[f] = files[f]
  BY DEF Tracked, HasIndex, Ahead
<1>3. GoneIsAbsent(c)'  BY <1>1, <1>2 DEF CallInv, GoneIsAbsent
<1>4. UpToDate(c)'  BY <1>1, <1>2 DEF CallInv, UpToDate, ExtractGoFile
<1>5. WatcherOrder(c)'  BY <1>1 DEF CallInv, WatcherOrder
<1>6. Unread(c)' /\ ExactCounts(idx[c])'  BY <1>1 DEF CallInv, Unread
<1>. QED  BY <1>3, <1>4, <1>5, <1>6 DEF CallInv

\* The directory comes, with files in it or without: those are missed.
LEMMA AppearsIInv ==
    ASSUME IInv, NEW content \in [SubFiles -> Texts \cup {Absent}], DirAppears(content)
    PROVE  IInv'
<1>. DEFINE e == [kind |-> "mkdir", file |-> None]
<1>0. Types  BY DEF IInv
<1>1. e \in Event /\ \A g \in Files : ~About(e, g)  BY DEF Event, About
<1>2. /\ files' = [f \in Files |-> IF f \in SubFiles THEN content[f] ELSE files[f]]
      /\ missed' = [c \in Calls |-> missed[c] \cup {f \in SubFiles : content[f] # Absent /\ ~Ahead(c, f)}]
      /\ queue' = [c \in Calls |-> IF "root" \in watched[c] THEN Enqueue(c, e) ELSE queue[c]]
      /\ ~sub /\ sub'
      /\ UNCHANGED <<pc, todo, idx, ctxDone, wpc, hand, watched>>
  BY DEF DirAppears
<1>. HIDE DEF e
<1>3. \A c \in Calls : \A f \in Files :
        /\ queue'[c] \in Seq(Event)
        /\ PendingIn(queue[c], f) => PendingIn(queue'[c], f)
        /\ LastIsGone(queue'[c], f) => LastIsGone(queue[c], f)
  <2>. SUFFICES ASSUME NEW c \in Calls, NEW f \in Files
                PROVE  /\ queue'[c] \in Seq(Event)
                       /\ PendingIn(queue[c], f) => PendingIn(queue'[c], f)
                       /\ LastIsGone(queue'[c], f) => LastIsGone(queue[c], f)
    OBVIOUS
  <2>1. queue[c] \in Seq(Event)  BY <1>0 DEF Types
  <2>2. queue'[c] = Enqueue(c, e) \/ queue'[c] = queue[c]  BY <1>2
  <2>. QED  BY <1>1, <2>1, <2>2, EnqueueEvent
<1>4. Types'
  <2>1. files' \in [Files -> Texts \cup {Absent}]  BY <1>0, <1>2, SearchAssumption DEF Types
  <2>2. missed' \in [Calls -> SUBSET Files]  BY <1>0, <1>2, SearchAssumption DEF Types
  <2>3. queue' \in [Calls -> Seq(Event)]
    <3>1. \A c \in Calls : Enqueue(c, e) \in Seq(Event)
      <4>. TAKE c \in Calls
      <4>1. queue[c] \in Seq(Event)  BY <1>0 DEF Types
      <4>2. Append(queue[c], e) \in Seq(Event)  BY <1>1, <4>1
      <4>3. [kind |-> "overflow", file |-> None] \in Event  BY DEF Event
      <4>. QED  BY <4>1, <4>2, <4>3 DEF Enqueue
    <3>. QED  BY <1>0, <1>2, <3>1 DEF Types
  <2>. QED  BY <1>0, <1>2, <2>1, <2>2, <2>3 DEF Types
<1>5. SubIsEmpty'  BY <1>2 DEF SubIsEmpty
<1>6. \A c \in Calls : missed[c] \subseteq missed'[c]  BY <1>2
<1>7. \A f \in Files : files'[f] # files[f] => \A c \in Calls : f \in missed'[c] \/ Ahead(c, f)
  BY <1>2 DEF IInv, SubIsEmpty
<1>8. \A c \in Calls : watched[c] = {} => watched'[c] = {} /\ queue'[c] = queue[c]  BY <1>2
<1>. QED  BY <1>2, <1>3, <1>4, <1>5, <1>6, <1>7, <1>8, UnseenIInv

\* The directory goes, and its watch with it: a file that was in it is missed.
LEMMA GoesIInv == ASSUME IInv, DirGoes PROVE IInv'
<1>0. Types  BY DEF IInv
<1>1. /\ files' = [f \in Files |-> IF f \in SubFiles THEN Absent ELSE files[f]]
      /\ missed' = [c \in Calls |-> missed[c] \cup {f \in SubFiles : files[f] # Absent /\ ~Ahead(c, f)}]
      /\ watched' = [c \in Calls |-> watched[c] \ {"sub"}]
      /\ UNCHANGED <<pc, todo, idx, ctxDone, wpc, hand, queue>>
  BY DEF DirGoes
<1>2. Types'
  <2>1. files' \in [Files -> Texts \cup {Absent}]  BY <1>0, <1>1 DEF Types
  <2>2. missed' \in [Calls -> SUBSET Files]  BY <1>0, <1>1, SearchAssumption DEF Types
  <2>3. watched' \in [Calls -> SUBSET {"root", "sub"}]  BY <1>0, <1>1 DEF Types
  <2>. QED  BY <1>0, <1>1, <2>1, <2>2, <2>3 DEF Types
<1>3. SubIsEmpty'  BY <1>1, SearchAssumption DEF SubIsEmpty
<1>4. \A c \in Calls : missed[c] \subseteq missed'[c]  BY <1>1
<1>5. \A f \in Files : files'[f] # files[f] => \A c \in Calls : f \in missed'[c] \/ Ahead(c, f)
  BY <1>1
<1>6. \A c \in Calls : watched[c] = {} => watched'[c] = {} /\ queue'[c] = queue[c]  BY <1>1
<1>. QED  BY <1>1, <1>2, <1>3, <1>4, <1>5, <1>6, UnseenIInv

\* Every step keeps the invariant.
LEMMA StepIInv == IInv /\ [Next]_vars => IInv'
<1>. SUFFICES ASSUME IInv, [Next]_vars PROVE IInv'  OBVIOUS
<1>1. ASSUME NEW c \in Calls,
             \/ CacheHit(c) \/ CacheMiss(c) \/ \E f \in Files : BuildFile(c, f)
             \/ WatchRoot(c) \/ WatchRest(c) \/ WatchFails(c) \/ Publish(c) \/ LoseRace(c) \/ BuildFails(c)
             \/ HandleEvent(c) \/ ContextEnds(c)
      PROVE  IInv'
  <2>1. CASE CacheHit(c) \/ CacheMiss(c) \/ (\E f \in Files : BuildFile(c, f)) \/ BuildFails(c)
    BY <2>1, BuildIInv
  <2>2. CASE WatchRoot(c) \/ WatchRest(c) \/ WatchFails(c) \/ Publish(c) \/ LoseRace(c)
    BY <2>2, WatchIInv
  <2>3. CASE HandleEvent(c)  BY <2>3, TakeIInv, ApplyIInv DEF HandleEvent
  <2>4. CASE ContextEnds(c)  BY <2>4, EndIInv
  <2>. QED  BY <1>1, <2>1, <2>2, <2>3, <2>4
<1>2. ASSUME NEW f \in Files, NEW t \in Texts \cup {Absent}, Change(f, t) PROVE IInv'
  BY <1>2, ChangeIInv
<1>3. ASSUME NEW content \in [SubFiles -> Texts \cup {Absent}], DirAppears(content) PROVE IInv'
  BY <1>3, AppearsIInv
<1>4. CASE DirGoes  BY <1>4, GoesIInv
<1>5. CASE UNCHANGED vars
  <2>1. \A d \in Calls : Same(d)  BY <1>5 DEF vars, Same
  <2>2. ASSUME NEW d \in Calls PROVE CallInv(d)'  BY <1>5, <2>1, Frame DEF IInv, vars
  <2>3. Types' /\ SubIsEmpty'  BY <1>5 DEF IInv, vars, Types, SubIsEmpty
  <2>. QED  BY <2>2, <2>3 DEF IInv
<1>. QED  BY <1>1, <1>2, <1>3, <1>4, <1>5 DEF Next

\* The invariant of the specification.
LEMMA SpecIInv == Spec => []IInv
BY InitIInv, StepIInv, PTL DEF Spec

--------------------------------------------------------------------------------

\* No update is lost on the way from inotify to an index, however many calls
\* race and however long the queue is (handleEvent, AddFile, RemoveFile).
THEOREM NoUpdateIsLost == Spec => []StaleIsPending
<1>1. IInv => StaleIsPending
  <2>. SUFFICES ASSUME IInv, NEW c \in Calls, HasIndex(c), ~ctxDone[c],
                       NEW f \in Files \ (todo[c] \cup missed[c])
                PROVE  \/ Pending(c, f)
                       \/ IF hand[c] # <<>> /\ hand[c][1] = f THEN hand[c][2] = ExtractGoFile(f)
                          ELSE Fresh(c, f)
    BY DEF StaleIsPending
  <2>. QED  BY DEF IInv, CallInv, UpToDate, Tracked, Pending, Fresh
<1>. QED  BY <1>1, SpecIInv, PTL

\* The counts BM25 divides by stay those of the units in the index, through any
\* series of additions and removals (addUnitsLocked, removeFileLocked, Search).
THEOREM CountsStayExact == Spec => []CountsAreExact
<1>1. IInv => CountsAreExact  BY DEF IInv, CallInv, CountsAreExact
<1>. QED  BY <1>1, SpecIInv, PTL
\* inotify's queue holds at most one entry more than its limit, which is then
\* the note that events were lost, and is last.
QueueBound(q) ==
    /\ Len(q) <= MaxQueue + 1
    /\ Len(q) = MaxQueue + 1 => q[Len(q)].kind = "overflow"

\* The types that the counts and the updates do not depend on.
Beside ==
    /\ sub \in BOOLEAN
    /\ cache \in Calls \cup {None, Failed}
    /\ changes \in 0..MaxChanges
    /\ \A c \in Calls : QueueBound(queue[c])

\* A new event takes the last free place, or the note is put behind the rest.
LEMMA EnqueueBound ==
    ASSUME NEW c \in Calls, queue[c] \in Seq(Event), QueueBound(queue[c]), NEW e \in Event
    PROVE  QueueBound(Enqueue(c, e))
<1>. DEFINE note == [kind |-> "overflow", file |-> None]
<1>m. MaxQueue \in Nat \ {0} /\ Len(queue[c]) \in Nat  BY SearchAssumption
<1>1. CASE Fits(c)
  <2>1. Enqueue(c, e) = Append(queue[c], e)  BY <1>1 DEF Enqueue
  <2>2. Len(Enqueue(c, e)) = Len(queue[c]) + 1  BY <2>1
  <2>. QED  BY <1>m, <1>1, <2>2 DEF QueueBound, Fits
<1>2. CASE ~Fits(c) /\ Enqueue(c, e) = queue[c]  BY <1>2
<1>3. CASE ~Fits(c) /\ queue[c][Len(queue[c])].kind # "overflow" /\ Enqueue(c, e) = Append(queue[c], note)
  <2>1. Len(queue[c]) = MaxQueue  BY <1>m, <1>3 DEF QueueBound, Fits
  <2>2. note \in Event /\ note.kind = "overflow"  BY DEF Event
  <2>. HIDE DEF note
  <2>3. Len(Enqueue(c, e)) = MaxQueue + 1 /\ Enqueue(c, e)[MaxQueue + 1] = note
    BY <1>m, <1>3, <2>1, <2>2
  <2>. QED  BY <1>m, <2>2, <2>3 DEF QueueBound
<1>4. ~Fits(c) => \/ Enqueue(c, e) = queue[c]
                  \/ queue[c][Len(queue[c])].kind # "overflow" /\ Enqueue(c, e) = Append(queue[c], note)
  BY DEF Enqueue
<1>. QED  BY <1>1, <1>2, <1>3, <1>4

\* Taking an event out makes room.
LEMMA TailBound ==
    ASSUME NEW q \in Seq(Event), q # <<>>, QueueBound(q) PROVE QueueBound(Tail(q))
<1>1. Len(Tail(q)) = Len(q) - 1 /\ Len(q) \in Nat  OBVIOUS
<1>2. MaxQueue \in Nat  BY SearchAssumption
<1>3. Len(q) <= MaxQueue + 1  BY Zenon DEF QueueBound
<1>4. Len(Tail(q)) <= MaxQueue + 1 /\ Len(Tail(q)) # MaxQueue + 1
  <2>1. ASSUME NEW n \in Nat, NEW t, t = n - 1, n <= MaxQueue + 1
        PROVE  t <= MaxQueue + 1 /\ t # MaxQueue + 1
    BY <1>2, <2>1
  <2>. QED  BY <1>1, <1>3, <2>1, Zenon
<1>. QED  BY <1>4, Zenon DEF QueueBound

\* Initially nothing is queued or cached.
LEMMA InitBeside == Init => Beside
<1>. SUFFICES ASSUME Init PROVE Beside  OBVIOUS
<1>1. sub \in BOOLEAN  BY Zenon DEF Init
<1>2. MaxQueue \in Nat \ {0} /\ MaxChanges \in Nat  BY SearchAssumption
<1>3. \A c \in Calls : queue[c] = <<>>  BY DEF Init
<1>4. QueueBound(<<>>)  BY <1>2 DEF QueueBound
<1>. QED  BY <1>1, <1>2, <1>3, <1>4 DEF Init, Beside

\* What a call does to the queues is to take from its own or to drop it.
LEMMA CallBeside ==
    ASSUME Beside, UNCHANGED <<sub, changes>>, cache' \in Calls \cup {None, Failed},
           \A c \in Calls : \/ queue'[c] \in {queue[c], <<>>}
                            \/ queue[c] \in Seq(Event) /\ queue[c] # <<>> /\ queue'[c] = Tail(queue[c])
    PROVE  Beside'
<1>1. MaxQueue \in Nat  BY SearchAssumption
<1>2. QueueBound(<<>>)  BY <1>1 DEF QueueBound
<1>3. ASSUME NEW c \in Calls PROVE QueueBound(queue'[c])
  <2>1. QueueBound(queue[c])  BY DEF Beside
  <2>. QED  BY <1>2, <2>1, TailBound
<1>. QED  BY <1>3 DEF Beside

\* Every step keeps these types.
LEMMA StepBeside == IInv /\ Beside /\ [Next]_vars => Beside'
<1>. SUFFICES ASSUME IInv, Beside, [Next]_vars PROVE Beside'  OBVIOUS
<1>t. /\ queue \in [Calls -> Seq(Event)] /\ cache \in Calls \cup {None, Failed}
      /\ \A c \in Calls : queue[c] \in Seq(Event) /\ QueueBound(queue[c])
      /\ MaxChanges \in Nat /\ changes \in 0..MaxChanges
  BY SearchAssumption DEF IInv, Types, Beside
<1>1. ASSUME NEW c \in Calls,
             \/ CacheHit(c) \/ CacheMiss(c) \/ \E f \in Files : BuildFile(c, f)
             \/ WatchRoot(c) \/ WatchRest(c) \/ Publish(c) \/ BuildFails(c) \/ AddFile(c)
      PROVE  Beside'
  <2>1. UNCHANGED <<sub, changes, queue>> /\ cache' \in {cache, c, Failed}
    BY <1>1 DEF CacheHit, CacheMiss, BuildFile, WatchRoot, WatchRest, Publish, BuildFails, AddFile
  <2>. QED  BY <1>t, <2>1, CallBeside
<1>2. ASSUME NEW c \in Calls, WatchFails(c) \/ LoseRace(c) \/ ContextEnds(c) PROVE Beside'
  <2>1. UNCHANGED <<sub, changes, cache>> /\ queue' = [queue EXCEPT ![c] = <<>>]
    BY <1>2 DEF WatchFails, LoseRace, ContextEnds
  <2>2. \A d \in Calls : queue'[d] \in {queue[d], <<>>}  BY <1>t, <2>1
  <2>. QED  BY <1>t, <2>1, <2>2, CallBeside
<1>3. ASSUME NEW c \in Calls, DropError(c) \/ DirCreated(c) \/ Extract(c) \/ RemoveFile(c) PROVE Beside'
  <2>1. UNCHANGED <<sub, changes, cache>> /\ queue[c] # <<>> /\ queue' = [queue EXCEPT ![c] = Tail(@)]
    BY <1>3 DEF DropError, DirCreated, Extract, RemoveFile
  <2>2. \A d \in Calls : queue'[d] = queue[d] \/ (queue[d] # <<>> /\ queue'[d] = Tail(queue[d]))
    BY <1>t, <2>1
  <2>. QED  BY <1>t, <2>1, <2>2, CallBeside
<1>c. ASSUME changes < MaxChanges, changes' = changes + 1 PROVE changes' \in 0..MaxChanges
  BY <1>c, <1>t
<1>4. ASSUME NEW f \in Files, NEW t \in Texts \cup {Absent}, Change(f, t) PROVE Beside'
  <2>. DEFINE e == [kind |-> IF t = Absent THEN "gone" ELSE "add", file |-> f]
  <2>1. e \in Event  BY DEF Event
  <2>2. /\ UNCHANGED <<sub, cache>> /\ changes < MaxChanges /\ changes' = changes + 1
        /\ \A c \in Calls : queue'[c] \in {queue[c], Enqueue(c, e)}
    BY <1>4 DEF Change
  <2>. HIDE DEF e
  <2>3. \A c \in Calls : QueueBound(queue'[c])  BY <1>t, <2>1, <2>2, EnqueueBound
  <2>4. changes' \in 0..MaxChanges  BY <1>c, <2>2
  <2>. QED  BY <2>2, <2>3, <2>4 DEF Beside
<1>5. ASSUME NEW content \in [SubFiles -> Texts \cup {Absent}], DirAppears(content) PROVE Beside'
  <2>. DEFINE e == [kind |-> "mkdir", file |-> None]
  <2>1. e \in Event  BY DEF Event
  <2>2. /\ UNCHANGED cache /\ changes < MaxChanges /\ changes' = changes + 1
        /\ \A c \in Calls : queue'[c] \in {queue[c], Enqueue(c, e)}
    BY <1>5 DEF DirAppears
  <2>3. sub' \in BOOLEAN  BY <1>5, Zenon DEF DirAppears
  <2>. HIDE DEF e
  <2>4. \A c \in Calls : QueueBound(queue'[c])  BY <1>t, <2>1, <2>2, EnqueueBound
  <2>5. changes' \in 0..MaxChanges  BY <1>c, <2>2
  <2>. QED  BY <2>2, <2>3, <2>4, <2>5 DEF Beside
<1>6. CASE DirGoes
  <2>1. UNCHANGED <<cache, queue>> /\ changes < MaxChanges /\ changes' = changes + 1
    BY <1>6 DEF DirGoes
  <2>2. sub' \in BOOLEAN  BY <1>6, Zenon DEF DirGoes
  <2>3. changes' \in 0..MaxChanges  BY <1>c, <2>1
  <2>. QED  BY <2>1, <2>2, <2>3 DEF Beside
<1>7. CASE UNCHANGED vars  BY <1>7 DEF vars, Beside
<1>. QED  BY <1>1, <1>2, <1>3, <1>4, <1>5, <1>6, <1>7 DEF Next, HandleEvent

\* Every variable of the index keeps its type; inotify's queue never holds more
\* than one entry over its limit, and an extraction is in hand exactly while it
\* waits for the index's lock (watch.go runWatch, handleEvent).
THEOREM IndexTypes == Spec => []TypeOK
<1>1. IInv /\ Beside => TypeOK
  <2>. SUFFICES ASSUME IInv, Beside PROVE TypeOK  OBVIOUS
  <2>1. ASSUME NEW c \in Calls
        PROVE  /\ idx[c].units \in [Files -> Seq(Seq(Tokens))]
               /\ idx[c].df \in [Tokens -> Nat]
               /\ idx[c].totalLen \in Nat /\ idx[c].totalDocs \in Nat
               /\ queue[c] \in Seq(Event) /\ Len(queue[c]) <= MaxQueue + 1
               /\ (wpc[c] = "apply") = (hand[c] # <<>>)
    <3>1. idx[c] \in Index /\ queue[c] \in Seq(Event)  BY DEF IInv, Types
    <3>2. (wpc[c] = "apply") = (hand[c] # <<>>)  BY DEF IInv, CallInv, WatcherOrder
    <3>3. Len(queue[c]) <= MaxQueue + 1  BY DEF Beside, QueueBound
    <3>. QED  BY <3>1, <3>2, <3>3 DEF Index
  <2>. QED  BY <2>1, Zenon DEF IInv, Types, Beside, TypeOK
<1>. QED  BY <1>1, SpecIInv, InitBeside, StepBeside, PTL DEF Spec
================================================================================
