---------------------------- MODULE LibraryProofs ----------------------------
(* CommittedWithinCap and ReportedIsKept of module Library, for every set of  *)
(* calls, contents and names, every size and every cap; WindowsAreExact of    *)
(* module MediaServe for every file size, window and header; OneIdentity of   *)
(* module Keystore for every set of commands and keypairs.                    *)
EXTENDS Library, MediaServe, Keystore, FiniteSetTheorems, TLAPS

-----------------------------------------------------------------------------
(* The invariant behind both.                                                 *)

\* A call holds the lock while it is inside, and so does the purge.
Locked == Inside \ {"gate"}
LockHeld ==
    /\ \A i \in Imports : call[i].pc \in Locked => lock = i
    /\ \A w \in Opens : call[w].pc = "gate" => lock = w
    /\ purge.pc \in {"staging", "incomplete"} => lock = Purger

\* A call under way knows its content and name, and the row it goes by.
Working == Pcs \ (Over \cup {"idle", "walk"})
Placed(j) ==
    /\ call[j].pc \in Working \cup {"copied", "promoted"} => What(j) \in Contents
    /\ call[j].pc \in Working \ {"select"} => call[j].name \in Names
    /\ j \in Deletes /\ call[j].pc \in {"select", "move", "drop"} => call[j].held # Nobody
    /\ call[j].pc \in {"present", "promote"} => call[j].held # Nobody
    /\ j \in Imports /\ call[j].pc = "idle" => What(j) = 0
Located == \A j \in Calls : Placed(j)

\* Scratch files have the content of their call, the library that of its path
\* and the trash that of its delete.
Scratch(j) ==
    /\ staging[j] \in {Nothing, Torn, What(j)}
    /\ staging[j] # Nothing => What(j) \in Contents
    /\ call[j].pc \in {"check", "move"} => staging[j] # Torn
ScratchBytes ==
    /\ \A j \in Imports \cup Opens : Scratch(j)
    /\ \A w \in incomplete : What(w) \in Contents
LibraryBytes == \A p \in Paths : library[p] \in {Nothing, p[1]}
TrashBytes ==
    \A t \in trash : /\ t[2] = What(t[1])
                     /\ call[t[1]].pc \in {"drop"} \cup Over
                     /\ call[t[1]].pc = "drop" => call[t[1]].moved

\* The bytes of a content are in the library, or in the trash.
Kept(c) ==
    \/ \E n \in Names : library[<<c, n>>] = c
    \/ \E d \in Deletes : <<d, c>> \in trash
KeptFor(i) == Kept(What(i))
Reporting == {"promote", "insert", "copied", "promoted"}
KeptFiles == \A i \in Imports : call[i].pc \in Reporting => KeptFor(i)

\* What an import passed the quota check with is still free.
InsertedWithinCap == RowBytes(Inserted) <= Cap
Reserved ==
    \A i \in Imports : call[i].pc \in Admitted /\ call[i].held = Nobody
                         => RowBytes(Inserted \cup {What(i)}) <= Cap

\* The parts.
FilesInv == ScratchBytes /\ LibraryBytes /\ TrashBytes /\ KeptFiles
LibraryInv == TypeOK /\ LockHeld /\ Located /\ FilesInv /\ Reserved /\ InsertedWithinCap

-----------------------------------------------------------------------------
(* Types.                                                                     *)
LEMMA Kinds ==
    /\ Calls = Imports \cup Opens \cup Scans \cup Deletes
    /\ Imports \cap (Opens \cup Scans \cup Deletes) = {}
    /\ Opens \cap (Scans \cup Deletes) = {} /\ Scans \cap Deletes = {}
    /\ Nobody \notin Calls /\ Purger \notin Calls /\ Nobody # Purger
    /\ Contents \subseteq Nat \ {0} /\ Names \subseteq Nat \ {0}
    /\ Nothing \notin Contents /\ Torn \notin Contents /\ Torn # Nothing
  BY LibraryAssumption DEF LibraryAssumption, Calls, Nobody, Purger, Nothing, Torn

LEMMA TypesAtStart == Init => TypeOK
  BY LibraryAssumption, Kinds
  DEF LibraryAssumption, Init, TypeOK, Fresh, Call, Pcs, Over, NoRow, NoDownload, Row, Paths

\* TypeOK without the calls.
StoreTypes ==
    /\ row \in [Contents -> Row \cup {NoRow}]
    /\ dl \in [Opens -> [state: {"none", "active", "complete", "failed"},
                         media: Calls \cup {Nobody}]]
    /\ library \in [Paths -> Contents \cup {Nothing}]
    /\ trash \subseteq Deletes \X Contents
    /\ incomplete \subseteq Opens
    /\ staging \in [Imports \cup Opens -> Contents \cup {Nothing, Torn}]
    /\ lock \in Calls \cup {Nobody, Purger}
    /\ purge \in [pc: {"waiting", "staging", "incomplete", "done"},
                  left: SUBSET (Imports \cup Opens)]
    /\ troubles \in 0..MaxTrouble

LEMMA TypeParts == TypeOK <=> StoreTypes /\ call \in [Calls -> Call]
  BY DEF TypeOK, StoreTypes

LEMMA TypeParts2 == TypeOK' <=> StoreTypes' /\ call' \in [Calls -> Call]
  BY DEF TypeOK, StoreTypes

\* A call goes on, or ends, and no other call moves.
Turn(j, pcs) ==
    /\ call' \in [Calls -> Call]
    /\ \A k \in Calls \ {j} : call'[k] = call[k]
    /\ call'[j].pc \in pcs

LEMMA GoingOn ==
    ASSUME TypeOK, NEW j \in Calls, NEW pc \in Pcs, Goto(j, pc)
    PROVE  /\ Turn(j, {pc}) /\ What(j)' = What(j)
           /\ call'[j].name = call[j].name /\ call'[j].held = call[j].held
           /\ call'[j].moved = call[j].moved
  BY DEF TypeOK, Goto, Turn, Call, What

LEMMA Changing ==
    ASSUME TypeOK, NEW j \in Calls, NEW x \in Call, call' = [call EXCEPT ![j] = x]
    PROVE  Turn(j, {x.pc}) /\ call'[j] = x
  BY DEF TypeOK, Turn

LEMMA Ending ==
    ASSUME TypeOK, NEW j \in Calls, NEW pc \in Over, Ended(j, pc)
    PROVE  Turn(j, {pc}) /\ call'[j].held = Nobody /\ What(j)' = What(j)
  BY DEF TypeOK, Ended, Turn, Call, Pcs, Fresh, What

\* promote_to_permanent changes a row's status and nothing else.
LEMMA PermanentRow ==
    ASSUME TypeOK, NEW c \in Contents, NEW id, id # Nobody, Permanent(c, id)
    PROVE  /\ row' \in [Contents -> Row \cup {NoRow}]
           /\ \A d \in Contents : row'[d].id = row[d].id
<1> DEFINE new == [row[c] EXCEPT !.status = IF row[c].id = id THEN "permanent" ELSE @]
<1>1. row[c] \in Row \cup {NoRow} /\ row \in [Contents -> Row \cup {NoRow}]
  BY DEF TypeOK
<1>2. new \in Row \cup {NoRow} /\ new.id = row[c].id
  <2>1. CASE row[c] \in Row
    BY <2>1 DEF Row
  <2>2. CASE row[c] = NoRow
    BY <2>2 DEF NoRow
  <2> QED BY <1>1, <2>1, <2>2
<1>3. row' = [row EXCEPT ![c] = new]
  BY <1>1 DEF Permanent
<1> HIDE DEF new
<1> QED
  BY <1>1, <1>2, <1>3

-----------------------------------------------------------------------------
(* Sums of sizes.                                                             *)
BytesOf(of) == UNION {{x} \X (1..of[x]): x \in DOMAIN of}

LEMMA SumIsNat ==
    ASSUME NEW of, IsFiniteSet(DOMAIN of), \A x \in DOMAIN of : of[x] \in Nat
    PROVE  IsFiniteSet(BytesOf(of)) /\ Sum(of) \in Nat
<1> DEFINE F(x) == {x} \X (1..of[x])
           D == DOMAIN of
           T == {F(x) : x \in D}
           f == [x \in D |-> F(x)]
<1>1. f \in Surjection(D, T)
  BY DEF Surjection
<1>2. IsFiniteSet(T)
  <2> HIDE DEF D, T, f
  <2> QED BY <1>1, FS_Surjection DEF D
<1>3. ASSUME NEW x \in D PROVE IsFiniteSet(F(x))
  <2>1. of[x] \in Int /\ 1 \in Int
    BY <1>3
  <2>2. IsFiniteSet(1..of[x])
    BY <2>1, FS_Interval
  <2>3. IsFiniteSet({x})
    BY FS_Singleton
  <2> QED BY <2>2, <2>3, FS_Product
<1>4. IsFiniteSet(UNION T)
  BY <1>2, <1>3, FS_UNION
<1> QED
  BY <1>4, FS_CardinalityType DEF BytesOf, Sum

Bytes(S) == BytesOf([c \in S |-> Size[c]])

LEMMA RowBytesFinite ==
    ASSUME NEW S \in SUBSET Contents
    PROVE  IsFiniteSet(Bytes(S)) /\ RowBytes(S) \in Nat /\ RowBytes(S) = Cardinality(Bytes(S))
<1>1. IsFiniteSet(S) /\ Size \in [Contents -> Nat]
  BY FS_Subset, LibraryAssumption DEF LibraryAssumption
<1>2. LET of == [c \in S |-> Size[c]]
      IN  IsFiniteSet(DOMAIN of) /\ \A x \in DOMAIN of : of[x] \in Nat
  BY <1>1
<1> QED
  BY <1>2, SumIsNat DEF RowBytes, Bytes, Sum, BytesOf

LEMMA BytesElements ==
    ASSUME NEW S \in SUBSET Contents
    PROVE  Bytes(S) = UNION {{x} \X (1..Size[x]): x \in S}
  BY DEF Bytes, BytesOf

\* Fewer rows have no more bytes, and one more has at most its own.
LEMMA RowBytesMonotone ==
    ASSUME NEW S \in SUBSET Contents, NEW R \in SUBSET S
    PROVE  RowBytes(R) <= RowBytes(S)
<1>1. Bytes(R) \subseteq Bytes(S)
  BY BytesElements
<1> QED
  BY <1>1, FS_Subset, RowBytesFinite

LEMMA RowBytesAdd ==
    ASSUME NEW S \in SUBSET Contents, NEW c \in Contents
    PROVE  RowBytes(S \cup {c}) <= RowBytes(S) + Size[c]
<1> DEFINE own == {c} \X (1..Size[c])
<1>1. Bytes(S \cup {c}) = Bytes(S) \cup own
  <2>1. S \cup {c} \in SUBSET Contents
    OBVIOUS
  <2> QED BY <2>1, BytesElements
<1>2. Size[c] \in Nat
  BY LibraryAssumption DEF LibraryAssumption
<1>3. IsFiniteSet(own) /\ Cardinality(own) = Size[c]
  <2>1. IsFiniteSet(1..Size[c]) /\ Cardinality(1..Size[c]) = Size[c]
    BY <1>2, FS_Interval
  <2>2. IsFiniteSet({c}) /\ Cardinality({c}) = 1
    BY FS_Singleton
  <2>3. IsFiniteSet(own) /\ Cardinality(own) = 1 * Size[c]
    BY <2>1, <2>2, FS_Product
  <2> QED BY <2>3, <1>2
<1>4. IsFiniteSet(Bytes(S) \cap own)
  BY <1>3, FS_Intersection
<1>5. Cardinality(Bytes(S) \cup own)
        = Cardinality(Bytes(S)) + Cardinality(own) - Cardinality(Bytes(S) \cap own)
  BY <1>3, RowBytesFinite, FS_Union
<1>6. Cardinality(Bytes(S) \cap own) \in Nat
  BY <1>4, FS_CardinalityType
<1>7. RowBytes(S \cup {c}) = Cardinality(Bytes(S \cup {c})) /\ RowBytes(S \cup {c}) \in Nat
  BY RowBytesFinite
<1>8. RowBytes(S) = Cardinality(Bytes(S)) /\ RowBytes(S) \in Nat
  BY RowBytesFinite
<1>9. RowBytes(S \cup {c}) = Cardinality(Bytes(S) \cup own)
  BY <1>1, <1>7
<1> HIDE DEF own
<1> QED
  BY <1>2, <1>3, <1>5, <1>6, <1>8, <1>9

LEMMA TmpBytesNat ==
    ASSUME TypeOK, ScratchBytes
    PROVE  TmpBytes \in Nat
<1>0. /\ Size \in [Contents -> Nat] /\ IsFiniteSet(Imports \cup Opens \cup Scans \cup Deletes)
  BY LibraryAssumption DEF LibraryAssumption
<1>1. incomplete \in SUBSET (Imports \cup Opens \cup Scans \cup Deletes)
      /\ Staged \in SUBSET (Imports \cup Opens \cup Scans \cup Deletes)
  BY DEF TypeOK, Staged
<1>2. IsFiniteSet(incomplete) /\ IsFiniteSet(Staged)
  BY <1>0, <1>1, FS_Subset
<1>3. LET of == [w \in incomplete |-> Size[What(w)]]
      IN  IsFiniteSet(DOMAIN of) /\ \A x \in DOMAIN of : of[x] \in Nat
  BY <1>0, <1>2 DEF ScratchBytes
<1>4. LET of == [j \in Staged |-> Size[What(j)]]
      IN  IsFiniteSet(DOMAIN of) /\ \A x \in DOMAIN of : of[x] \in Nat
  BY <1>0, <1>2 DEF ScratchBytes, Scratch, Staged
<1>5. Sum([w \in incomplete |-> Size[What(w)]]) \in Nat
  BY <1>3, SumIsNat
<1>6. Sum([j \in Staged |-> Size[What(j)]]) \in Nat
  BY <1>4, SumIsNat
<1> QED
  BY <1>5, <1>6 DEF TmpBytes

\* What passes the quota check fits beside all that is committed.
LEMMA FittingIsFree ==
    ASSUME TypeOK, ScratchBytes, NEW c \in Contents, Fits(c)
    PROVE  RowBytes(Inserted \cup {c}) <= Cap
<1> DEFINE all == {d \in Contents : row[d] # NoRow}
<1>1. Inserted \subseteq all /\ all \in SUBSET Contents
  BY Kinds DEF Inserted, TypeOK, NoRow
<1>2. /\ Inserted \cup {c} \in SUBSET (all \cup {c}) /\ all \cup {c} \in SUBSET Contents
  BY <1>1
<1>3. RowBytes(Inserted \cup {c}) <= RowBytes(all \cup {c})
  BY <1>2, RowBytesMonotone
<1>4. RowBytes(all \cup {c}) <= RowBytes(all) + Size[c]
  BY <1>1, RowBytesAdd
<1>5. RowBytes(all) + TmpBytes + Size[c] <= Cap
  BY DEF Fits, UsedBytes
<1>6. /\ RowBytes(all) \in Nat /\ RowBytes(all \cup {c}) \in Nat
      /\ RowBytes(Inserted \cup {c}) \in Nat
  BY <1>1, <1>2, RowBytesFinite
<1>7. Cap \in Nat /\ Size[c] \in Nat
  BY LibraryAssumption DEF LibraryAssumption
<1> QED
  BY <1>3, <1>4, <1>5, <1>6, <1>7, TmpBytesNat
-----------------------------------------------------------------------------
(* What a step of one call leaves as it was.                                  *)

\* The lock is kept, or given back from inside.
LEMMA LockFrame ==
    ASSUME TypeOK, LockHeld, NEW j \in Calls, NEW pcs, Turn(j, pcs), purge' = purge,
           \/ /\ lock' = lock
              /\ j \in Imports /\ call'[j].pc \in Locked => call[j].pc \in Locked
              /\ j \in Opens => call'[j].pc # "gate"
           \/ /\ lock' = Nobody /\ lock = j
              /\ call'[j].pc \notin Inside
    PROVE  LockHeld'
  BY Kinds DEF LockHeld, Turn, Locked, Inside, Nobody, Purger

LEMMA LocatedFrame ==
    ASSUME TypeOK, Located, NEW j \in Calls, NEW pcs, Turn(j, pcs), Placed(j)'
    PROVE  Located'
  BY DEF Located, Placed, Turn, What

\* A step of one call may change its own scratch files and the library, as
\* long as nothing kept is lost.
LEMMA FilesStep ==
    ASSUME TypeOK, Located, FilesInv, NEW j \in Calls, NEW pcs, Turn(j, pcs),
           trash' = trash, LibraryBytes', \A c \in Contents : Kept(c) => Kept(c)',
           \A k \in (Imports \cup Opens) \ {j} : staging'[k] = staging[k],
           incomplete' \subseteq incomplete \cup {j},
           What(j)' = What(j) \/ What(j) \notin Contents \/ j \notin Imports \cup Opens,
           j \in Imports \cup Opens => Scratch(j)',
           j \in incomplete' => What(j)' \in Contents,
           j \in Imports /\ call'[j].pc \in Reporting => KeptFor(j)',
           j \in Deletes => call[j].pc \notin {"drop"} \cup Over
    PROVE  FilesInv'
<1>1. \A k \in Calls \ {j} : What(k)' = What(k) /\ call'[k].pc = call[k].pc
  BY DEF Turn, What
<1>2. Imports \cup Opens \subseteq Calls /\ incomplete \subseteq Opens
  BY Kinds DEF TypeOK
<1>3. ScratchBytes'
  <2>1. ASSUME NEW k \in Imports \cup Opens PROVE Scratch(k)'
    <3>1. CASE k = j
      BY <3>1
    <3>2. CASE k # j
      BY <1>1, <1>2, <3>2 DEF FilesInv, ScratchBytes, Scratch
    <3> QED BY <3>1, <3>2
  <2>2. ASSUME NEW w \in incomplete' PROVE What(w)' \in Contents
    BY <1>1, <1>2 DEF FilesInv, ScratchBytes
  <2> QED BY <2>1, <2>2 DEF ScratchBytes
<1>4. TrashBytes'
  <2>1. \A t \in trash : t[1] \in Calls /\ t[1] # j
    BY DEF TypeOK, FilesInv, TrashBytes, Calls
  <2>2. \A t \in trash : call'[t[1]] = call[t[1]]
    BY <2>1 DEF Turn
  <2> QED BY <2>1, <2>2 DEF FilesInv, TrashBytes, What
<1>5. KeptFiles'
  <2>1. ASSUME NEW k \in Imports, call'[k].pc \in Reporting PROVE KeptFor(k)'
    <3>1. CASE k = j
      BY <2>1, <3>1
    <3>2. CASE k # j
      <4>1. Kept(What(k)) /\ What(k)' = What(k) /\ call[k].pc \in Reporting
        BY <1>1, <1>2, <2>1, <3>2 DEF FilesInv, KeptFiles, KeptFor
      <4>2. What(k) \in Contents
        BY <4>1, <1>2 DEF Located, Placed, Reporting, Working, Pcs, Inside, Over
      <4> QED BY <4>1, <4>2 DEF KeptFor
    <3> QED BY <3>1, <3>2
  <2> QED BY <2>1 DEF KeptFiles
<1> QED
  BY <1>3, <1>4, <1>5 DEF FilesInv

\* No file moved, and the call did not come to claim one.
LEMMA FilesFrame ==
    ASSUME TypeOK, Located, FilesInv, NEW j \in Calls, NEW pcs, Turn(j, pcs),
           UNCHANGED disk,
           What(j)' = What(j) \/ What(j) \notin Contents \/ j \notin Imports \cup Opens,
           j \in Imports \cup Opens /\ call'[j].pc \in {"check", "move"}
             => call[j].pc \in {"check", "move"},
           j \in Imports /\ call'[j].pc \in Reporting => Kept(What(j)'),
           j \in Deletes => call[j].pc \notin {"drop"} \cup Over
    PROVE  FilesInv'
<1>0. UNCHANGED <<library, trash, staging, incomplete>>
  BY DEF disk, tmp
<1>1. \A c : Kept(c)' = Kept(c)
  BY <1>0 DEF Kept
<1>2. LibraryBytes'
  BY <1>0 DEF FilesInv, LibraryBytes
<1>3. j \in Imports \cup Opens => Scratch(j)'
  BY <1>0 DEF FilesInv, ScratchBytes, Scratch
<1>4. j \in incomplete' => What(j)' \in Contents
  BY <1>0 DEF FilesInv, ScratchBytes, TypeOK
<1>5. j \in Imports /\ call'[j].pc \in Reporting => KeptFor(j)'
  BY <1>0 DEF Kept, KeptFor
<1> QED
  BY <1>0, <1>1, <1>2, <1>3, <1>4, <1>5, FilesStep

\* A staged file comes to its place: nothing kept is lost, and it is kept.
LEMMA RenameKeeps ==
    ASSUME TypeOK, FilesInv, NEW j \in Imports \cup Opens, RenameInto(j),
           staging[j] = What(j), What(j) \in Contents, call[j].name \in Names
    PROVE  /\ LibraryBytes' /\ trash' = trash /\ incomplete' = incomplete
           /\ \A k \in (Imports \cup Opens) \ {j} : staging'[k] = staging[k]
           /\ staging'[j] = Nothing
           /\ \A c \in Contents : Kept(c) => Kept(c)'
           /\ \E n \in Names : library'[<<What(j), n>>] = What(j)
<1>1. /\ library' = [library EXCEPT ![Path(j)] = What(j)]
      /\ staging' = [staging EXCEPT ![j] = Nothing] /\ UNCHANGED <<trash, incomplete>>
  BY DEF RenameInto
<1>2. Path(j) = <<What(j), call[j].name>> /\ Path(j) \in Paths
  BY DEF Path, Paths, What
<1>3. /\ library'[<<What(j), call[j].name>>] = What(j)
      /\ \A p \in Paths : p # Path(j) => library'[p] = library[p]
  BY <1>1, <1>2 DEF TypeOK
<1>4. LibraryBytes'
  BY <1>2, <1>3 DEF FilesInv, LibraryBytes
<1>5. ASSUME NEW c \in Contents, Kept(c) PROVE Kept(c)'
  <2>1. CASE \E n \in Names : library[<<c, n>>] = c
    <3>1. PICK n \in Names : library[<<c, n>>] = c
      BY <2>1
    <3>2. <<c, n>> \in Paths
      BY DEF Paths
    <3> QED BY <1>2, <1>3, <3>1, <3>2 DEF Kept
  <2>2. CASE \E d \in Deletes : <<d, c>> \in trash
    BY <1>1, <2>2 DEF Kept
  <2> QED BY <1>5, <2>1, <2>2 DEF Kept
<1>6. \E n \in Names : library'[<<What(j), n>>] = What(j)
  BY <1>3
<1> QED
  BY <1>1, <1>4, <1>5, <1>6 DEF TypeOK

\* No row was committed, and the call did not come to rely on the quota.
LEMMA QuotaFrame ==
    ASSUME TypeOK, Located, Reserved, InsertedWithinCap, NEW j \in Calls, NEW pcs, Turn(j, pcs),
           \A c \in Contents : row'[c].id \in Imports \cup Opens => row[c].id \in Imports \cup Opens,
           j \in Imports /\ call'[j].pc \in Admitted /\ call'[j].held = Nobody
             => call[j].pc \in Admitted /\ call[j].held = Nobody /\ What(j)' = What(j)
    PROVE  Reserved' /\ InsertedWithinCap'
<1>1. Inserted' \in SUBSET Inserted /\ Inserted \in SUBSET Contents
  BY DEF Inserted
<1>2. RowBytes(Inserted') <= RowBytes(Inserted) /\ RowBytes(Inserted) <= Cap
  BY <1>1, RowBytesMonotone DEF InsertedWithinCap, Inserted
<1>3. Cap \in Nat
  BY LibraryAssumption DEF LibraryAssumption
<1>4. InsertedWithinCap'
  <2>1. RowBytes(Inserted') \in Nat /\ RowBytes(Inserted) \in Nat
    BY <1>1, RowBytesFinite
  <2>2. RowBytes(Inserted') <= Cap
    BY <1>2, <1>3, <2>1
  <2> QED BY <2>2 DEF InsertedWithinCap, Inserted, RowBytes, Sum
<1>5. Reserved'
  <2>1. ASSUME NEW i \in Imports, call'[i].pc \in Admitted, call'[i].held = Nobody
        PROVE  RowBytes(Inserted' \cup {What(i)'}) <= Cap
    <3>1. call[i].pc \in Admitted /\ call[i].held = Nobody /\ What(i)' = What(i)
      BY <2>1, Kinds DEF Turn, What
    <3>2. What(i) \in Contents
      BY <3>1, Kinds DEF Located, Placed, Working, Admitted, Pcs, Inside, Over
    <3>3. /\ Inserted' \cup {What(i)} \in SUBSET (Inserted \cup {What(i)})
          /\ Inserted \cup {What(i)} \in SUBSET Contents
      BY <1>1, <3>2
    <3>4. RowBytes(Inserted' \cup {What(i)}) <= RowBytes(Inserted \cup {What(i)})
      BY <3>3, RowBytesMonotone
    <3>5. RowBytes(Inserted \cup {What(i)}) <= Cap
      BY <3>1 DEF Reserved
    <3>6. /\ RowBytes(Inserted \cup {What(i)}) \in Nat
          /\ RowBytes(Inserted' \cup {What(i)}) \in Nat
      BY <3>3, RowBytesFinite
    <3> QED BY <1>3, <3>1, <3>4, <3>5, <3>6
  <2> QED BY <2>1 DEF Reserved, RowBytes, Sum
<1> QED
  BY <1>4, <1>5

\* A call goes on and no file moved.
LEMMA QuietGo ==
    ASSUME LibraryInv, NEW j \in Calls, NEW pc \in Pcs \ {"idle"}, Goto(j, pc),
           UNCHANGED <<disk, lock, purge>>, StoreTypes',
           pc \in Working => call[j].pc \in Working,
           pc \in Working \ {"select"} => call[j].pc \in Working \ {"select"},
           pc \in {"copied", "promoted"} => What(j) \in Contents,
           pc \notin {"present", "promote"},
           j \in Imports /\ pc \in Locked => call[j].pc \in Locked,
           j \in Opens => pc # "gate",
           j \in Imports \cup Opens /\ pc \in {"check", "move"}
             => call[j].pc \in {"check", "move"},
           j \in Imports /\ pc \in Reporting => KeptFor(j),
           j \notin Deletes
    PROVE  /\ Turn(j, {pc}) /\ What(j)' = What(j) /\ call'[j].held = call[j].held
           /\ TypeOK' /\ LockHeld' /\ Located' /\ FilesInv'
<1>0. TypeOK /\ LockHeld /\ Located /\ FilesInv /\ Placed(j) /\ pc \in Pcs
  BY DEF LibraryInv, Located
<1>1. /\ Turn(j, {pc}) /\ What(j)' = What(j) /\ call'[j].held = call[j].held
      /\ call'[j].name = call[j].name /\ call'[j].pc = pc
  BY <1>0, GoingOn DEF Turn
<1>2. TypeOK'
  BY <1>1, TypeParts2 DEF Turn
<1>3. LockHeld'
  BY <1>0, <1>1, LockFrame
<1>4. Placed(j)'
  BY <1>0, <1>1 DEF Placed
<1>5. Located'
  BY <1>0, <1>1, <1>4, LocatedFrame
<1>6. FilesInv'
  BY <1>0, <1>1, FilesFrame DEF KeptFor
<1> QED
  BY <1>1, <1>2, <1>3, <1>5, <1>6

\* A call ends and no file moved.
LEMMA QuietEnd ==
    ASSUME LibraryInv, NEW j \in Calls, NEW how \in Over, Ended(j, how),
           UNCHANGED <<disk, purge>>, lock' = lock \/ (lock = j /\ lock' = Nobody), StoreTypes',
           how \in {"copied", "promoted"} => What(j) \in Contents,
           j \in Imports /\ how \in Reporting => KeptFor(j),
           j \in Deletes => call[j].pc \notin {"drop"} \cup Over
    PROVE  /\ Turn(j, {how}) /\ What(j)' = What(j) /\ call'[j].held = Nobody
           /\ TypeOK' /\ LockHeld' /\ Located' /\ FilesInv'
<1>0. TypeOK /\ LockHeld /\ Located /\ FilesInv
  BY DEF LibraryInv
<1>1. /\ Turn(j, {how}) /\ What(j)' = What(j) /\ call'[j].held = Nobody
      /\ call'[j].pc = how /\ how \notin Inside \cup Working \cup {"idle", "select", "drop"}
  BY <1>0, Ending DEF Turn, Over, Inside, Working
<1>2. TypeOK'
  BY <1>1, TypeParts2 DEF Turn
<1>3. LockHeld'
  BY <1>0, <1>1, LockFrame DEF Locked, Inside
<1>4. Placed(j)'
  BY <1>0, <1>1 DEF Placed, Inside
<1>5. Located'
  BY <1>0, <1>1, <1>4, LocatedFrame
<1>6. FilesInv'
  BY <1>0, <1>1, FilesFrame DEF KeptFor, Inside
<1> QED
  BY <1>1, <1>2, <1>3, <1>5, <1>6

\* The parts, each for itself.
LEMMA LibraryParts ==
    StoreTypes' /\ call' \in [Calls -> Call] /\ LockHeld' /\ Located' /\ FilesInv'
       /\ Reserved' /\ InsertedWithinCap' => LibraryInv'
  BY TypeParts2 DEF LibraryInv

-----------------------------------------------------------------------------
(* An import.                                                                 *)
LEMMA ImportLocksUp ==
    ASSUME LibraryInv, NEW i \in Imports,
           TakeLock(i) \/ Lookup(i) \/ FilePresent(i) \/ PromoteToPermanent(i) \/ QuotaCheck(i)
    PROVE  LibraryInv'
<1> USE DEF At
<1>0. /\ i \in Calls /\ i \notin Opens \cup Deletes /\ TypeOK /\ StoreTypes /\ LockHeld /\ Located
      /\ Placed(i) /\ FilesInv /\ Reserved /\ InsertedWithinCap /\ KeptFiles /\ LibraryBytes
  BY Kinds, TypeParts DEF LibraryInv, Located, FilesInv
<1>1. CASE TakeLock(i)
  <2>1. Turn(i, {"lookup"})
        /\ What(i)' = What(i) /\ call'[i].name = call[i].name /\ call'[i].held = call[i].held
    BY <1>0, <1>1, GoingOn DEF TakeLock, Pcs, Inside
  <2>2. StoreTypes'
    BY <1>0, <1>1 DEF TakeLock, StoreTypes, db, disk, tmp
  <2>4. LockHeld'
    BY <1>0, <1>1, <2>1, Kinds DEF TakeLock, LockHeld, Turn, Locked, Inside, Nobody, Purger
  <2>5. Placed(i)'
    BY <1>0, <1>1, <2>1 DEF TakeLock, Placed, Turn, Working, Pcs, Over, Inside
  <2>6. FilesInv'
    BY <1>0, <1>1, <2>1, FilesFrame DEF TakeLock, Turn, Reporting
  <2>7. Reserved' /\ InsertedWithinCap'
    BY <1>0, <1>1, <2>1, QuotaFrame DEF TakeLock, Turn, Admitted, db
  <2> QED
    BY <1>0, <2>1, <2>2, <2>4, <2>5, <2>6, <2>7, LocatedFrame, LibraryParts DEF Turn
<1>2. CASE Lookup(i)
  <2> DEFINE r == row[What(i)]
  <2>1. What(i) \in Contents /\ call[i].name \in Names /\ lock = i /\ r \in Row \cup {NoRow}
    BY <1>0, <1>2 DEF Lookup, Placed, Working, Pcs, Over, Inside, LockHeld, Locked, TypeOK
  <2>2. /\ Turn(i, {"quota", "deduped", "present"}) /\ What(i)' = What(i)
        /\ call'[i].pc # "deduped" => call'[i].name = call[i].name /\ lock' = lock
        /\ call'[i].pc = "present" => call'[i].held # Nobody
        /\ call'[i].pc = "deduped" => lock' = Nobody
    <3>1. CASE Goto(i, "quota") /\ UNCHANGED lock
      <4>1. Turn(i, {"quota"}) /\ What(i)' = What(i) /\ call'[i].name = call[i].name
        BY <3>1, <1>0, GoingOn DEF Pcs, Inside
      <4> QED BY <3>1, <4>1 DEF Turn
    <3>2. CASE EndLocked(i, "deduped")
      <4>1. Turn(i, {"deduped"}) /\ What(i)' = What(i)
        BY <3>2, <1>0, Ending DEF EndLocked, Over
      <4> QED BY <3>2, <4>1 DEF Turn, EndLocked
    <3>3. CASE /\ r.status = "temporary" /\ UNCHANGED lock
               /\ call' = [call EXCEPT ![i].pc = "present", ![i].held = r.id,
                                       ![i].left = {<<What(i), r.name>>}]
      <4> DEFINE x == [call[i] EXCEPT !.pc = "present", !.held = r.id,
                                      !.left = {<<What(i), r.name>>}]
      <4>1. r.name \in Names /\ r.id \in Calls
        BY <3>3, <2>1 DEF Row, NoRow
      <4>2. {<<What(i), r.name>>} \in SUBSET Paths
        BY <4>1, <2>1 DEF Paths
      <4>3. call[i] \in Call
        BY <1>0 DEF TypeOK
      <4>4. x \in Call /\ x.pc = "present" /\ x.what = call[i].what /\ x.name = call[i].name
            /\ x.held # Nobody
        <5> Nobody \notin Calls
          BY Kinds
        <5> HIDE DEF r
        <5> QED BY <4>1, <4>2, <4>3 DEF Call, Pcs, Inside
      <4>5. call' = [call EXCEPT ![i] = x]
        BY <3>3
      <4> HIDE DEF x
      <4>6. Turn(i, {"present"}) /\ call'[i] = x
        BY <4>4, <4>5, <1>0, Changing
      <4> QED BY <3>3, <4>4, <4>6 DEF Turn, What
    <3> QED
      BY <1>2, <3>1, <3>2, <3>3 DEF Lookup
  <2>4. StoreTypes'
    BY <1>0, <1>2 DEF Lookup, StoreTypes, EndLocked, db, disk, tmp
  <2>5. LockHeld'
    BY <1>0, <1>2, <2>1, <2>2, LockFrame DEF Lookup, Turn, Locked, Inside
  <2>6. Placed(i)'
    BY <1>0, <2>1, <2>2 DEF Placed, Turn, Working, Pcs, Over, Inside
  <2>7. FilesInv'
    BY <1>0, <1>2, <2>2, FilesFrame DEF Lookup, Turn, Reporting
  <2>8. Reserved' /\ InsertedWithinCap'
    BY <1>0, <1>2, <2>2, QuotaFrame DEF Lookup, Turn, Admitted, db
  <2> QED
    BY <1>0, <2>2, <2>4, <2>5, <2>6, <2>7, <2>8, LocatedFrame, LibraryParts DEF Turn
<1>3. CASE FilePresent(i)
  <2> DEFINE next == IF \E p \in call[i].left: library[p] = What(i) THEN "promote" ELSE "quota"
             x == [call[i] EXCEPT !.left = {}, !.pc = next]
  <2>1. /\ call[i].pc = "present" /\ call[i] \in Call /\ What(i) \in Contents
        /\ call[i].name \in Names /\ call[i].left \in SUBSET Paths
    BY <1>0, <1>3 DEF FilePresent, Placed, Working, Pcs, Over, Inside, TypeOK, Call
  <2>2. x \in Call /\ x.pc = next /\ x.what = call[i].what /\ x.name = call[i].name
        /\ x.held = call[i].held /\ call[i].held # Nobody
        /\ next \in {"promote", "quota"}
    BY <1>0, <2>1 DEF Call, Pcs, Inside, Placed
  <2>3. call' = [call EXCEPT ![i] = x]
    BY <1>0, <1>3 DEF FilePresent, TypeOK
  <2>4. next = "promote" => Kept(What(i))
    <3>1. ASSUME NEW p \in call[i].left, library[p] = What(i)
          PROVE  \E n \in Names : library[<<What(i), n>>] = What(i)
      <4>1. p \in Paths /\ What(i) # Nothing
        BY <2>1, <3>1, Kinds
      <4>2. p[1] = What(i)
        BY <1>0, <4>1, <3>1 DEF LibraryBytes
      <4>3. p = <<What(i), p[2]>> /\ p[2] \in Names
        BY <4>1, <4>2 DEF Paths
      <4> QED BY <4>3, <3>1
    <3> QED BY <3>1 DEF Kept
  <2> HIDE DEF x, next
  <2>5. /\ Turn(i, {next}) /\ What(i)' = What(i) /\ call'[i].name = call[i].name
        /\ call'[i].pc = next /\ call'[i].held # Nobody
    <3>1. Turn(i, {next}) /\ call'[i] = x
      BY <1>0, <2>2, <2>3, Changing
    <3> QED BY <2>2, <3>1 DEF What
  <2>6. StoreTypes'
    BY <1>0, <1>3 DEF FilePresent, StoreTypes, db, disk, tmp
  <2>7. LockHeld'
    BY <1>0, <1>3, <2>1, <2>2, <2>5, LockFrame DEF FilePresent, Locked, Inside
  <2>8. Placed(i)'
    BY <1>0, <2>1, <2>2, <2>5 DEF Placed
  <2>9. FilesInv'
    BY <1>0, <1>3, <2>2, <2>4, <2>5, FilesFrame DEF FilePresent, Reporting
  <2>10. Reserved' /\ InsertedWithinCap'
    BY <1>0, <1>3, <2>2, <2>5, QuotaFrame DEF FilePresent, Admitted, db
  <2> QED
    BY <1>0, <2>5, <2>6, <2>7, <2>8, <2>9, <2>10, LocatedFrame, LibraryParts DEF Turn
<1>4. CASE PromoteToPermanent(i)
  <2>1. /\ call[i].pc = "promote" /\ lock = i /\ KeptFor(i) /\ What(i) \in Contents
        /\ Ended(i, "promoted") /\ "promoted" \in Over /\ lock' = Nobody
        /\ UNCHANGED <<dl, disk, purge, troubles>>
    BY <1>0, <1>4 DEF PromoteToPermanent, EndLocked, LockHeld, Locked, Inside, KeptFiles,
                      Reporting, Placed, Working, Pcs, Over
  <2>2. /\ row' \in [Contents -> Row \cup {NoRow}]
        /\ \A c \in Contents : row'[c].id = row[c].id
    <3>1. Permanent(What(i), call[i].held) /\ call[i].held # Nobody
      BY <1>0, <1>4, <2>1 DEF PromoteToPermanent, Placed
    <3> QED BY <1>0, <2>1, <3>1, PermanentRow
  <2>3. StoreTypes'
    BY <1>0, <2>1, <2>2 DEF StoreTypes, disk, tmp
  <2>4. /\ Turn(i, {"promoted"}) /\ What(i)' = What(i)
        /\ TypeOK' /\ LockHeld' /\ Located' /\ FilesInv'
    BY <1>0, <2>1, <2>3, QuietEnd
  <2>5. Reserved' /\ InsertedWithinCap'
    BY <1>0, <2>2, <2>4, QuotaFrame DEF Turn, Admitted
  <2> QED
    BY <2>4, <2>5 DEF LibraryInv
<1>5. CASE QuotaCheck(i)
  <2>1. /\ call[i].pc = "quota" /\ lock = i /\ What(i) \in Contents /\ UNCHANGED <<db, disk, purge, troubles>>
    BY <1>0, <1>5 DEF QuotaCheck, LockHeld, Locked, Inside, Placed, Working, Pcs, Over
  <2>2. CASE EndLocked(i, "refused")
    <3>1. StoreTypes'
      BY <1>0, <2>1, <2>2 DEF StoreTypes, db, disk, tmp, EndLocked
    <3>2. /\ Turn(i, {"refused"}) /\ TypeOK' /\ LockHeld' /\ Located' /\ FilesInv'
      BY <1>0, <2>1, <2>2, <3>1, QuietEnd DEF EndLocked, Over, Reporting
    <3>3. Reserved' /\ InsertedWithinCap'
      BY <1>0, <2>1, <3>2, QuotaFrame DEF Turn, Admitted, db
    <3> QED
      BY <3>2, <3>3 DEF LibraryInv
  <2>3. CASE Goto(i, "copy") /\ UNCHANGED lock
    <3>1. StoreTypes'
      BY <1>0, <2>1, <2>3 DEF StoreTypes, db, disk, tmp
    <3>2. /\ Turn(i, {"copy"}) /\ What(i)' = What(i) /\ call'[i].held = call[i].held
          /\ TypeOK' /\ LockHeld' /\ Located' /\ FilesInv'
      BY <1>0, <2>1, <2>3, <3>1, QuietGo DEF Pcs, Inside, Locked, Working, Over, Reporting
    <3>3. call[i].held = Nobody => RowBytes(Inserted \cup {What(i)}) <= Cap
      <4>1. ~Ended(i, "refused")
        BY <1>0, <3>2, Ending DEF Turn, Over
      <4>2. call[i].held = Nobody => Fits(What(i))
        BY <1>5, <4>1 DEF QuotaCheck, EndLocked
      <4> QED BY <1>0, <2>1, <4>2, FittingIsFree DEF FilesInv
    <3>4. Reserved' /\ InsertedWithinCap'
      <4>1. Inserted' = Inserted
        BY <2>1 DEF Inserted, db
      <4>2. ASSUME NEW k \in Imports, call'[k].pc \in Admitted, call'[k].held = Nobody
            PROVE  RowBytes(Inserted' \cup {What(k)'}) <= Cap
        <5>1. CASE k = i
          BY <4>1, <4>2, <5>1, <3>2, <3>3
        <5>2. CASE k # i
          BY <4>1, <4>2, <5>2, <3>2, <1>0, Kinds DEF Turn, What, Reserved
        <5> QED BY <5>1, <5>2
      <4>3. Reserved'
        BY <4>2 DEF Reserved, RowBytes, Sum
      <4>4. InsertedWithinCap'
        BY <1>0, <2>1 DEF InsertedWithinCap, Inserted, RowBytes, Sum, db
      <4> QED BY <4>3, <4>4
    <3> QED
      BY <3>2, <3>4 DEF LibraryInv
  <2> QED
    BY <1>5, <2>2, <2>3 DEF QuotaCheck
<1> QED
  BY <1>1, <1>2, <1>3, <1>4, <1>5

\* A call changed its own staging file only.
LEMMA StagingStep ==
    ASSUME LibraryInv, NEW j \in Imports \cup Opens, NEW pcs, Turn(j, pcs),
           What(j)' = What(j), What(j) \in Contents,
           UNCHANGED <<library, trash>>, incomplete' \subseteq incomplete \cup {j},
           \A k \in (Imports \cup Opens) \ {j} : staging'[k] = staging[k], Scratch(j)',
           j \in Imports => call'[j].pc \notin Reporting
    PROVE  FilesInv'
<1>0. /\ TypeOK /\ Located /\ FilesInv /\ j \in Calls /\ j \notin Deletes
  BY Kinds DEF LibraryInv
<1>1. LibraryBytes' /\ \A c \in Contents : Kept(c) => Kept(c)'
  BY <1>0 DEF FilesInv, LibraryBytes, Kept
<1> QED
  BY <1>0, <1>1, FilesStep

LEMMA ImportCopiesUp ==
    ASSUME LibraryInv, NEW i \in Imports,
           CopySource(i) \/ VerifyCopy(i) \/ ImportCheck(i) \/ ImportMove(i)
    PROVE  LibraryInv'
<1> USE DEF At
<1>0. /\ i \in Calls /\ i \in Imports \cup Opens /\ i \notin Opens \cup Deletes /\ TypeOK /\ StoreTypes
      /\ LockHeld /\ Located /\ Placed(i) /\ Scratch(i) /\ FilesInv /\ Reserved /\ InsertedWithinCap
      /\ LibraryBytes
  BY Kinds, TypeParts DEF LibraryInv, Located, FilesInv, ScratchBytes
<1>1. /\ What(i) \in Contents /\ call[i].name \in Names /\ lock = i
      /\ call[i].pc \in {"copy", "verify", "check", "move"}
  BY <1>0 DEF CopySource, VerifyCopy, ImportCheck, ImportMove, LockHeld, Locked, Inside, Placed,
              Working, Pcs, Over
<1>2. UNCHANGED <<db, purge>>
  BY DEF CopySource, VerifyCopy, ImportCheck, ImportMove
\* Any of them that ends, or goes on within what it was admitted with.
<1>3. ASSUME StoreTypes', FilesInv',
             \/ /\ Goto(i, "verify") \/ Goto(i, "check") \/ Goto(i, "move") \/ Goto(i, "insert")
                /\ UNCHANGED lock
             \/ EndLocked(i, "failed")
      PROVE  LibraryInv'
  <2>1. CASE \E pc \in {"verify", "check", "move", "insert"} : Goto(i, pc) /\ UNCHANGED lock
    <3>1. PICK pc \in {"verify", "check", "move", "insert"} : Goto(i, pc) /\ UNCHANGED lock
      BY <2>1
    <3>2. /\ Turn(i, {pc}) /\ What(i)' = What(i) /\ call'[i].held = call[i].held
          /\ call'[i].name = call[i].name /\ call'[i].pc = pc
      BY <1>0, <3>1, GoingOn DEF Pcs, Inside, Turn
    <3>3. LockHeld'
      BY <1>0, <1>1, <1>2, <3>1, <3>2, LockFrame DEF Locked, Inside
    <3>4. Placed(i)'
      BY <1>0, <1>1, <3>2 DEF Placed
    <3>5. Reserved' /\ InsertedWithinCap'
      BY <1>0, <1>1, <1>2, <3>2, QuotaFrame DEF Admitted, db
    <3> QED
      BY <1>0, <1>3, <3>2, <3>3, <3>4, <3>5, LocatedFrame, LibraryParts DEF Turn
  <2>2. CASE EndLocked(i, "failed")
    <3>1. /\ Turn(i, {"failed"}) /\ What(i)' = What(i) /\ call'[i].pc = "failed"
      BY <1>0, <2>2, Ending DEF Over, Turn, EndLocked
    <3>2. LockHeld'
      BY <1>0, <1>1, <1>2, <2>2, <3>1, LockFrame DEF EndLocked, Inside
    <3>3. Placed(i)'
      BY <1>0, <1>1, <3>1 DEF Placed, Working, Over
    <3>4. Reserved' /\ InsertedWithinCap'
      BY <1>0, <1>2, <3>1, QuotaFrame DEF Admitted, db
    <3> QED
      BY <1>0, <1>3, <3>1, <3>2, <3>3, <3>4, LocatedFrame, LibraryParts DEF Turn
  <2> QED
    BY <1>3, <2>1, <2>2
<1>4. ASSUME NEW pc \in {"verify", "check", "move", "insert"}, Goto(i, pc)
      PROVE  Turn(i, {pc}) /\ What(i)' = What(i) /\ call'[i].pc = pc
  BY <1>0, <1>4, GoingOn DEF Pcs, Inside, Turn
<1>5. ASSUME EndLocked(i, "failed")
      PROVE  Turn(i, {"failed"}) /\ What(i)' = What(i) /\ call'[i].pc = "failed"
  BY <1>0, <1>5, Ending DEF Over, Turn, EndLocked
<1>6. CASE CopySource(i)
  <2>1. /\ staging' = [staging EXCEPT ![i] = Torn] /\ Goto(i, "verify")
        /\ UNCHANGED <<library, trash, incomplete, lock>>
    BY <1>6 DEF CopySource
  <2>2. StoreTypes'
    BY <1>0, <1>6 DEF CopySource, StoreTypes, db
  <2>3. staging'[i] = Torn /\ \A k \in (Imports \cup Opens) \ {i} : staging'[k] = staging[k]
    BY <2>1, <1>0 DEF TypeOK
  <2>4. Scratch(i)'
    BY <2>3, <2>1, <1>4, <1>1 DEF Scratch
  <2>5. FilesInv'
    BY <2>1, <2>3, <2>4, <1>0, <1>1, <1>4, StagingStep DEF Reporting
  <2> QED BY <2>1, <2>2, <2>5, <1>3
<1>7. CASE VerifyCopy(i)
  <2>1. CASE staging' = [staging EXCEPT ![i] = What(i)] /\ Goto(i, "check") /\ UNCHANGED <<lock, troubles>>
    <3>1. StoreTypes'
      BY <1>0, <1>1, <1>7, <2>1 DEF VerifyCopy, StoreTypes, db
    <3>2. staging'[i] = What(i) /\ \A k \in (Imports \cup Opens) \ {i} : staging'[k] = staging[k]
      BY <2>1, <1>0 DEF TypeOK
    <3>3. Scratch(i)'
      BY <3>2, <2>1, <1>4, <1>1, Kinds DEF Scratch
    <3>4. FilesInv'
      BY <1>7, <2>1, <3>2, <3>3, <1>0, <1>1, <1>4, StagingStep DEF VerifyCopy, Reporting
    <3> QED BY <2>1, <3>1, <3>4, <1>3
  <2>2. CASE Trouble /\ staging' = [staging EXCEPT ![i] = Nothing] /\ EndLocked(i, "failed")
    <3>1. StoreTypes'
      BY <1>0, <1>7, <2>2, LibraryAssumption DEF VerifyCopy, StoreTypes, db, Trouble, EndLocked, LibraryAssumption
    <3>2. staging'[i] = Nothing /\ \A k \in (Imports \cup Opens) \ {i} : staging'[k] = staging[k]
      BY <2>2, <1>0 DEF TypeOK
    <3>3. Scratch(i)'
      BY <3>2, <2>2, <1>5, <1>1, Kinds DEF Scratch
    <3>4. FilesInv'
      BY <1>7, <2>2, <3>2, <3>3, <1>0, <1>1, <1>5, StagingStep DEF VerifyCopy, Reporting
    <3> QED BY <2>2, <3>1, <3>4, <1>3
  <2> QED BY <1>7, <2>1, <2>2 DEF VerifyCopy
<1>8. CASE ImportCheck(i)
  <2>1. (Goto(i, "move") /\ UNCHANGED lock) \/ EndLocked(i, "failed")
    BY <1>8 DEF ImportCheck
  <2>2. StoreTypes'
    BY <1>0, <1>8 DEF ImportCheck, StoreTypes, db, disk, tmp, EndLocked
  <2>3. call[i].pc = "check" /\ UNCHANGED disk
    BY <1>8 DEF ImportCheck
  <2>4. FilesInv'
    <3>1. CASE Goto(i, "move")
      BY <2>3, <3>1, <1>0, <1>1, <1>4, FilesFrame DEF Reporting
    <3>2. CASE EndLocked(i, "failed")
      BY <2>3, <3>2, <1>0, <1>1, <1>5, FilesFrame DEF Reporting
    <3> QED BY <2>1, <3>1, <3>2
  <2> QED BY <2>1, <2>2, <2>4, <1>3
<1>9. CASE ImportMove(i)
  <2>1. CASE staging[i] = Nothing /\ EndLocked(i, "failed") /\ UNCHANGED disk
    <3>1. StoreTypes'
      BY <1>0, <1>9, <2>1 DEF ImportMove, StoreTypes, db, disk, tmp, EndLocked
    <3>2. FilesInv'
      BY <2>1, <1>0, <1>1, <1>5, FilesFrame DEF Reporting
    <3> QED BY <2>1, <3>1, <3>2, <1>3
  <2>2. CASE staging[i] # Nothing /\ RenameInto(i) /\ Goto(i, "insert") /\ UNCHANGED lock
    <3>1. staging[i] = What(i)
      BY <1>0, <1>9, <2>2 DEF ImportMove, Scratch
    <3>2. /\ LibraryBytes' /\ trash' = trash /\ incomplete' = incomplete
          /\ \A k \in (Imports \cup Opens) \ {i} : staging'[k] = staging[k]
          /\ staging'[i] = Nothing
          /\ \A c \in Contents : Kept(c) => Kept(c)'
          /\ \E n \in Names : library'[<<What(i), n>>] = What(i)
      BY <1>0, <1>1, <2>2, <3>1, RenameKeeps
    <3>3. StoreTypes'
      BY <1>0, <1>1, <1>9, <2>2, <3>1 DEF ImportMove, RenameInto, StoreTypes, db, Path, Paths, What
    <3>4. KeptFor(i)'
      BY <2>2, <3>2, <1>4 DEF KeptFor, Kept
    <3>5. Scratch(i)' /\ What(i)' = What(i) /\ Turn(i, {"insert"})
      BY <2>2, <3>2, <1>4, Kinds DEF Scratch
    <3>6. FilesInv'
      <4>1. i \in incomplete' => What(i)' \in Contents
        BY <1>1, <3>5
      <4> QED BY <1>0, <3>2, <3>4, <3>5, <4>1, FilesStep
    <3> QED BY <2>2, <3>3, <3>6, <1>3
  <2> QED BY <1>9, <2>1, <2>2 DEF ImportMove
<1> QED
  BY <1>6, <1>7, <1>8, <1>9

LEMMA InsertUp ==
    ASSUME LibraryInv, NEW i \in Imports, InsertMediaItem(i)
    PROVE  LibraryInv'
<1> USE DEF At
<1> DEFINE c == What(i)
<1>0. /\ i \in Calls /\ i \notin Opens \cup Deletes /\ TypeOK /\ StoreTypes
      /\ LockHeld /\ Located /\ FilesInv /\ Reserved /\ InsertedWithinCap
  BY Kinds, TypeParts DEF LibraryInv
<1>1. /\ call[i].pc = "insert" /\ c \in Contents /\ call[i].name \in Names /\ lock = i /\ KeptFor(i)
      /\ UNCHANGED <<dl, disk, purge>> /\ row[c] \in Row \cup {NoRow}
  BY <1>0 DEF InsertMediaItem, LockHeld, Locked, Inside, Located, Placed, Working, Pcs, Over,
              FilesInv, KeptFiles, Reporting, TypeOK
\* It ends; no other import is inside.
<1>2. ASSUME NEW how \in {"copied", "failed"}, EndLocked(i, how), StoreTypes', RowBytes(Inserted') <= Cap
      PROVE  LibraryInv'
  <2>1. /\ Turn(i, {how}) /\ TypeOK' /\ LockHeld' /\ Located' /\ FilesInv'
    BY <1>0, <1>1, <1>2, QuietEnd DEF EndLocked, Over
  <2>2. \A k \in Imports : call'[k].pc \notin Admitted
    <3>1. \A k \in Imports \ {i} : call[k].pc \notin Admitted
      BY <1>0, <1>1 DEF LockHeld, Locked, Inside, Admitted
    <3>2. Imports \subseteq Calls
      BY Kinds
    <3> QED BY <2>1, <3>1, <3>2 DEF Turn, Admitted
  <2>3. Reserved' /\ InsertedWithinCap'
    BY <1>2, <2>2 DEF Reserved, InsertedWithinCap, Inserted, RowBytes, Sum
  <2> QED
    BY <2>1, <2>3 DEF LibraryInv
<1>3. \A id \in Calls : NewRow(id, i) \in Row /\ NewRow(id, i).id = id
  BY <1>1 DEF NewRow, Row
<1>4. CASE call[i].held # Nobody /\ EndLocked(i, "copied") /\ UNCHANGED troubles
           /\ row' = [row EXCEPT ![c] = IF @.id = call[i].held THEN NewRow(@.id, i) ELSE @]
  <2>1. row[c].id = call[i].held => row[c].id \in Calls
    BY <1>1, <1>4 DEF Row, NoRow
  <2>2. row' \in [Contents -> Row \cup {NoRow}] /\ \A d \in Contents : row'[d].id = row[d].id
    <3> DEFINE new == IF row[c].id = call[i].held THEN NewRow(row[c].id, i) ELSE row[c]
    <3>1. new \in Row \cup {NoRow} /\ new.id = row[c].id
      BY <1>1, <1>3, <2>1
    <3>2. row' = [row EXCEPT ![c] = new] /\ row \in [Contents -> Row \cup {NoRow}]
      BY <1>0, <1>4 DEF TypeOK
    <3> HIDE DEF new, c
    <3> QED BY <3>1, <3>2, <1>1
  <2>3. StoreTypes'
    BY <1>0, <1>1, <1>4, <2>2 DEF StoreTypes, disk, tmp, EndLocked
  <2>4. RowBytes(Inserted') <= Cap
    <3>1. Inserted' = Inserted
      BY <2>2 DEF Inserted
    <3> QED BY <1>0, <3>1 DEF InsertedWithinCap, Inserted
  <2> QED BY <1>2, <1>4, <2>3, <2>4
<1>5. CASE call[i].held = Nobody /\ row[c] = NoRow /\ EndLocked(i, "copied") /\ UNCHANGED troubles
           /\ row' = [row EXCEPT ![c] = NewRow(i, i)]
  <2>1. row' \in [Contents -> Row \cup {NoRow}] /\ row'[c].id = i
        /\ \A d \in Contents \ {c} : row'[d] = row[d]
    <3> HIDE DEF c
    <3> QED BY <1>0, <1>1, <1>3, <1>5 DEF TypeOK
  <2>2. StoreTypes'
    BY <1>0, <1>1, <1>5, <2>1 DEF StoreTypes, disk, tmp, EndLocked
  <2>3. Inserted' = Inserted \cup {c}
    BY <1>1, <2>1 DEF Inserted
  <2>4. RowBytes(Inserted') <= Cap
    BY <1>0, <1>1, <1>5, <2>3 DEF Reserved, Admitted
  <2> QED BY <1>2, <1>5, <2>2, <2>4
<1>6. CASE EndLocked(i, "failed") /\ row' = row /\ (Trouble \/ UNCHANGED troubles)
  <2>1. StoreTypes'
    BY <1>0, <1>1, <1>6, LibraryAssumption
    DEF StoreTypes, disk, tmp, EndLocked, Trouble, LibraryAssumption
  <2>2. RowBytes(Inserted') <= Cap
    <3>1. Inserted' = Inserted
      BY <1>6 DEF Inserted
    <3> QED BY <1>0, <3>1 DEF InsertedWithinCap, Inserted
  <2> QED BY <1>2, <1>6, <2>1, <2>2
<1> QED
  BY <1>4, <1>5, <1>6 DEF InsertMediaItem

\* A call begins on a content.
LEMMA ImportCallUp ==
    ASSUME LibraryInv, NEW i \in Imports, NEW p \in Paths, ImportCall(i, p)
    PROVE  LibraryInv'
<1> USE DEF At
<1> DEFINE x == [call[i] EXCEPT !.pc = "lock", !.what = p[1], !.name = p[2]]
<1>0. /\ i \in Calls /\ i \notin Opens \cup Deletes /\ TypeOK /\ StoreTypes
      /\ LockHeld /\ Located /\ Placed(i) /\ FilesInv /\ Reserved /\ InsertedWithinCap
  BY Kinds, TypeParts DEF LibraryInv, Located
<1>1. /\ call[i].pc = "idle" /\ UNCHANGED <<db, disk, lock, purge, troubles>>
      /\ call[i] \in Call /\ p[1] \in Contents /\ p[2] \in Names
      /\ call' = [call EXCEPT ![i] = x]
  BY <1>0 DEF ImportCall, TypeOK, Paths
<1>2. x \in Call /\ x.pc = "lock" /\ x.what = p[1] /\ x.name = p[2]
  BY <1>1 DEF Call, Pcs
<1> HIDE DEF x
<1>3. /\ Turn(i, {"lock"}) /\ call'[i] = x
  BY <1>0, <1>1, <1>2, Changing
<1>4. What(i) = 0 /\ What(i)' \in Contents
  BY <1>0, <1>1, <1>2, <1>3 DEF Placed, What
<1>5. StoreTypes'
  BY <1>0, <1>1 DEF StoreTypes, db, disk, tmp
<1>6. LockHeld'
  BY <1>0, <1>1, <1>2, <1>3, LockFrame DEF Locked, Inside
<1>7. Placed(i)'
  BY <1>0, <1>1, <1>2, <1>3, <1>4 DEF Placed
<1>8. FilesInv'
  BY <1>0, <1>1, <1>2, <1>3, <1>4, Kinds, FilesFrame DEF Reporting, Nothing
<1>9. Reserved' /\ InsertedWithinCap'
  BY <1>0, <1>1, <1>2, <1>3, QuotaFrame DEF Admitted, db
<1> QED
  BY <1>0, <1>3, <1>5, <1>6, <1>7, <1>8, <1>9, LocatedFrame, LibraryParts DEF Turn

LEMMA ImportStep ==
    ASSUME LibraryInv, NEW i \in Imports, Import(i) \/ \E p \in Paths: ImportCall(i, p)
    PROVE  LibraryInv'
  BY ImportLocksUp, ImportCopiesUp, InsertUp, ImportCallUp DEF Import

-----------------------------------------------------------------------------
(* A download.                                                                *)

\* No import is inside the lock, and what is committed fits.
LEMMA QuotaAlone ==
    ASSUME LibraryInv, NEW j \in Calls, NEW pcs, Turn(j, pcs), lock = j, j \notin Imports,
           RowBytes(Inserted') <= Cap
    PROVE  Reserved' /\ InsertedWithinCap'
<1>1. \A k \in Imports : call[k].pc \notin Admitted
  BY DEF LibraryInv, LockHeld, Locked, Inside, Admitted
<1>2. \A k \in Imports : call'[k].pc \notin Admitted
  BY <1>1, Kinds DEF Turn
<1> QED
  BY <1>2 DEF Reserved, InsertedWithinCap, Inserted, RowBytes, Sum

LEMMA DownloadGateUp ==
    ASSUME LibraryInv, NEW w \in Opens,
           TakeLock(w) \/ QuotaGate(w) \/ DedupOnDownload(w) \/ \E p \in Paths : OpenCall(w, p)
    PROVE  LibraryInv'
<1> USE DEF At
<1>0. /\ w \in Calls /\ w \notin Imports \cup Scans \cup Deletes /\ TypeOK /\ StoreTypes
      /\ LockHeld /\ Located /\ Placed(w) /\ FilesInv /\ Reserved /\ InsertedWithinCap
  BY Kinds, TypeParts DEF LibraryInv, Located
<1>1. CASE \E p \in Paths : OpenCall(w, p)
  <2>1. PICK p \in Paths : OpenCall(w, p)
    BY <1>1
  <2> DEFINE x == [call[w] EXCEPT !.pc = "lock", !.what = p[1], !.name = p[2]]
  <2>2. /\ call[w].pc = "idle" /\ UNCHANGED <<db, disk, lock, purge, troubles>>
        /\ call[w] \in Call /\ p[1] \in Contents /\ p[2] \in Names
        /\ call' = [call EXCEPT ![w] = x]
    BY <1>0, <2>1 DEF OpenCall, TypeOK, Paths
  <2>3. x \in Call /\ x.pc = "lock" /\ x.what = p[1] /\ x.name = p[2]
    BY <2>2 DEF Call, Pcs
  <2> HIDE DEF x
  <2>4. /\ Turn(w, {"lock"}) /\ call'[w] = x /\ call'[w].pc = "lock"
    BY <1>0, <2>2, <2>3, Changing
  <2>5. What(w)' = p[1] /\ (What(w) \notin Contents \/ What(w)' = What(w))
    <3>1. What(w) = 0 \/ <<call[w].what, call[w].name>> = p
      BY <2>1 DEF OpenCall, Path
    <3>2. What(w) = 0 \/ What(w) = p[1]
      BY <3>1 DEF What
    <3> QED BY <2>3, <2>4, <3>2, Kinds DEF What, Nothing
  <2>6. StoreTypes'
    BY <1>0, <2>2 DEF StoreTypes, db, disk, tmp
  <2>7. LockHeld'
    BY <1>0, <2>2, <2>4, LockFrame
  <2>8. Placed(w)'
    BY <1>0, <2>2, <2>3, <2>4, <2>5 DEF Placed
  <2>9. FilesInv'
    BY <1>0, <2>2, <2>4, <2>5, FilesFrame
  <2>10. Reserved' /\ InsertedWithinCap'
    BY <1>0, <2>2, <2>4, QuotaFrame DEF db
  <2> QED
    BY <1>0, <2>4, <2>6, <2>7, <2>8, <2>9, <2>10, LocatedFrame, LibraryParts DEF Turn
<1>2. CASE TakeLock(w)
  <2>1. /\ Turn(w, {"gate"}) /\ What(w)' = What(w) /\ call'[w].name = call[w].name
        /\ call'[w].pc = "gate" /\ call[w].pc = "lock" /\ lock = Nobody /\ lock' = w
        /\ UNCHANGED <<db, disk, purge, troubles>>
    BY <1>0, <1>2, GoingOn DEF TakeLock, Pcs, Inside, Turn
  <2>2. StoreTypes'
    BY <1>0, <2>1 DEF StoreTypes, db, disk, tmp
  <2>3. LockHeld'
    BY <1>0, <2>1, Kinds DEF LockHeld, Turn, Locked, Inside, Nobody, Purger
  <2>4. Placed(w)'
    BY <1>0, <2>1 DEF Placed, Working, Pcs, Over
  <2>5. FilesInv'
    BY <1>0, <2>1, FilesFrame
  <2>6. Reserved' /\ InsertedWithinCap'
    BY <1>0, <2>1, QuotaFrame DEF db
  <2> QED
    BY <1>0, <2>1, <2>2, <2>3, <2>4, <2>5, <2>6, LocatedFrame, LibraryParts DEF Turn
<1>3. CASE QuotaGate(w)
  <2>1. /\ call[w].pc = "gate" /\ lock = w /\ What(w) \in Contents /\ call[w].name \in Names
        /\ UNCHANGED <<dl, disk, purge, troubles>>
    BY <1>0, <1>3 DEF QuotaGate, LockHeld, Placed, Working, Pcs, Over, Inside
  <2>2. CASE EndLocked(w, "refused") /\ UNCHANGED row
    <3>1. StoreTypes'
      BY <1>0, <2>1, <2>2 DEF StoreTypes, disk, tmp, EndLocked
    <3>2. /\ Turn(w, {"refused"}) /\ TypeOK' /\ LockHeld' /\ Located' /\ FilesInv'
      BY <1>0, <2>1, <2>2, <3>1, QuietEnd DEF EndLocked, Over
    <3>3. Reserved' /\ InsertedWithinCap'
      BY <1>0, <2>2, <3>2, QuotaFrame
    <3> QED
      BY <3>2, <3>3 DEF LibraryInv
  <2>3. CASE /\ row[What(w)] # NoRow \/ Fits(What(w))
             /\ UpsertMediaItem(w) /\ Goto(w, "dedup") /\ lock' = Nobody
    <3> DEFINE c == What(w)
               new == [id |-> w, status |-> "temporary", name |-> call[w].name]
    <3>1. /\ row' \in [Contents -> Row \cup {NoRow}]
          /\ \A d \in Contents : row'[d] = row[d] \/ (d = c /\ row[c] = NoRow /\ row'[c].id = w)
      <4>1. new \in Row /\ new.id = w
        BY <1>0, <2>1 DEF Row
      <4>2. row' = [row EXCEPT ![c] = IF @ # NoRow THEN @ ELSE new]
        BY <2>3 DEF UpsertMediaItem
      <4> HIDE DEF c, new
      <4> QED BY <4>1, <4>2, <1>0 DEF TypeOK
    <3>2. StoreTypes'
      BY <1>0, <2>1, <2>3, <3>1 DEF StoreTypes, disk, tmp
    <3>3. /\ Turn(w, {"dedup"}) /\ What(w)' = c /\ call'[w].name = call[w].name /\ call'[w].pc = "dedup"
      BY <1>0, <2>3, GoingOn DEF Pcs, Turn
    <3>4. LockHeld'
      BY <1>0, <2>1, <2>3, <3>3, LockFrame DEF Inside
    <3>5. Placed(w)'
      BY <1>0, <2>1, <3>3 DEF Placed
    <3>6. FilesInv'
      BY <1>0, <2>1, <3>3, FilesFrame
    <3>7. RowBytes(Inserted') <= Cap
      <4>1. CASE row[c] # NoRow
        <5>1. Inserted' = Inserted
          BY <3>1, <4>1 DEF Inserted
        <5> QED BY <5>1, <1>0 DEF InsertedWithinCap, Inserted
      <4>2. CASE row[c] = NoRow
        <5>1. RowBytes(Inserted \cup {c}) <= Cap
          BY <1>0, <2>1, <2>3, <4>2, FittingIsFree DEF FilesInv
        <5>2. /\ Inserted' \in SUBSET (Inserted \cup {c}) /\ Inserted \cup {c} \in SUBSET Contents
          BY <2>1, <3>1 DEF Inserted
        <5>3. /\ RowBytes(Inserted') <= RowBytes(Inserted \cup {c})
              /\ RowBytes(Inserted') \in Nat /\ RowBytes(Inserted \cup {c}) \in Nat
          BY <5>2, RowBytesMonotone, RowBytesFinite
        <5>4. Cap \in Nat
          BY LibraryAssumption DEF LibraryAssumption
        <5> QED BY <5>1, <5>3, <5>4
      <4> QED BY <4>1, <4>2
    <3>8. Reserved' /\ InsertedWithinCap'
      BY <1>0, <2>1, <3>3, <3>7, QuotaAlone
    <3> QED
      BY <1>0, <3>2, <3>3, <3>4, <3>5, <3>6, <3>8, LocatedFrame, LibraryParts DEF Turn
  <2> QED BY <1>3, <2>2, <2>3 DEF QuotaGate
<1>4. CASE DedupOnDownload(w)
  <2> DEFINE c == What(w)
             r == row[c]
             hit == r # NoRow /\ library[<<c, r.name>>] # Nothing
             media == [state |-> IF hit THEN "complete" ELSE "active", media |-> r.id]
  <2>1. /\ call[w].pc = "dedup" /\ c \in Contents /\ call[w].name \in Names
        /\ UNCHANGED <<disk, lock, purge, troubles>> /\ r \in Row \cup {NoRow}
    BY <1>0, <1>4 DEF DedupOnDownload, Placed, Working, Pcs, Over, Inside, TypeOK
  <2>2. /\ row' \in [Contents -> Row \cup {NoRow}]
        /\ \A d \in Contents : row'[d].id = row[d].id
    <3>1. UNCHANGED row \/ (r # NoRow /\ Permanent(c, r.id))
      BY <1>4 DEF DedupOnDownload, db
    <3>2. r # NoRow => r.id # Nobody
      BY <2>1, Kinds DEF Row
    <3> HIDE DEF c, r
    <3>3. CASE UNCHANGED row
      BY <3>3, <1>0 DEF TypeOK
    <3>4. CASE r # NoRow /\ Permanent(c, r.id)
      BY <3>2, <3>4, <1>0, <2>1, PermanentRow
    <3> QED BY <3>1, <3>3, <3>4
  <2>3. dl' \in [Opens -> [state: {"none", "active", "complete", "failed"}, media: Calls \cup {Nobody}]]
    <3>1. r # NoRow => media \in [state: {"none", "active", "complete", "failed"}, media: Calls \cup {Nobody}]
      BY <2>1 DEF Row
    <3>2. dl' = dl \/ (r # NoRow /\ dl' = [dl EXCEPT ![w] = media])
      BY <1>4 DEF DedupOnDownload, db
    <3> HIDE DEF media
    <3> QED BY <3>1, <3>2, <1>0 DEF TypeOK
  <2>4. StoreTypes'
    BY <1>0, <2>1, <2>2, <2>3 DEF StoreTypes, disk, tmp
  <2>5. Ended(w, "failed") \/ Ended(w, "done") \/ Goto(w, "transfer")
    BY <1>4 DEF DedupOnDownload
  <2>6. \E pcs : Turn(w, pcs) /\ TypeOK' /\ LockHeld' /\ Located' /\ FilesInv'
    <3>1. CASE Ended(w, "failed")
      BY <3>1, <1>0, <2>1, <2>4, QuietEnd DEF Over
    <3>2. CASE Ended(w, "done")
      BY <3>2, <1>0, <2>1, <2>4, QuietEnd DEF Over
    <3>3. CASE Goto(w, "transfer")
      <4>1. "transfer" \in Pcs \ {"idle", "select"} /\ "transfer" \notin {"copied", "promoted"} \cup {"gate"}
        BY DEF Pcs, Transferring
      <4> QED BY <3>3, <4>1, <1>0, <2>1, <2>4, QuietGo DEF Working, Pcs, Over
    <3> QED BY <2>5, <3>1, <3>2, <3>3
  <2>7. Reserved' /\ InsertedWithinCap'
    BY <1>0, <2>2, <2>6, QuotaFrame
  <2> QED
    BY <2>6, <2>7 DEF LibraryInv
<1> QED
  BY <1>1, <1>2, <1>3, <1>4

\* The transfer and the assembly: no row is committed and the lock not touched.
LEMMA TransferGo ==
    ASSUME LibraryInv, NEW w \in Opens, NEW pc \in {"assemble", "check", "move", "complete"},
           Goto(w, pc), call[w].pc \in Transferring, UNCHANGED <<row, lock, purge>>,
           StoreTypes', FilesInv'
    PROVE  LibraryInv'
<1>0. /\ w \in Calls /\ w \notin Imports \cup Scans \cup Deletes /\ TypeOK
      /\ LockHeld /\ Located /\ Placed(w) /\ Reserved /\ InsertedWithinCap
  BY Kinds DEF LibraryInv, Located
<1>1. /\ Turn(w, {pc}) /\ What(w)' = What(w) /\ call'[w].name = call[w].name /\ call'[w].pc = pc
  BY <1>0, GoingOn DEF Pcs, Transferring, Turn
<1>2. LockHeld'
  BY <1>0, <1>1, LockFrame
<1>3. Placed(w)'
  BY <1>0, <1>1 DEF Placed, Working, Pcs, Over, Transferring
<1>4. Reserved' /\ InsertedWithinCap'
  BY <1>0, <1>1, QuotaFrame
<1> QED
  BY <1>0, <1>1, <1>2, <1>3, <1>4, LocatedFrame, LibraryParts DEF Turn

LEMMA TransferEnd ==
    ASSUME LibraryInv, NEW w \in Opens, NEW state \in {"complete", "failed"},
           EndDownload(w, state), call[w].pc \in Transferring,
           UNCHANGED <<row, lock, purge, library, trash>>, troubles' \in 0..MaxTrouble
    PROVE  LibraryInv'
<1>0. /\ w \in Calls /\ w \notin Imports \cup Scans \cup Deletes /\ TypeOK /\ StoreTypes
      /\ LockHeld /\ Located /\ Placed(w) /\ Reserved /\ InsertedWithinCap /\ FilesInv
  BY Kinds, TypeParts DEF LibraryInv, Located
<1>1. What(w) \in Contents
  BY <1>0 DEF Placed, Working, Pcs, Over, Transferring
<1>2. PICK how \in {"done", "failed"} : Ended(w, how)
  BY DEF EndDownload
<1>3. /\ Turn(w, {how}) /\ What(w)' = What(w) /\ call'[w].pc = how
  BY <1>0, <1>2, Ending DEF Over, Turn
<1>4. /\ staging'[w] = Nothing /\ \A k \in (Imports \cup Opens) \ {w} : staging'[k] = staging[k]
      /\ incomplete' \subseteq incomplete
  BY <1>0 DEF EndDownload, CleanupIncomplete, TypeOK
<1>5. StoreTypes'
  BY <1>0 DEF EndDownload, CleanupIncomplete, StoreTypes
<1>6. LockHeld'
  BY <1>0, <1>3, LockFrame
<1>7. Placed(w)'
  BY <1>0, <1>3 DEF Placed, Working, Over
<1>8. Reserved' /\ InsertedWithinCap'
  BY <1>0, <1>3, QuotaFrame
<1>9. FilesInv'
  <2>1. Scratch(w)'
    BY <1>3, <1>4 DEF Scratch, Torn, Nothing
  <2> QED BY <2>1, <1>0, <1>1, <1>3, <1>4, StagingStep
<1> QED
  BY <1>0, <1>3, <1>5, <1>6, <1>7, <1>8, <1>9, LocatedFrame, LibraryParts DEF Turn

LEMMA TransferUp ==
    ASSUME LibraryInv, NEW w \in Opens,
           \/ Transfer(w) \/ AssembleParts(w) \/ DownloadCheck(w)
           \/ DownloadMove(w) \/ DownloadComplete(w)
    PROVE  LibraryInv'
<1> USE DEF At
<1>0. /\ w \in Calls /\ w \in Imports \cup Opens /\ w \notin Imports \cup Scans \cup Deletes
      /\ TypeOK /\ StoreTypes /\ LockHeld /\ Located /\ Placed(w) /\ Scratch(w) /\ FilesInv
  BY Kinds, TypeParts DEF LibraryInv, Located, FilesInv, ScratchBytes
<1>1. /\ call[w].pc \in Transferring /\ UNCHANGED <<row, lock, purge>>
      /\ troubles' \in 0..MaxTrouble
  BY <1>0, LibraryAssumption
  DEF Transfer, AssembleParts, DownloadCheck, DownloadMove, DownloadComplete, Transferring,
      TypeOK, Trouble, LibraryAssumption
<1>2. What(w) \in Contents /\ call[w].name \in Names
  BY <1>0, <1>1 DEF Placed, Working, Pcs, Over, Transferring
<1>3. CASE \E state \in {"complete", "failed"} : EndDownload(w, state) /\ UNCHANGED <<library, trash>>
  BY <1>1, <1>3, TransferEnd
<1>4. ASSUME NEW pc \in {"assemble", "check", "move", "complete"}, Goto(w, pc)
      PROVE  Turn(w, {pc}) /\ What(w)' = What(w) /\ call'[w].pc = pc
  BY <1>0, <1>4, GoingOn DEF Pcs, Transferring, Turn
<1>5. CASE incomplete' = incomplete \cup {w} /\ Goto(w, "assemble") /\ UNCHANGED <<dl, staging, library, trash>>
  <2>1. StoreTypes'
    BY <1>0, <1>1, <1>5 DEF StoreTypes
  <2>2. Scratch(w)'
    BY <1>0, <1>4, <1>5 DEF Scratch
  <2>3. FilesInv'
    BY <1>0, <1>2, <1>4, <1>5, <2>2, StagingStep
  <2> QED BY <1>1, <1>5, <2>1, <2>3, TransferGo
<1>6. CASE staging' = [staging EXCEPT ![w] = What(w)] /\ Goto(w, "check")
           /\ UNCHANGED <<dl, incomplete, library, trash>>
  <2>1. StoreTypes'
    BY <1>0, <1>1, <1>2, <1>6 DEF StoreTypes
  <2>2. staging'[w] = What(w) /\ \A k \in (Imports \cup Opens) \ {w} : staging'[k] = staging[k]
    BY <1>0, <1>6 DEF TypeOK
  <2>3. Scratch(w)'
    BY <1>2, <1>4, <1>6, <2>2, Kinds DEF Scratch
  <2>4. FilesInv'
    BY <1>0, <1>2, <1>4, <1>6, <2>2, <2>3, StagingStep
  <2> QED BY <1>1, <1>6, <2>1, <2>4, TransferGo
<1>7. CASE call[w].pc = "check" /\ Goto(w, "move") /\ UNCHANGED <<dl, tmp, library, trash>>
  <2>1. StoreTypes'
    BY <1>0, <1>1, <1>7 DEF StoreTypes, tmp
  <2>2. FilesInv'
    BY <1>0, <1>4, <1>7, FilesFrame DEF disk
  <2> QED BY <1>1, <1>7, <2>1, <2>2, TransferGo
<1>8. CASE call[w].pc = "move" /\ staging[w] # Nothing /\ RenameInto(w) /\ Goto(w, "complete") /\ UNCHANGED dl
  <2>1. staging[w] = What(w)
    BY <1>0, <1>8 DEF Scratch
  <2>2. /\ LibraryBytes' /\ trash' = trash /\ incomplete' = incomplete
        /\ \A k \in (Imports \cup Opens) \ {w} : staging'[k] = staging[k]
        /\ staging'[w] = Nothing
        /\ \A c \in Contents : Kept(c) => Kept(c)'
    BY <1>0, <1>2, <1>8, <2>1, RenameKeeps
  <2>3. StoreTypes'
    BY <1>0, <1>1, <1>2, <1>8, <2>1 DEF RenameInto, StoreTypes, Path, Paths, What
  <2>4. Scratch(w)' /\ What(w)' = What(w) /\ Turn(w, {"complete"}) /\ What(w)' \in Contents
    BY <1>2, <1>4, <1>8, <2>2, Kinds DEF Scratch
  <2>5. FilesInv'
    BY <1>0, <2>2, <2>4, FilesStep
  <2> QED BY <1>1, <1>8, <2>3, <2>5, TransferGo
<1> QED
  BY <1>3, <1>5, <1>6, <1>7, <1>8
  DEF Transfer, AssembleParts, DownloadCheck, DownloadMove, DownloadComplete

LEMMA DownloadStep ==
    ASSUME LibraryInv, NEW w \in Opens, Download(w) \/ \E p \in Paths: OpenCall(w, p)
    PROVE  LibraryInv'
  BY DownloadGateUp, TransferUp DEF Download

-----------------------------------------------------------------------------
(* The scanner, which touches neither the lock nor a file.                    *)
LEMMA ScanTurn ==
    ASSUME LibraryInv, NEW s \in Scans, NEW pcs, Turn(s, pcs), Placed(s)',
           UNCHANGED <<disk, lock, purge>>, StoreTypes',
           \A c \in Contents : row'[c].id \in Imports \cup Opens => row[c].id \in Imports \cup Opens
    PROVE  LibraryInv'
<1>0. /\ s \in Calls /\ s \notin Imports \cup Opens \cup Deletes /\ TypeOK
      /\ LockHeld /\ Located /\ FilesInv /\ Reserved /\ InsertedWithinCap
  BY Kinds DEF LibraryInv
<1>1. LockHeld'
  BY <1>0, LockFrame
<1>2. FilesInv'
  BY <1>0, FilesFrame
<1>3. Reserved' /\ InsertedWithinCap'
  BY <1>0, QuotaFrame
<1> QED
  BY <1>0, <1>1, <1>2, <1>3, LocatedFrame, LibraryParts DEF Turn

LEMMA ScanStep ==
    ASSUME LibraryInv, NEW s \in Scans, ScanCall(s) \/ Scan(s)
    PROVE  LibraryInv'
<1> USE DEF At
<1>0. /\ s \in Calls /\ s \notin Imports \cup Opens \cup Deletes /\ TypeOK /\ StoreTypes
      /\ Located /\ Placed(s) /\ call[s] \in Call
  BY Kinds, TypeParts DEF LibraryInv, Located, TypeOK
<1>1. UNCHANGED <<dl, disk, lock, purge, troubles>>
  BY DEF Scan, ScanCall, ScanFile, ScanSelect, ScanInsert, ScanUpdate, ScanEnd, db
\* What the walk puts into the call's locals.
<1>2. ASSUME NEW x \in Call, call' = [call EXCEPT ![s] = x], row' = row,
             x.pc \in {"walk", "hashed"},
             x.pc = "hashed" => x.what \in Contents /\ x.name \in Names
      PROVE  LibraryInv'
  <2>1. Turn(s, {x.pc}) /\ call'[s] = x
    BY <1>0, <1>2, Changing
  <2>2. Placed(s)'
    BY <1>0, <1>2, <2>1 DEF Placed, What, Working
  <2>3. StoreTypes'
    BY <1>0, <1>1, <1>2 DEF StoreTypes, disk, tmp
  <2> QED BY <1>1, <1>2, <2>1, <2>2, <2>3, ScanTurn
\* From a hashed file to the next one.
<1>3. ASSUME NEW pc \in {"walk", "insert", "update"}, Goto(s, pc),
             call[s].pc \in {"hashed", "insert", "update"},
             row' \in [Contents -> Row \cup {NoRow}],
             \A c \in Contents : row'[c].id \in Imports \cup Opens => row[c].id \in Imports \cup Opens
      PROVE  LibraryInv'
  <2>1. /\ Turn(s, {pc}) /\ What(s)' = What(s) /\ call'[s].name = call[s].name /\ call'[s].pc = pc
    BY <1>0, <1>3, GoingOn DEF Pcs, Inside, Turn
  <2>2. What(s) \in Contents /\ call[s].name \in Names
    BY <1>0, <1>3 DEF Placed, Working, Pcs, Inside, Over
  <2>3. Placed(s)'
    BY <1>0, <1>3, <2>1, <2>2 DEF Placed
  <2>4. StoreTypes'
    BY <1>0, <1>1, <1>3 DEF StoreTypes, disk, tmp
  <2> QED BY <1>1, <1>3, <2>1, <2>3, <2>4, ScanTurn
<1>4. CASE ScanCall(s)
  <2> DEFINE x == [call[s] EXCEPT !.pc = "walk", !.left = Paths]
  <2>1. x \in Call /\ x.pc = "walk"
    BY <1>0 DEF Call, Pcs
  <2>2. call' = [call EXCEPT ![s] = x] /\ row' = row
    BY <1>0, <1>4 DEF ScanCall, TypeOK, db
  <2> HIDE DEF x
  <2> QED BY <1>2, <2>1, <2>2
<1>5. CASE ScanFile(s)
  <2>1. PICK p \in call[s].left :
          call' = [call EXCEPT ![s].left = {q \in @: q # p /\ Visited(p, q)},
                               ![s].what = p[1], ![s].name = p[2],
                               ![s].pc = IF library[p] = p[1] THEN "hashed" ELSE "walk"]
    BY <1>5 DEF ScanFile
  <2> DEFINE rest == {q \in call[s].left : q # p /\ Visited(p, q)}
             next == IF library[p] = p[1] THEN "hashed" ELSE "walk"
             x == [call[s] EXCEPT !.left = rest, !.what = p[1], !.name = p[2], !.pc = next]
  <2>2. rest \in SUBSET Paths /\ p[1] \in Contents /\ p[2] \in Names /\ next \in {"walk", "hashed"}
    BY <1>0 DEF Call, Paths
  <2>3. call' = [call EXCEPT ![s] = x]
    BY <1>0, <2>1 DEF TypeOK
  <2> HIDE DEF rest, next
  <2>4. x \in Call /\ x.pc = next /\ x.what = p[1] /\ x.name = p[2]
    BY <1>0, <2>2 DEF Call, Pcs
  <2>5. row' = row
    BY <1>5 DEF ScanFile, db
  <2> HIDE DEF x
  <2> QED BY <1>2, <2>2, <2>3, <2>4, <2>5
<1>6. CASE ScanSelect(s)
  <2>1. /\ call[s].pc = "hashed" /\ row' = row
        /\ \E pc \in {"walk", "insert", "update"} : Goto(s, pc)
    BY <1>6 DEF ScanSelect, db
  <2>2. row' \in [Contents -> Row \cup {NoRow}]
    BY <1>0, <2>1 DEF TypeOK
  <2> QED BY <1>3, <2>1, <2>2
<1>7. CASE ScanInsert(s)
  <2> DEFINE c == What(s)
  <2>1. /\ call[s].pc = "insert" /\ Goto(s, "walk")
        /\ row' = [row EXCEPT ![c] = IF @ # NoRow THEN @ ELSE NewRow(s, s)]
    BY <1>7 DEF ScanInsert
  <2>2. c \in Contents /\ call[s].name \in Names
    BY <1>0, <2>1 DEF Placed, Working, Pcs, Inside, Over
  <2>3. NewRow(s, s) \in Row /\ NewRow(s, s).id = s
    BY <1>0, <2>2 DEF NewRow, Row
  <2> HIDE DEF c
  <2>4. /\ row' \in [Contents -> Row \cup {NoRow}]
        /\ \A d \in Contents : row'[d] = row[d] \/ row'[d].id = s
    BY <1>0, <2>1, <2>2, <2>3 DEF TypeOK
  <2>5. \A d \in Contents : row'[d].id \in Imports \cup Opens => row[d].id \in Imports \cup Opens
    BY <1>0, <2>4
  <2> QED BY <1>3, <2>1, <2>4, <2>5
<1>8. CASE ScanUpdate(s)
  <2> DEFINE c == What(s)
             new == [row[c] EXCEPT !.name = call[s].name]
  <2>1. /\ call[s].pc = "update" /\ Goto(s, "walk")
        /\ row' = [row EXCEPT ![c] = IF row[c] = NoRow THEN row[c] ELSE new]
    BY <1>8, <1>0 DEF ScanUpdate, TypeOK
  <2>2. c \in Contents /\ call[s].name \in Names /\ row[c] \in Row \cup {NoRow}
    BY <1>0, <2>1 DEF Placed, Working, Pcs, Inside, Over, TypeOK
  <2>3. row[c] # NoRow => new \in Row /\ new.id = row[c].id
    BY <2>2 DEF Row
  <2> HIDE DEF c, new
  <2>4. /\ row' \in [Contents -> Row \cup {NoRow}]
        /\ \A d \in Contents : row'[d].id = row[d].id
    BY <1>0, <2>1, <2>2, <2>3 DEF TypeOK
  <2> QED BY <1>3, <2>1, <2>4
<1>9. CASE ScanEnd(s)
  <2>1. Ended(s, "done") /\ row' = row
    BY <1>9 DEF ScanEnd, db
  <2>2. Turn(s, {"done"}) /\ call'[s].pc = "done"
    BY <1>0, <2>1, Ending DEF Over, Turn
  <2>3. Placed(s)'
    BY <1>0, <2>2 DEF Placed, Working, Over
  <2>4. StoreTypes'
    BY <1>0, <1>1, <2>1 DEF StoreTypes, disk, tmp
  <2> QED BY <1>1, <2>1, <2>2, <2>3, <2>4, ScanTurn
<1> QED
  BY <1>4, <1>5, <1>6, <1>7, <1>8, <1>9 DEF Scan

-----------------------------------------------------------------------------
(* A delete: the file to the trash, then the row, or back.                    *)

\* A step of a delete that keeps what the others have.
LEMMA DeleteTurn ==
    ASSUME LibraryInv, NEW d \in Deletes, NEW pcs, Turn(d, pcs), Placed(d)',
           UNCHANGED <<tmp, lock, purge>>, StoreTypes',
           LibraryBytes', TrashBytes', \A c \in Contents : Kept(c) => Kept(c)',
           \A c \in Contents : row'[c].id \in Imports \cup Opens => row[c].id \in Imports \cup Opens
    PROVE  LibraryInv'
<1>0. /\ d \in Calls /\ d \notin Imports \cup Opens /\ TypeOK
      /\ LockHeld /\ Located /\ FilesInv /\ Reserved /\ InsertedWithinCap
      /\ Imports \cup Opens \subseteq Calls \ {d}
  BY Kinds DEF LibraryInv
<1>1. LockHeld'
  BY <1>0, LockFrame
<1>2. \A k \in Imports \cup Opens : call'[k] = call[k] /\ What(k)' = What(k)
  BY <1>0 DEF Turn, What
<1>3. ScratchBytes'
  <2>1. \A k \in Imports \cup Opens : Scratch(k)'
    BY <1>0, <1>2 DEF FilesInv, ScratchBytes, Scratch, tmp
  <2>2. \A w \in incomplete : What(w)' \in Contents
    BY <1>0, <1>2 DEF FilesInv, ScratchBytes, TypeOK
  <2> QED BY <2>1, <2>2 DEF ScratchBytes, tmp
<1>4. KeptFiles'
  <2>1. ASSUME NEW i \in Imports, call'[i].pc \in Reporting PROVE KeptFor(i)'
    <3>1. call[i].pc \in Reporting /\ Kept(What(i)) /\ What(i)' = What(i)
      BY <1>0, <1>2, <2>1 DEF FilesInv, KeptFiles, KeptFor
    <3>2. What(i) \in Contents
      BY <1>0, <3>1 DEF Located, Placed, Reporting, Working, Pcs, Inside, Over
    <3> QED BY <3>1, <3>2 DEF KeptFor
  <2> QED BY <2>1 DEF KeptFiles
<1>5. Reserved' /\ InsertedWithinCap'
  BY <1>0, QuotaFrame
<1>6. FilesInv'
  BY <1>3, <1>4 DEF FilesInv
<1> QED
  BY <1>0, <1>1, <1>5, <1>6, LocatedFrame, LibraryParts DEF Turn

LEMMA DeleteBeginUp ==
    ASSUME LibraryInv, NEW d \in Deletes,
           SelectItem(d) \/ \E c \in Contents : DeleteCall(d, c)
    PROVE  LibraryInv'
<1> USE DEF At
<1>0. /\ d \in Calls /\ d \notin Imports \cup Opens \cup Scans /\ TypeOK /\ StoreTypes
      /\ LockHeld /\ Located /\ Placed(d) /\ call[d] \in Call /\ FilesInv /\ Reserved /\ InsertedWithinCap
  BY Kinds, TypeParts DEF LibraryInv, Located, TypeOK
<1>1. UNCHANGED <<db, disk, lock, purge, troubles>> /\ call[d].pc \in {"idle", "select"}
  BY DEF SelectItem, DeleteCall
<1>2. StoreTypes'
  BY <1>0, <1>1 DEF StoreTypes, db, disk, tmp
<1>3. ASSUME NEW pcs, Turn(d, pcs), Placed(d)'
      PROVE  LibraryInv'
  <2>1. LockHeld'
    BY <1>0, <1>1, <1>3, LockFrame
  <2>2. FilesInv'
    BY <1>0, <1>1, <1>3, FilesFrame DEF Over
  <2>3. Reserved' /\ InsertedWithinCap'
    BY <1>0, <1>1, <1>3, QuotaFrame DEF db
  <2> QED
    BY <1>0, <1>2, <1>3, <2>1, <2>2, <2>3, LocatedFrame, LibraryParts DEF Turn
<1>4. CASE \E c \in Contents : DeleteCall(d, c)
  <2>1. PICK c \in Contents : DeleteCall(d, c)
    BY <1>4
  <2> DEFINE x == [call[d] EXCEPT !.pc = "select", !.what = c, !.held = row[c].id]
  <2>2. row[c].id \in Calls /\ call' = [call EXCEPT ![d] = x]
    BY <1>0, <2>1 DEF DeleteCall, TypeOK, Row
  <2>3. x \in Call /\ x.pc = "select" /\ x.what = c /\ x.held \in Calls
    BY <1>0, <2>2 DEF Call, Pcs
  <2> HIDE DEF x
  <2>4. Turn(d, {"select"}) /\ call'[d] = x
    BY <1>0, <2>2, <2>3, Changing
  <2>5. Placed(d)'
    BY <1>0, <2>3, <2>4, Kinds DEF Placed, What
  <2> QED BY <1>3, <2>4, <2>5
<1>5. CASE SelectItem(d)
  <2> DEFINE r == row[What(d)]
             x == [call[d] EXCEPT !.pc = "move", !.name = r.name]
  <2>1. /\ What(d) \in Contents /\ call[d].held # Nobody /\ r \in Row \cup {NoRow}
        /\ call[d].pc = "select"
    BY <1>0, <1>5 DEF SelectItem, Placed, Working, Pcs, Over, TypeOK
  <2>2. CASE r.id = call[d].held /\ call' = [call EXCEPT ![d].pc = "move", ![d].name = r.name]
    <3>1. r.name \in Names
      BY <2>1, <2>2 DEF Row, NoRow
    <3> HIDE DEF r
    <3>2. x \in Call /\ x.pc = "move" /\ x.what = call[d].what /\ x.held = call[d].held
          /\ x.name \in Names
      BY <1>0, <3>1 DEF Call, Pcs, Inside
    <3>3. call' = [call EXCEPT ![d] = x]
      BY <1>0, <2>2 DEF TypeOK
    <3> HIDE DEF x
    <3>4. Turn(d, {"move"}) /\ call'[d] = x
      BY <1>0, <3>2, <3>3, Changing
    <3>5. Placed(d)'
      BY <1>0, <2>1, <3>2, <3>4 DEF Placed, What
    <3> QED BY <1>3, <3>4, <3>5
  <2>3. CASE Ended(d, "failed")
    <3>1. Turn(d, {"failed"}) /\ call'[d].pc = "failed"
      BY <1>0, <2>3, Ending DEF Over, Turn
    <3>2. Placed(d)'
      BY <1>0, <3>1 DEF Placed, Working, Over
    <3> QED BY <1>3, <3>1, <3>2
  <2> QED BY <1>5, <2>2, <2>3 DEF SelectItem
<1> QED
  BY <1>4, <1>5

LEMMA MoveToTrashUp ==
    ASSUME LibraryInv, NEW d \in Deletes, MoveToTrash(d)
    PROVE  LibraryInv'
<1> USE DEF At
<1> DEFINE c == What(d)
           found == library[Path(d)] # Nothing
           x == [call[d] EXCEPT !.pc = "drop", !.moved = found]
<1>0. /\ d \in Calls /\ TypeOK /\ StoreTypes /\ Located /\ Placed(d) /\ call[d] \in Call
      /\ LibraryBytes /\ TrashBytes
  BY Kinds, TypeParts DEF LibraryInv, Located, TypeOK, FilesInv
<1>1. /\ call[d].pc = "move" /\ c \in Contents /\ call[d].name \in Names /\ call[d].held # Nobody
      /\ UNCHANGED <<db, tmp, lock, purge, troubles>>
      /\ library' = [library EXCEPT ![Path(d)] = Nothing]
      /\ call' = [call EXCEPT ![d] = x]
  BY <1>0 DEF MoveToTrash, Placed, Working, Pcs, Inside, Over, TypeOK
<1>2. Path(d) = <<c, call[d].name>> /\ Path(d) \in Paths
  BY <1>1 DEF Path, Paths, What
<1>3. library[Path(d)] \in {Nothing, c}
  BY <1>0, <1>2 DEF LibraryBytes
<1>4. trash' = IF found THEN trash \cup {<<d, c>>} ELSE trash
  BY <1>3 DEF MoveToTrash
<1>5. x \in Call /\ x.pc = "drop" /\ x.what = call[d].what /\ x.name = call[d].name
      /\ x.held = call[d].held /\ x.moved = found
  BY <1>0 DEF Call, Pcs
<1> HIDE DEF x
<1>6. Turn(d, {"drop"}) /\ call'[d] = x /\ What(d)' = c
  BY <1>0, <1>1, <1>5, Changing DEF What
<1>7. Placed(d)'
  BY <1>1, <1>5, <1>6 DEF Placed
<1>8. StoreTypes'
  <2>1. trash' \subseteq Deletes \X Contents
    BY <1>0, <1>1, <1>4 DEF StoreTypes
  <2>2. library' \in [Paths -> Contents \cup {Nothing}]
    BY <1>0, <1>1 DEF StoreTypes
  <2> QED BY <2>1, <2>2, <1>0, <1>1 DEF StoreTypes, db, tmp
<1>9. library'[Path(d)] = Nothing /\ \A p \in Paths : p # Path(d) => library'[p] = library[p]
  BY <1>0, <1>1, <1>2 DEF TypeOK
<1>10. LibraryBytes'
  BY <1>0, <1>9 DEF LibraryBytes
<1>11. TrashBytes'
  <2>1. \A t \in trash : t[1] \in Calls \ {d}
    BY <1>0, <1>1 DEF TrashBytes, TypeOK, Over, Calls
  <2>2. \A t \in trash : call'[t[1]] = call[t[1]]
    BY <1>6, <2>1 DEF Turn
  <2>3. ASSUME NEW t \in trash
        PROVE  /\ t[2] = What(t[1])' /\ call'[t[1]].pc \in {"drop"} \cup Over
               /\ call'[t[1]].pc = "drop" => call'[t[1]].moved
    BY <1>0, <2>2 DEF TrashBytes, What
  <2>4. found => /\ <<d, c>>[2] = What(<<d, c>>[1])' /\ call'[d].pc = "drop" /\ call'[d].moved
    BY <1>5, <1>6
  <2>5. \A t \in trash' : t \in trash \/ (found /\ t = <<d, c>>)
    BY <1>4
  <2> HIDE DEF found, c
  <2> QED BY <2>3, <2>4, <2>5 DEF TrashBytes
<1>12. ASSUME NEW k \in Contents, Kept(k) PROVE Kept(k)'
  <2>1. CASE \E n \in Names : library[<<k, n>>] = k
    <3>1. PICK n \in Names : library[<<k, n>>] = k
      BY <2>1
    <3>2. <<k, n>> \in Paths
      BY DEF Paths
    <3>3. CASE <<k, n>> = Path(d)
      <4>1. k = c /\ found
        BY <1>2, <3>1, <3>3, Kinds
      <4> QED BY <1>4, <4>1 DEF Kept
    <3>4. CASE <<k, n>> # Path(d)
      BY <1>9, <3>1, <3>2, <3>4 DEF Kept
    <3> QED BY <3>3, <3>4
  <2>2. CASE \E e \in Deletes : <<e, k>> \in trash
    BY <1>4, <2>2 DEF Kept
  <2> QED BY <1>12, <2>1, <2>2 DEF Kept
<1>13. row' = row
  BY <1>1 DEF db
<1> QED
  BY <1>1, <1>6, <1>7, <1>8, <1>10, <1>11, <1>12, <1>13, DeleteTurn

LEMMA DeleteRowUp ==
    ASSUME LibraryInv, NEW d \in Deletes, DeleteRow(d)
    PROVE  LibraryInv'
<1> USE DEF At
<1> DEFINE c == What(d)
           hit == row[c].id = call[d].held
<1>0. /\ d \in Calls /\ TypeOK /\ StoreTypes /\ Located /\ Placed(d)
      /\ LibraryBytes /\ TrashBytes
  BY Kinds, TypeParts DEF LibraryInv, Located, FilesInv
<1>1. /\ call[d].pc = "drop" /\ c \in Contents /\ call[d].name \in Names
      /\ UNCHANGED <<tmp, lock, purge>>
  BY <1>0 DEF DeleteRow, Placed, Working, Pcs, Inside, Over
<1>2. PICK how \in {"done", "failed"} : Ended(d, how)
  BY DEF DeleteRow
<1>3. Turn(d, {how}) /\ call'[d].pc = how /\ What(d)' = c
  BY <1>0, <1>2, Ending DEF Over, Turn
<1>4. Placed(d)'
  BY <1>0, <1>3 DEF Placed, Working, Over
<1>6. ASSUME NEW gone, trash' = trash \ gone PROVE TrashBytes'
  <2>1. ASSUME NEW t \in trash
        PROVE  /\ t[2] = What(t[1])' /\ call'[t[1]].pc \in {"drop"} \cup Over
               /\ call'[t[1]].pc = "drop" => call'[t[1]].moved
    <3>1. CASE t[1] = d
      BY <1>0, <1>3, <3>1 DEF TrashBytes, Over
    <3>2. CASE t[1] # d
      <4>1. t[1] \in Calls
        BY <1>0 DEF TypeOK, Calls
      <4>2. call'[t[1]] = call[t[1]]
        BY <1>3, <3>2, <4>1 DEF Turn
      <4> QED BY <1>0, <4>2 DEF TrashBytes, What
    <3> QED BY <3>1, <3>2
  <2> QED BY <1>6, <2>1 DEF TrashBytes
<1>7. CASE /\ row' = IF hit THEN [row EXCEPT ![c] = NoRow] ELSE row
           /\ dl' = [w \in Opens |-> IF hit /\ dl[w].media = call[d].held THEN NoDownload ELSE dl[w]]
           /\ UNCHANGED <<library, trash, troubles>>
  <2>1. /\ row' \in [Contents -> Row \cup {NoRow}]
        /\ \A e \in Contents : row'[e] = row[e] \/ row'[e] = NoRow
    <3> HIDE DEF c, hit
    <3> QED BY <1>0, <1>1, <1>7 DEF TypeOK
  <2>2. dl' \in [Opens -> [state: {"none", "active", "complete", "failed"}, media: Calls \cup {Nobody}]]
    BY <1>0, <1>7 DEF TypeOK, NoDownload
  <2>3. StoreTypes'
    BY <1>0, <1>1, <1>7, <2>1, <2>2 DEF StoreTypes, tmp
  <2>4. \A e \in Contents : row'[e].id \in Imports \cup Opens => row[e].id \in Imports \cup Opens
    BY <2>1, Kinds DEF NoRow
  <2>5. TrashBytes'
    <3>1. trash' = trash \ {}
      BY <1>7
    <3> QED BY <1>6, <3>1
  <2>6. LibraryBytes' /\ \A k \in Contents : Kept(k) => Kept(k)'
    BY <1>0, <1>7 DEF LibraryBytes, Kept
  <2> QED BY <1>1, <1>3, <1>4, <2>3, <2>4, <2>5, <2>6, DeleteTurn
<1>8. CASE /\ Trouble /\ UNCHANGED db /\ call[d].moved
           /\ library' = [library EXCEPT ![Path(d)] = c]
           /\ trash' = {t \in trash: t[1] # d}
  <2>1. Path(d) = <<c, call[d].name>> /\ Path(d) \in Paths
    BY <1>1 DEF Path, Paths, What
  <2>2. library'[Path(d)] = c /\ \A p \in Paths : p # Path(d) => library'[p] = library[p]
    BY <1>0, <1>8, <2>1 DEF TypeOK
  <2>3. StoreTypes'
    <3>1. troubles' \in 0..MaxTrouble
      BY <1>0, <1>8, LibraryAssumption DEF StoreTypes, Trouble, LibraryAssumption
    <3>2. library' \in [Paths -> Contents \cup {Nothing}]
      BY <1>0, <1>1, <1>8 DEF StoreTypes
    <3>3. trash' \subseteq Deletes \X Contents
      BY <1>0, <1>8 DEF StoreTypes
    <3> QED BY <1>0, <1>1, <1>8, <3>1, <3>2, <3>3 DEF StoreTypes, tmp, db
  <2>4. LibraryBytes'
    BY <1>0, <2>1, <2>2 DEF LibraryBytes
  <2>5. TrashBytes'
    <3>1. trash' = trash \ {t \in trash : t[1] = d}
      BY <1>8
    <3> QED BY <1>6, <3>1
  <2>6. ASSUME NEW k \in Contents, Kept(k) PROVE Kept(k)'
    <3>1. CASE \E n \in Names : library[<<k, n>>] = k
      <4>1. PICK n \in Names : library[<<k, n>>] = k
        BY <3>1
      <4>2. <<k, n>> \in Paths
        BY DEF Paths
      <4>3. library'[<<k, n>>] = k
        <5>1. CASE <<k, n>> = Path(d)
          <6>1. k = c
            BY <2>1, <5>1
          <6> QED BY <2>2, <5>1, <6>1
        <5>2. CASE <<k, n>> # Path(d)
          BY <2>2, <4>1, <4>2, <5>2
        <5> QED BY <5>1, <5>2
      <4> QED BY <4>3 DEF Kept
    <3>2. CASE \E e \in Deletes : <<e, k>> \in trash
      <4>1. PICK e \in Deletes : <<e, k>> \in trash
        BY <3>2
      <4>2. CASE e = d
        <5>1. <<e, k>>[2] = What(<<e, k>>[1])
          BY <1>0, <4>1 DEF TrashBytes
        <5>2. k = c
          BY <5>1, <4>2
        <5> QED BY <1>1, <2>1, <2>2, <5>2 DEF Kept
      <4>3. CASE e # d
        BY <1>8, <4>1, <4>3 DEF Kept
      <4> QED BY <4>2, <4>3
    <3> QED BY <2>6, <3>1, <3>2 DEF Kept
  <2>7. row' = row
    BY <1>8 DEF db
  <2> QED BY <1>1, <1>3, <1>4, <2>3, <2>4, <2>5, <2>6, <2>7, DeleteTurn
<1>9. CASE Trouble /\ UNCHANGED <<db, library, trash>>
  <2>1. StoreTypes'
    BY <1>0, <1>1, <1>9, LibraryAssumption DEF StoreTypes, tmp, db, Trouble, LibraryAssumption
  <2>2. TrashBytes'
    <3>1. trash' = trash \ {}
      BY <1>9
    <3> QED BY <1>6, <3>1
  <2>3. LibraryBytes' /\ \A k \in Contents : Kept(k) => Kept(k)'
    BY <1>0, <1>9 DEF LibraryBytes, Kept
  <2>4. row' = row
    BY <1>9 DEF db
  <2> QED BY <1>1, <1>3, <1>4, <2>1, <2>2, <2>3, <2>4, DeleteTurn
<1> QED
  BY <1>7, <1>8, <1>9 DEF DeleteRow

-----------------------------------------------------------------------------
(* Make permanent, a crash and the purge.                                     *)
LEMMA MakePermanentUp ==
    ASSUME LibraryInv, NEW c \in Contents, MakePermanent(c)
    PROVE  LibraryInv'
<1>0. TypeOK /\ StoreTypes
  BY TypeParts DEF LibraryInv
<1>1. row[c] \in Row \cup {NoRow} /\ row[c].status = "temporary"
  BY <1>0 DEF MakePermanent, TypeOK
<1>2. row[c].id # Nobody
  BY <1>1, Kinds DEF Row, NoRow
<1>3. row' \in [Contents -> Row \cup {NoRow}] /\ \A d \in Contents : row'[d].id = row[d].id
  BY <1>0, <1>2, PermanentRow DEF MakePermanent
<1>4. UNCHANGED <<dl, disk, lock, call, purge, troubles>>
  BY DEF MakePermanent
<1>5. StoreTypes' /\ call' \in [Calls -> Call]
  BY <1>0, <1>3, <1>4 DEF StoreTypes, disk, tmp, TypeOK
<1>6. LockHeld' /\ Located'
  BY <1>4 DEF LibraryInv, LockHeld, Located, Placed, What
<1>7. FilesInv'
  BY <1>4 DEF LibraryInv, FilesInv, ScratchBytes, Scratch, LibraryBytes, TrashBytes, KeptFiles,
              KeptFor, Kept, What, disk, tmp
<1>8. Inserted' = Inserted
  BY <1>3 DEF Inserted
<1>9. Reserved' /\ InsertedWithinCap'
  <2>1. \A i \in Imports : call'[i].pc \in Admitted /\ call'[i].held = Nobody
                             => RowBytes(Inserted' \cup {What(i)'}) <= Cap
    BY <1>4, <1>8 DEF LibraryInv, Reserved, What
  <2>2. RowBytes(Inserted') <= Cap
    BY <1>8 DEF LibraryInv, InsertedWithinCap, Inserted
  <2> QED BY <2>1, <2>2 DEF Reserved, InsertedWithinCap, Inserted, RowBytes, Sum
<1> QED
  BY <1>5, <1>6, <1>7, <1>9, LibraryParts

LEMMA CrashUp ==
    ASSUME LibraryInv, Crash
    PROVE  LibraryInv'
<1>0. TypeOK /\ StoreTypes /\ LockHeld /\ Located /\ FilesInv /\ Reserved /\ InsertedWithinCap
  BY TypeParts DEF LibraryInv
<1>1. UNCHANGED <<row, dl, library, trash, incomplete, staging>> /\ lock' = Nobody
      /\ purge' = [pc |-> "waiting", left |-> {}] /\ troubles' \in 0..MaxTrouble
  <2>1. troubles' \in 0..MaxTrouble
    <3>1. Trouble
      BY DEF Crash
    <3> QED BY <1>0, <3>1, LibraryAssumption DEF Trouble, StoreTypes, LibraryAssumption
  <2> QED BY <2>1 DEF Crash, db, disk, tmp
<1>2. ASSUME NEW j \in Calls
      PROVE  /\ call'[j] \in Call /\ call'[j].what = call[j].what
             /\ \/ call'[j] = call[j] /\ call[j].pc \in Over \cup {"idle"}
                \/ call'[j].pc = "idle" /\ j \in Opens
                \/ call'[j].pc = "dead"
  <2>1. call[j] \in Call
    BY <1>0 DEF TypeOK
  <2>2. call'[j] = IF call[j].pc \in Over \cup {"idle"} THEN call[j]
                   ELSE IF j \in Opens THEN [call[j] EXCEPT !.pc = "idle"]
                   ELSE [Fresh EXCEPT !.pc = "dead", !.what = call[j].what]
    BY DEF Crash
  <2>3. [call[j] EXCEPT !.pc = "idle"] \in Call
        /\ [call[j] EXCEPT !.pc = "idle"].pc = "idle"
        /\ [call[j] EXCEPT !.pc = "idle"].what = call[j].what
    BY <2>1 DEF Call, Pcs
  <2>4. [Fresh EXCEPT !.pc = "dead", !.what = call[j].what] \in Call
        /\ [Fresh EXCEPT !.pc = "dead", !.what = call[j].what].pc = "dead"
        /\ [Fresh EXCEPT !.pc = "dead", !.what = call[j].what].what = call[j].what
    BY <2>1 DEF Call, Pcs, Over, Fresh
  <2> QED BY <2>1, <2>2, <2>3, <2>4
<1>3. call' \in [Calls -> Call]
  <2>1. call' = [j \in Calls |-> call'[j]]
    BY DEF Crash
  <2> QED BY <1>2, <2>1
<1>4. StoreTypes'
  BY <1>0, <1>1 DEF StoreTypes
<1>5. \A j \in Calls : call'[j].pc \in Over \cup {"idle"} /\ What(j)' = What(j)
  BY <1>2 DEF Over, What
<1>6. LockHeld'
  BY <1>1, <1>5, Kinds DEF LockHeld, Locked, Inside, Over
<1>7. Located'
  <2>1. ASSUME NEW j \in Calls PROVE Placed(j)'
    BY <1>0, <1>2, <1>5, Kinds DEF Located, Placed, Working, Over
  <2> QED BY <2>1 DEF Located
<1>8. Imports \cup Opens \subseteq Calls /\ incomplete \subseteq Opens /\ \A t \in trash : t[1] \in Calls
  BY <1>0, Kinds DEF TypeOK
<1>9. ScratchBytes'
  <2>1. \A j \in Imports \cup Opens : Scratch(j)'
    BY <1>0, <1>1, <1>5, <1>8 DEF FilesInv, ScratchBytes, Scratch, Over
  <2> QED BY <1>0, <1>1, <1>5, <1>8, <2>1 DEF FilesInv, ScratchBytes
<1>10. TrashBytes'
  <2>1. ASSUME NEW t \in trash
        PROVE  /\ t[2] = What(t[1])' /\ call'[t[1]].pc \in {"drop"} \cup Over
               /\ call'[t[1]].pc # "drop"
    <3>1. t[1] \in Calls /\ t[2] = What(t[1]) /\ call[t[1]].pc \in {"drop"} \cup Over
      BY <1>0, <1>8 DEF FilesInv, TrashBytes
    <3>2. t[1] \notin Opens
      BY <1>0, Kinds DEF TypeOK
    <3>3. call'[t[1]].pc \in Over
      BY <1>2, <3>1, <3>2 DEF Over
    <3> QED BY <1>5, <3>1, <3>3 DEF Over
  <2> QED BY <1>1, <2>1 DEF TrashBytes
<1>11. KeptFiles'
  <2>1. ASSUME NEW i \in Imports, call'[i].pc \in Reporting PROVE KeptFor(i)'
    <3>1. call'[i] = call[i]
      BY <1>2, <1>8, <2>1 DEF Reporting
    <3> QED BY <1>0, <1>1, <2>1, <3>1 DEF FilesInv, KeptFiles, KeptFor, Kept, What
  <2> QED BY <2>1 DEF KeptFiles
<1>12. FilesInv'
  BY <1>0, <1>1, <1>9, <1>10, <1>11 DEF FilesInv, LibraryBytes
<1>13. Reserved' /\ InsertedWithinCap'
  <2>1. Reserved'
    BY <1>5, <1>8 DEF Reserved, Admitted, Over
  <2> QED BY <1>0, <1>1, <2>1 DEF InsertedWithinCap, Inserted, RowBytes, Sum
<1> QED
  BY <1>3, <1>4, <1>6, <1>7, <1>12, <1>13, LibraryParts

LEMMA PurgeUp ==
    ASSUME LibraryInv, Purge
    PROVE  LibraryInv'
<1>0. TypeOK /\ StoreTypes /\ LockHeld /\ Located /\ FilesInv /\ Reserved /\ InsertedWithinCap
  BY TypeParts DEF LibraryInv
<1>1. UNCHANGED <<row, dl, library, trash, call, troubles>>
  BY DEF Purge, PurgeLock, PurgeStaging, PurgeListed, PurgeIncomplete, PurgeEnd, db, disk, tmp
<1>2. /\ incomplete' \subseteq incomplete
      /\ \A j \in Imports \cup Opens : staging'[j] \in {staging[j], Nothing}
      /\ staging' \in [Imports \cup Opens -> Contents \cup {Nothing, Torn}]
  BY <1>0 DEF Purge, PurgeLock, PurgeStaging, PurgeListed, PurgeIncomplete, PurgeEnd, db, disk, tmp, TypeOK
<1>3. /\ purge' \in [pc: {"waiting", "staging", "incomplete", "done"}, left: SUBSET (Imports \cup Opens)]
      /\ lock' \in Calls \cup {Nobody, Purger}
  BY <1>0 DEF Purge, PurgeLock, PurgeStaging, PurgeListed, PurgeIncomplete, PurgeEnd, TypeOK, Staged, db, disk, tmp
<1>4. StoreTypes' /\ call' \in [Calls -> Call]
  BY <1>0, <1>1, <1>2, <1>3 DEF StoreTypes, TypeOK
<1>5. LockHeld'
  <2>1. CASE PurgeLock
    BY <1>0, <2>1, Kinds DEF PurgeLock, LockHeld, Nobody, Purger
  <2>2. CASE PurgeStaging \/ PurgeListed \/ PurgeIncomplete
    BY <1>0, <2>2 DEF PurgeStaging, PurgeListed, PurgeIncomplete, LockHeld, TypeOK
  <2>3. CASE PurgeEnd
    BY <1>0, <2>3, Kinds DEF PurgeEnd, LockHeld, Nobody, Purger
  <2> QED BY <2>1, <2>2, <2>3 DEF Purge
<1>6. Located'
  BY <1>0, <1>1 DEF Located, Placed, What
<1>7. ScratchBytes'
  <2>1. \A j \in Imports \cup Opens : Scratch(j)'
    BY <1>0, <1>1, <1>2, Kinds DEF FilesInv, ScratchBytes, Scratch, What
  <2> QED BY <1>0, <1>1, <1>2, <2>1 DEF FilesInv, ScratchBytes, What
<1>8. FilesInv'
  BY <1>0, <1>1, <1>7 DEF FilesInv, LibraryBytes, TrashBytes, KeptFiles, KeptFor, Kept, What
<1>9. Reserved' /\ InsertedWithinCap'
  BY <1>0, <1>1 DEF Reserved, InsertedWithinCap, Inserted, RowBytes, Sum, What
<1> QED
  BY <1>4, <1>5, <1>6, <1>8, <1>9, LibraryParts

-----------------------------------------------------------------------------
LEMMA LibraryStart == Init => LibraryInv
<1> SUFFICES ASSUME Init PROVE LibraryInv
  OBVIOUS
<1>1. \A j \in Calls : call[j] = Fresh
  BY DEF Init
<1>2. LockHeld /\ Located
  BY <1>1, Kinds DEF Init, LockHeld, Located, Placed, Fresh, What, Locked, Inside, Working, Pcs, Over
<1>3. FilesInv
  BY <1>1, Kinds DEF Init, FilesInv, ScratchBytes, Scratch, LibraryBytes, TrashBytes, KeptFiles, Fresh,
     Reporting, Paths, Nothing, Torn
<1>4. Reserved
  BY <1>1, Kinds DEF Reserved, Fresh, Admitted
<1>5. InsertedWithinCap
  <2>1. Inserted = {}
    BY Kinds DEF Init, Inserted, NoRow
  <2>2. Bytes({}) = {}
    BY BytesElements
  <2>3. RowBytes({}) = 0
    BY <2>2, RowBytesFinite, FS_EmptySet
  <2>4. 0 <= Cap
    BY LibraryAssumption DEF LibraryAssumption
  <2> QED BY <2>1, <2>3, <2>4 DEF InsertedWithinCap, Inserted
<1> QED
  BY <1>2, <1>3, <1>4, <1>5, TypesAtStart DEF LibraryInv

LEMMA LibraryStep == LibraryInv /\ [Next]_vars => LibraryInv'
<1> SUFFICES ASSUME LibraryInv, [Next]_vars PROVE LibraryInv'
  OBVIOUS
<1>1. CASE UNCHANGED vars
  <2>1. LockHeld' /\ Located' /\ FilesInv'
    BY <1>1 DEF LibraryInv, vars, db, disk, tmp, LockHeld, Located, Placed, FilesInv, ScratchBytes, Scratch,
       LibraryBytes, TrashBytes, KeptFiles, KeptFor, Kept, What
  <2>2. Reserved' /\ InsertedWithinCap'
    BY <1>1 DEF LibraryInv, vars, db, Reserved, InsertedWithinCap, Inserted, RowBytes, Sum, What
  <2>3. TypeOK'
    BY <1>1 DEF LibraryInv, vars, db, disk, tmp, TypeOK
  <2> QED BY <2>1, <2>2, <2>3 DEF LibraryInv
<1>2. CASE Next
  BY <1>2, ImportStep, DownloadStep, ScanStep, DeleteBeginUp, MoveToTrashUp, DeleteRowUp,
     MakePermanentUp, CrashUp, PurgeUp DEF Next, Delete
<1> QED
  BY <1>1, <1>2

LEMMA LibraryInvariant == Spec => []LibraryInv
  BY LibraryStart, LibraryStep, PTL DEF Spec

\* The library's types.
THEOREM LibraryTypeCorrect == Spec => []TypeOK
<1>1. LibraryInv => TypeOK
  BY DEF LibraryInv
<1> QED
  BY <1>1, LibraryInvariant, PTL

\* The rows that imports and download opens inserted, and what an import under
\* the lock was promised, stay within the cap together, however many calls run,
\* crash or are deleted meanwhile: the gate and the insert share one guard
\* (core/quota.rs lock_for_library).  Nothing is said of rows the scanner
\* inserted, of files without a row and of scratch files.
THEOREM QuotaHolds == Spec => []CommittedWithinCap
<1>1. LibraryInv => CommittedWithinCap
  <2> SUFFICES ASSUME LibraryInv PROVE CommittedWithinCap
    OBVIOUS
  <2>1. CASE Promised = {}
    <3>1. Inserted \cup Promised = Inserted
      BY <2>1
    <3> QED BY <3>1 DEF LibraryInv, InsertedWithinCap, CommittedWithinCap
  <2>2. CASE Promised # {}
    <3>1. PICK i \in Imports : call[i].pc \in Admitted /\ call[i].held = Nobody
      BY <2>2 DEF Promised
    <3>2. \A k \in Imports : call[k].pc \in Admitted => k = i
      BY <3>1 DEF LibraryInv, LockHeld, Locked, Inside, Admitted
    <3>3. Promised = {What(i)}
      BY <3>1, <3>2 DEF Promised
    <3> QED BY <3>1, <3>3 DEF LibraryInv, Reserved, CommittedWithinCap
  <2> QED BY <2>1, <2>2
<1> QED
  BY <1>1, LibraryInvariant, PTL

\* What an import reported is in the library or in the trash: no other call,
\* undone delete, purge or crash loses it (commands/import.rs import_one).
THEOREM ReportsKept == Spec => []ReportedIsKept
<1>1. LibraryInv => ReportedIsKept
  BY DEF LibraryInv, FilesInv, KeptFiles, KeptFor, Kept, Reporting, ReportedIsKept
<1> QED
  BY <1>1, LibraryInvariant, PTL

-----------------------------------------------------------------------------
(* MediaServe.                                                                *)

\* What WindowsAreExact says of one answer to a header.
Exact(a, h, total) ==
    /\ a.status = 206 =>
         /\ a.first \in Named(h, total) /\ \A b \in Named(h, total): a.first <= b
         /\ Stretch(a) \subseteq Named(h, total)
         /\ a.last - a.first < MaxRange /\ a.first <= a.last
         /\ a.last + 1 \in Named(h, total) => a.last - a.first = MaxRange - 1
    /\ a.status = 416 => Named(h, total) = {}
    /\ a.at = "body" /\ Named(h, total) = {} => a.status = 200 /\ total = 0

\* A range is refused just when it names no byte of the file, and else it is all
\* the bytes named.
LEMMA ParsedIsNamed ==
    ASSUME NEW h \in Headers, NEW total \in Nat, h.kind # "absent"
    PROVE  \/ ParseSingleRange(h, total) = {} /\ Named(h, total) = {}
           \/ \E i, j \in Nat: /\ ParseSingleRange(h, total) = {<<i, j>>}
                               /\ i <= j /\ j < total /\ Named(h, total) = i..j
<1> DEFINE end == IF h.kind = "span" THEN h.b ELSE IF total = 0 THEN 0 ELSE total - 1
<1>1. CASE h.kind = "last" /\ (h.a = 0 \/ total = 0)
  BY <1>1 DEF ParseSingleRange, Named, Headers
<1>2. CASE h.kind = "last" /\ h.a # 0 /\ total # 0
  <2> DEFINE i == total - Least(h.a, total)
  <2>1. i \in Nat /\ i <= total - 1 /\ total - 1 \in Nat
    BY <1>2 DEF Least, Headers
  <2>2. ParseSingleRange(h, total) = {<<i, total - 1>>}
    BY <1>2 DEF ParseSingleRange
  <2>3. Named(h, total) = i..(total - 1)
    BY <1>2 DEF Named, Least, Headers
  <2> HIDE DEF i
  <2> QED BY <2>1, <2>2, <2>3
<1>3. CASE h.kind \in {"from", "span"} /\ (h.a > end \/ h.a >= total)
  BY <1>3 DEF ParseSingleRange, Named, Headers
<1>4. CASE h.kind \in {"from", "span"} /\ ~(h.a > end \/ h.a >= total)
  <2> DEFINE j == Least(end, total - 1)
  <2>1. h.a \in Nat /\ j \in Nat /\ h.a <= j /\ j < total
    BY <1>4 DEF Least, Headers
  <2>2. ParseSingleRange(h, total) = {<<h.a, j>>}
    BY <1>4 DEF ParseSingleRange
  <2>3. Named(h, total) = h.a..j
    BY <1>4 DEF Named, Least, Headers
  <2> HIDE DEF j
  <2> QED BY <2>1, <2>2, <2>3
<1>5. CASE h.kind = "other"
  BY <1>5 DEF ParseSingleRange, Named
<1> QED BY <1>1, <1>2, <1>3, <1>4, <1>5 DEF Headers

\* The window of a range.
LEMMA WindowExact ==
    ASSUME NEW h \in Headers, NEW total \in Nat, NEW i \in Nat, NEW j \in Nat,
           i <= j, j < total, Named(h, total) = i..j
    PROVE  Exact(Sending(206, Window(<<i, j>>)), h, total)
  BY MediaAssumption DEF Exact, Sending, Window, Least, Stretch

LEMMA HeadedExact ==
    ASSUME NEW h \in Headers, NEW total \in Nat
    PROVE  Exact(Headed(h, total), h, total)
<1>1. CASE h.kind = "absent" /\ total <= MaxRange
  <2>1. Headed(h, total) = Sending(200, <<0, total - 1>>)
    BY <1>1, MediaAssumption DEF Headed
  <2>2. total # 0 => 0 \in Named(h, total)
    BY <1>1 DEF Named
  <2>3. Named(h, total) = {} => total = 0
    BY <2>2
  <2> QED BY <2>1, <2>3 DEF Exact, Sending
<1>2. CASE h.kind = "absent" /\ total > MaxRange
  <2>1. Headed(h, total) = Sending(206, Window(<<0, total - 1>>))
    BY <1>2, MediaAssumption DEF Headed
  <2>2. Named(h, total) = 0..(total - 1)
    BY <1>2 DEF Named
  <2> QED BY <1>2, <2>1, <2>2, WindowExact, MediaAssumption
<1>3. CASE h.kind # "absent" /\ ParseSingleRange(h, total) = {}
  <2>1. Headed(h, total) = Told(416)
    BY <1>3 DEF Headed
  <2>2. Named(h, total) = {}
    BY <1>3, ParsedIsNamed
  <2> QED BY <2>1, <2>2 DEF Exact, Told
<1>4. CASE h.kind # "absent" /\ ParseSingleRange(h, total) # {}
  <2>1. PICK i \in Nat, j \in Nat: /\ ParseSingleRange(h, total) = {<<i, j>>}
                                   /\ i <= j /\ j < total /\ Named(h, total) = i..j
    BY <1>4, ParsedIsNamed
  <2>2. (CHOOSE r \in ParseSingleRange(h, total): TRUE) = <<i, j>>
    BY <2>1
  <2>3. Headed(h, total) = Sending(206, Window(<<i, j>>))
    BY <1>4, <2>2 DEF Headed
  <2> QED BY <2>1, <2>3, WindowExact
<1> QED BY <1>1, <1>2, <1>3, <1>4, MediaAssumption DEF Headers

LEMMA HeadedTyped ==
    ASSUME NEW h \in Headers, NEW total \in Nat
    PROVE  /\ Headed(h, total) \in Answer
           /\ Headed(h, total).at \in {"body", "done"}
           /\ Headed(h, total).at = "body" => Headed(h, total).status \in {200, 206}
<1>1. CASE h.kind = "absent"
  BY <1>1, MediaAssumption DEF Headed, Sending, Window, Least, Answer, Status
<1>2. CASE h.kind # "absent" /\ ParseSingleRange(h, total) = {}
  BY <1>2 DEF Headed, Told, Answer, Status
<1>3. CASE h.kind # "absent" /\ ParseSingleRange(h, total) # {}
  <2>1. PICK i \in Nat, j \in Nat: ParseSingleRange(h, total) = {<<i, j>>}
    BY <1>3, ParsedIsNamed
  <2>2. (CHOOSE r \in ParseSingleRange(h, total): TRUE) = <<i, j>>
    BY <2>1
  <2>3. Headed(h, total) = Sending(206, Window(<<i, j>>))
    BY <1>3, <2>2 DEF Headed
  <2> QED BY <2>3, MediaAssumption DEF Sending, Window, Least, Answer, Status
<1> QED BY <1>1, <1>2, <1>3

\* Every answer is exact for its header and the file's size: before its head is
\* fixed it claims nothing.
ExactAnswer(q) ==
    /\ answer[q].at \in {"asked", "lookup", "path"} => answer[q].status = 0
    /\ answer[q].at = "body" => answer[q].status \in {200, 206}
    /\ answer[q].at \in {"path", "body"} => asked[q].target = "media"
    /\ Exact(answer[q], asked[q].range, size)
MediaInv == MediaTypeOK /\ \A q \in Requests: ExactAnswer(q)

LEMMA ToldExact ==
    ASSUME NEW h, NEW total, NEW status \in Status \ {206, 416}
    PROVE  Exact(Told(status), h, total)
  BY DEF Exact, Told, Status

LEMMA MediaBegins == MediaInit => MediaInv
<1> SUFFICES ASSUME MediaInit PROVE MediaInv
  OBVIOUS
<1>1. MediaTypeOK
  BY DEF MediaInit, MediaTypeOK, Told, Silent, Absent, Headers, Status
<1>2. ASSUME NEW q \in Requests PROVE ExactAnswer(q)
  <2>1. answer[q] = Told(200)
    BY DEF MediaInit
  <2>2. Exact(answer[q], asked[q].range, size)
    BY <2>1, ToldExact DEF Status
  <2> QED BY <2>1, <2>2 DEF ExactAnswer, Told
<1> QED BY <1>1, <1>2 DEF MediaInv

\* A step of one request leaves the answers of the others alone.
LEMMA OneReply ==
    ASSUME MediaInv, NEW q \in Requests, NEW a \in Answer, Reply(q, a),
           UNCHANGED <<size, asked>>, itemRow' \in BOOLEAN, onDisk' \in BOOLEAN,
           busy' \in Requests \cup {NoRequest},
           a.at \in {"asked", "lookup", "path"} => a.status = 0,
           a.at = "body" => a.status \in {200, 206},
           a.at \in {"path", "body"} => asked[q].target = "media",
           Exact(a, asked[q].range, size)
    PROVE  MediaInv'
<1>1. MediaTypeOK'
  BY DEF MediaInv, MediaTypeOK, Reply, Answer
<1>2. ASSUME NEW p \in Requests PROVE ExactAnswer(p)'
  <2>1. answer'[p] = IF p = q THEN a ELSE answer[p]
    BY DEF Reply, MediaInv, MediaTypeOK
  <2>2. CASE p = q
    BY <2>1, <2>2 DEF ExactAnswer, Exact, Stretch, Named
  <2>3. CASE p # q
    <3>1. ExactAnswer(p) /\ answer'[p] = answer[p]
      BY <2>1, <2>3 DEF MediaInv
    <3> QED BY <3>1 DEF ExactAnswer, Exact, Stretch, Named
  <2> QED BY <2>2, <2>3
<1> QED BY <1>1, <1>2 DEF MediaInv

\* An answer that is ended by a status alone, and one still on its way.
LEMMA Refusal ==
    ASSUME MediaInv, NEW q \in Requests, NEW status \in Status \ {206, 416}, Reply(q, Told(status)),
           UNCHANGED <<size, asked>>, itemRow' \in BOOLEAN, onDisk' \in BOOLEAN,
           busy' \in Requests \cup {NoRequest}
    PROVE  MediaInv'
<1>1. Told(status) \in Answer
  BY DEF Told, Answer, Status
<1>2. Told(status).at = "done"
  BY DEF Told
<1> QED BY <1>1, <1>2, ToldExact, OneReply

LEMMA OnItsWay ==
    ASSUME MediaInv, NEW q \in Requests, NEW place \in {"lookup", "path"},
           Reply(q, [answer[q] EXCEPT !.at = place]), answer[q].at \in {"asked", "lookup"},
           place = "path" => asked[q].target = "media",
           UNCHANGED <<size, asked>>, itemRow' \in BOOLEAN, onDisk' \in BOOLEAN,
           busy' \in Requests \cup {NoRequest}
    PROVE  MediaInv'
<1> DEFINE a == [answer[q] EXCEPT !.at = place]
<1>1. a \in Answer /\ a.at = place /\ a.status = 0
  BY DEF MediaInv, MediaTypeOK, Answer, ExactAnswer
<1>2. Exact(a, asked[q].range, size)
  BY <1>1 DEF Exact
<1>3. Reply(q, a)
  OBVIOUS
<1> HIDE DEF a
<1> QED BY <1>1, <1>2, <1>3, OneReply

LEMMA MediaStep == MediaInv /\ [MediaNext]_mediaVars => MediaInv'
<1> SUFFICES ASSUME MediaInv, [MediaNext]_mediaVars PROVE MediaInv'
  OBVIOUS
<1> USE DEF MediaTypeOK
<1>0. MediaTypeOK
  BY DEF MediaInv
<1>1. ASSUME NEW q \in Requests, NEW target \in Targets, NEW h \in Headers, Ask(q, target, h)
      PROVE  MediaInv'
  <2>1. MediaTypeOK'
    BY <1>0, <1>1 DEF Ask, Reply, Waiting
  <2>2. ASSUME NEW p \in Requests PROVE ExactAnswer(p)'
    <3>1. CASE p = q
      BY <1>0, <1>1, <3>1 DEF Ask, Reply, Waiting, ExactAnswer, Exact
    <3>2. CASE p # q
      <4>1. ExactAnswer(p) /\ answer'[p] = answer[p] /\ asked'[p] = asked[p] /\ size' = size
        BY <1>0, <1>1, <3>2 DEF MediaInv, Ask, Reply
      <4> QED BY <4>1 DEF ExactAnswer, Exact, Stretch, Named
    <3> QED BY <3>1, <3>2
  <2> QED BY <2>1, <2>2 DEF MediaInv
<1>2. ASSUME NEW q \in Requests, Unparsed(q) PROVE MediaInv'
  BY <1>0, <1>2, Refusal DEF Unparsed, Status
<1>3. ASSUME NEW q \in Requests, Enter(q) PROVE MediaInv'
  BY <1>0, <1>3, OnItsWay DEF Enter
<1>4. ASSUME NEW q \in Requests, ServeMedia(q) PROVE MediaInv'
  <2>1. CASE itemRow
    BY <1>0, <1>4, <2>1, OnItsWay DEF ServeMedia
  <2>2. CASE ~itemRow
    BY <1>0, <1>4, <2>2, Refusal DEF ServeMedia, Status
  <2> QED BY <2>1, <2>2
<1>5. ASSUME NEW q \in Requests, ServeSubtitle(q) PROVE MediaInv'
  BY <1>0, <1>5, Refusal DEF ServeSubtitle, Status
<1>6. ASSUME NEW q \in Requests, ServeMeta(q) PROVE MediaInv'
  BY <1>0, <1>6, Refusal DEF ServeMeta, Status
<1>7. ASSUME NEW q \in Requests, ServePath(q) PROVE MediaInv'
  <2>1. CASE onDisk
    <3> DEFINE a == Headed(asked[q].range, size)
    <3>1. asked[q].range \in Headers /\ size \in Nat
      BY <1>0, MediaAssumption
    <3>2. a \in Answer /\ a.at \in {"body", "done"} /\ (a.at = "body" => a.status \in {200, 206})
      BY <3>1, HeadedTyped
    <3>3. Exact(a, asked[q].range, size)
      BY <3>1, HeadedExact
    <3>4. Reply(q, a) /\ asked[q].target = "media" /\ UNCHANGED <<size, asked, itemRow, onDisk>>
          /\ busy' = NoRequest
      BY <1>7, <2>1 DEF ServePath, MediaInv, ExactAnswer
    <3> HIDE DEF a
    <3> QED BY <1>0, <3>2, <3>3, <3>4, OneReply
  <2>2. CASE ~onDisk
    BY <1>0, <1>7, <2>2, Refusal DEF ServePath, Status
  <2> QED BY <2>1, <2>2
<1>8. ASSUME NEW q \in Requests, StreamRange(q) \/ ReadWhole(q) PROVE MediaInv'
  <2>1. CASE onDisk
    <3> DEFINE a == [answer[q] EXCEPT !.at = "done"]
    <3>1. /\ a \in Answer /\ a.at = "done" /\ a.status = answer[q].status
          /\ a.first = answer[q].first /\ a.last = answer[q].last
      BY <1>0 DEF Answer
    <3>2. Exact(answer[q], asked[q].range, size)
      BY DEF MediaInv, ExactAnswer
    <3> HIDE DEF a
    <3>4. Exact(a, asked[q].range, size)
      BY <3>1, <3>2 DEF Exact, Stretch
    <3>3. Reply(q, a) /\ UNCHANGED <<size, asked, itemRow, onDisk, busy>>
      BY <1>8, <2>1 DEF StreamRange, ReadWhole, a
    <3> QED BY <1>0, <3>1, <3>3, <3>4, OneReply
  <2>2. CASE ~onDisk
    BY <1>0, <1>8, <2>2, Refusal DEF StreamRange, ReadWhole, Status
  <2> QED BY <2>1, <2>2
<1>9. CASE FileGoes \/ RowGoes \/ Comes \/ UNCHANGED mediaVars
  <2>1. MediaTypeOK' /\ UNCHANGED <<size, asked, answer>>
    BY <1>0, <1>9 DEF FileGoes, RowGoes, Comes, mediaVars
  <2> QED BY <2>1 DEF MediaInv, ExactAnswer, Exact, Stretch, Named
<1> QED BY <1>1, <1>2, <1>3, <1>4, <1>5, <1>6, <1>7, <1>8, <1>9, MediaAssumption DEF MediaNext

(* WindowsAreExact, for every file size, every largest window and every set   *)
(* of requests (serve_path, parse_single_range, stream_range).                *)
THEOREM RangesExact == MediaSpec => []WindowsAreExact
<1>1. MediaInv => WindowsAreExact
  BY DEF MediaInv, ExactAnswer, Exact, WindowsAreExact
<1> QED BY <1>1, MediaBegins, MediaStep, PTL DEF MediaSpec

-----------------------------------------------------------------------------
(* Keystore.                                                                  *)

\* Until a command has overwritten the keyring with the keypair it made, it
\* alone is inside; and what a command is to put a row in for is in the keyring
\* as long as it holds the lock.
KeyHeld ==
    \A c \in Commands:
        /\ command[c].at \in {"load", "store"} => keyLock = c
        /\ command[c].at = "row" /\ command[c].kind # "ensure_user_row" =>
             keyLock = c /\ command[c].key = keyring
        /\ command[c].at = "store" /\ command[c].kind # "rotate" => keyring = NoKey
        /\ command[c].at \in {"store", "row"} => command[c].key \in Keys
        /\ command[c].at = "store" => command[c].kind # "ensure_user_row"

KeystoreInv == KeystoreTypeOK /\ KeyHeld /\ OneIdentity

LEMMA KeystoreBegins == KeystoreInit => KeystoreInv
  BY KeystoreAssumption DEF KeystoreInit, KeystoreInv, KeystoreTypeOK, KeyHeld, OneIdentity, NoTask, CommandKinds

LEMMA KeystoreTyped ==
    KeystoreTypeOK /\ KeyHeld /\ [KeystoreNext]_keystoreVars => KeystoreTypeOK'
<1> SUFFICES ASSUME KeystoreTypeOK, KeyHeld, [KeystoreNext]_keystoreVars PROVE KeystoreTypeOK'
  OBVIOUS
<1> USE DEF KeystoreTypeOK
<1>1. ASSUME NEW c \in Commands, NEW kind \in CommandKinds, Called(c, kind) PROVE KeystoreTypeOK'
  BY <1>1 DEF Called, records
<1>2. ASSUME NEW c \in Commands, Entered(c) PROVE KeystoreTypeOK'
  BY <1>2 DEF Entered, Generate, Has
<1>3. ASSUME NEW c \in Commands, LoadKey(c) PROVE KeystoreTypeOK'
  BY <1>3 DEF LoadKey, Generate, Has, Ends, NoTask, Creating
<1>4. ASSUME NEW c \in Commands, LoadFails(c) \/ StoreFails(c) PROVE KeystoreTypeOK'
  BY <1>4 DEF LoadFails, StoreFails, Fault, Ends, NoTask, records
<1>5. ASSUME NEW c \in Commands, StoreKey(c) PROVE KeystoreTypeOK'
  BY <1>5 DEF StoreKey, Has, KeyHeld
<1>6. ASSUME NEW c \in Commands, UpsertUserIdentity(c) PROVE KeystoreTypeOK'
  BY <1>6 DEF UpsertUserIdentity, LeavesRow, Ends, NoTask, KeyHeld, Standing
<1>7. ASSUME NEW c \in Commands, UpsertFails(c) PROVE KeystoreTypeOK'
  BY <1>7 DEF UpsertFails, LeavesRow, Ends, NoTask, Fault, records
<1>8. ASSUME AppDies PROVE KeystoreTypeOK'
  BY <1>8 DEF AppDies, NoTask, Fault, records
<1>9. CASE UNCHANGED keystoreVars
  BY <1>9 DEF keystoreVars
<1> QED BY <1>1, <1>2, <1>3, <1>4, <1>5, <1>6, <1>7, <1>8, <1>9 DEF KeystoreNext

LEMMA KeystoreKept == KeystoreInv /\ [KeystoreNext]_keystoreVars => KeyHeld' /\ OneIdentity'
<1> SUFFICES ASSUME KeystoreTypeOK, KeyHeld, OneIdentity, [KeystoreNext]_keystoreVars
             PROVE  KeyHeld' /\ OneIdentity'
  BY DEF KeystoreInv
<1> USE DEF KeystoreTypeOK, KeyHeld, OneIdentity, Standing
<1> USE KeystoreAssumption
<1>1. ASSUME NEW c \in Commands, NEW kind \in CommandKinds, Called(c, kind)
      PROVE  KeyHeld' /\ OneIdentity'
  BY <1>1 DEF Called, records
<1>2. ASSUME NEW c \in Commands, Entered(c) PROVE KeyHeld' /\ OneIdentity'
  BY <1>2 DEF Entered, Generate, Has
<1>3. ASSUME NEW c \in Commands, LoadKey(c) PROVE KeyHeld' /\ OneIdentity'
  BY <1>3 DEF LoadKey, Generate, Has, Ends, NoTask, Creating
<1>4. ASSUME NEW c \in Commands, LoadFails(c) \/ StoreFails(c) PROVE KeyHeld' /\ OneIdentity'
  BY <1>4 DEF LoadFails, StoreFails, Fault, Ends, NoTask, records
<1>5. ASSUME NEW c \in Commands, StoreKey(c) PROVE KeyHeld' /\ OneIdentity'
  BY <1>5 DEF StoreKey, Has
<1>6. ASSUME NEW c \in Commands, UpsertUserIdentity(c) PROVE KeyHeld' /\ OneIdentity'
  BY <1>6 DEF UpsertUserIdentity, LeavesRow, Ends, NoTask
<1>7. ASSUME NEW c \in Commands, UpsertFails(c) PROVE KeyHeld' /\ OneIdentity'
  BY <1>7 DEF UpsertFails, LeavesRow, Ends, NoTask, Fault, records
<1>8. ASSUME AppDies PROVE KeyHeld' /\ OneIdentity'
  BY <1>8 DEF AppDies, NoTask, Fault, records
<1>9. CASE UNCHANGED keystoreVars
  BY <1>9 DEF keystoreVars
<1> QED BY <1>1, <1>2, <1>3, <1>4, <1>5, <1>6, <1>7, <1>8, <1>9 DEF KeystoreNext

(* OneIdentity, for every set of commands and keypairs and any number of      *)
(* faults (IdentityService: get_or_create, ensure_keypair, rotate, ...).      *)
THEOREM DeviceIsOneUser == KeystoreSpec => []OneIdentity
<1>1. KeystoreInv /\ [KeystoreNext]_keystoreVars => KeystoreInv'
  BY KeystoreTyped, KeystoreKept DEF KeystoreInv
<1>2. KeystoreInv => OneIdentity
  BY DEF KeystoreInv
<1> QED BY <1>1, <1>2, KeystoreBegins, PTL DEF KeystoreSpec
=============================================================================
