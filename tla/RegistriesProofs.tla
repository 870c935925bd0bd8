-------------------------- MODULE RegistriesProofs --------------------------
(***************************************************************************)
(* Proofs about Registries, for any set of registries, any number of       *)
(* registrations and any nesting of attempts: snapshots taken as lengths   *)
(* are as good as copies.                                                  *)
(***************************************************************************)
EXTENDS Registries, WellFoundedInduction, TLAPS

\* The two registries truncated together were recorded together.
NotedTogether ==
    \A i \in 1..Len(frames) :
        frames[i].len["tails"] = frames[i].len["footnotes"]

\* A fuse's full copies are what its lengths stand for.
CopiesAgree ==
    \A i \in 1..Len(frames) :
        frames[i].kind = "fuse" =>
            \A r \in Reg :
                frames[i].copy[r] = SubSeq(reg[r], 1, frames[i].len[r])

\* The part of IInv that speaks of the open attempts.
FramesOK == SnapshotsNest /\ NotedTogether /\ CopiesAgree

IInv == TypeOK /\ TailsParallel /\ FramesOK

\* `new' still starts with the first len[r] entries of `old', in every registry.
Keeps(old, new, len) ==
    \A r \in Reg :
        /\ len[r] <= Len(new[r])
        /\ SubSeq(new[r], 1, len[r]) = SubSeq(old[r], 1, len[r])

-----------------------------------------------------------------------------
(* Sequences *)

\* A sequence is the function of its elements.
LEMMA SeqIsFunction ==
    ASSUME NEW S, NEW s \in Seq(S)
    PROVE  s = [i \in 1..Len(s) |-> s[i]]
  OBVIOUS

\* Truncating to a length within the sequence takes that prefix.
LEMMA TruncatedPrefix ==
    ASSUME NEW s \in Entries, NEW n \in Nat, n <= Len(s)
    PROVE  /\ Truncated(s, n) \in Entries
           /\ Truncated(s, n) = SubSeq(s, 1, n)
           /\ Len(Truncated(s, n)) = n
<1>1. SubSeq(s, 1, Len(s)) = s
  BY DEF Entries
<1>2. SubSeq(s, 1, n) \in Seq(Nat) /\ Len(SubSeq(s, 1, n)) = n
  BY DEF Entries
<1>3. Len(s) \in Nat
  BY DEF Entries
<1>4. Truncated(s, n) = SubSeq(s, 1, n)
  <2>1. CASE n < Len(s)
    BY <2>1 DEF Truncated
  <2>2. CASE n = Len(s)
    BY <2>2, <1>1, <1>3 DEF Truncated
  <2> QED
    BY <2>1, <2>2, <1>3
<1> QED
  BY <1>2, <1>4 DEF Entries

\* A prefix of a prefix is a prefix of the whole.
LEMMA PrefixOfPrefix ==
    ASSUME NEW s \in Entries, NEW n \in Nat, NEW m \in Nat, m <= n, n <= Len(s)
    PROVE  SubSeq(SubSeq(s, 1, n), 1, m) = SubSeq(s, 1, m)
  BY DEF Entries

\* Appending keeps every prefix of what was there.
LEMMA PrefixOfAppend ==
    ASSUME NEW s \in Entries, NEW x \in Nat, NEW m \in Nat, m <= Len(s)
    PROVE  SubSeq(Append(s, x), 1, m) = SubSeq(s, 1, m)
  BY DEF Entries

\* Sequences that agree on a prefix agree on every shorter one.
LEMMA ShorterPrefix ==
    ASSUME NEW s \in Entries, NEW t \in Entries,
           NEW n \in Nat, NEW m \in Nat, m <= n, n <= Len(s), n <= Len(t),
           SubSeq(s, 1, n) = SubSeq(t, 1, n)
    PROVE  SubSeq(s, 1, m) = SubSeq(t, 1, m)
<1>1. SubSeq(SubSeq(s, 1, n), 1, m) = SubSeq(s, 1, m)
  BY PrefixOfPrefix
<1>2. SubSeq(SubSeq(t, 1, n), 1, m) = SubSeq(t, 1, m)
  BY PrefixOfPrefix
<1> QED
  BY <1>1, <1>2

\* Front drops the last element and nothing else.
LEMMA FrontOf ==
    ASSUME NEW S, NEW s \in Seq(S), Len(s) > 0
    PROVE  /\ Front(s) \in Seq(S)
           /\ Len(Front(s)) = Len(s) - 1
           /\ \A i \in 1..(Len(s) - 1) : Front(s)[i] = s[i]
           /\ Front(s) = [i \in 1..(Len(s) - 1) |-> s[i]]
<1>1. Front(s) = SubSeq(s, 1, Len(s) - 1) /\ Len(s) - 1 \in Nat
  BY DEF Front
<1>2. Front(s) \in Seq(S)
  BY <1>1
<1>3. Len(Front(s)) = Len(s) - 1
  <2>1. \A n \in Nat : n <= Len(s) => Len(SubSeq(s, 1, n)) = n
    OBVIOUS
  <2>2. Len(s) - 1 <= Len(s)
    BY <1>1
  <2> QED
    BY <1>1, <2>1, <2>2
<1>4. \A i \in 1..(Len(s) - 1) : Front(s)[i] = s[i]
  BY <1>1
<1>5. Front(s) = [i \in 1..Len(Front(s)) |-> Front(s)[i]]
  BY <1>2
<1> QED
  BY <1>2, <1>3, <1>4, <1>5

-----------------------------------------------------------------------------
(* How a registry change looks to the attempts that are open *)

\* The copies the lengths stand for are copies of the registries.
LEMMA CopiesType ==
    ASSUME IInv
    PROVE  Copies \in Seq([Reg -> Entries]) /\ Len(Copies) = Len(frames)
<1>1. reg \in Regs /\ frames \in Seq(Frame) /\ Len(frames) \in Nat
  BY DEF IInv, TypeOK
<1>2. ASSUME NEW i \in 1..Len(frames), NEW r \in Reg
      PROVE  SubSeq(reg[r], 1, frames[i].len[r]) \in Entries
  <2>1. frames[i] \in Frame
    BY <1>1
  <2>2. reg[r] \in Entries /\ frames[i].len[r] \in Nat
    BY <1>1, <2>1 DEF Regs, Frame
  <2>3. frames[i].len[r] <= Len(reg[r])
    BY DEF IInv, FramesOK, SnapshotsNest
  <2> QED
    BY <2>2, <2>3 DEF Entries
<1>3. Copies = [i \in 1..Len(frames) |->
                  [r \in Reg |-> SubSeq(reg[r], 1, frames[i].len[r])]]
  BY DEF Copies
<1>4. Copies \in [1..Len(frames) -> [Reg -> Entries]]
  BY <1>2, <1>3
<1> QED
  BY <1>1, <1>4

\* Registering keeps what every open attempt recorded.
LEMMA AddKeepsFrames ==
    ASSUME IInv, reg' \in Regs, Keeps(reg, reg', Lengths(reg)), frames' = frames
    PROVE  FramesOK' /\ Copies' = Copies
<1> USE DEF IInv, FramesOK
<1>1. reg \in Regs /\ frames \in Seq(Frame)
  BY DEF TypeOK
<1>2. ASSUME NEW i \in 1..Len(frames), NEW r \in Reg
      PROVE  /\ frames[i].len[r] <= Len(reg'[r])
             /\ SubSeq(reg'[r], 1, frames[i].len[r])
                  = SubSeq(reg[r], 1, frames[i].len[r])
  <2>1. frames[i] \in Frame
    BY <1>1
  <2>2. frames[i].len[r] \in Nat /\ reg[r] \in Entries /\ reg'[r] \in Entries
    BY <1>1, <2>1 DEF Frame, Regs
  <2>3. frames[i].len[r] <= Len(reg[r])
    BY DEF SnapshotsNest
  <2>4. /\ Len(reg[r]) <= Len(reg'[r])
        /\ SubSeq(reg'[r], 1, Len(reg[r])) = SubSeq(reg[r], 1, Len(reg[r]))
    BY DEF Keeps, Lengths
  <2>5. Len(reg[r]) \in Nat /\ Len(reg'[r]) \in Nat
    BY <2>2 DEF Entries
  <2>6. frames[i].len[r] <= Len(reg'[r])
    BY <2>2, <2>3, <2>4, <2>5
  <2>7. SubSeq(reg'[r], 1, frames[i].len[r]) = SubSeq(reg[r], 1, frames[i].len[r])
    BY <2>2, <2>3, <2>4, <2>5, ShorterPrefix
  <2> QED
    BY <2>6, <2>7
<1>3. SnapshotsNest'
  BY <1>2 DEF SnapshotsNest
<1>4. NotedTogether'
  BY DEF NotedTogether
<1>5. CopiesAgree'
  BY <1>2 DEF CopiesAgree
<1>6. Copies' = Copies
  BY <1>2 DEF Copies
<1> QED
  BY <1>3, <1>4, <1>5, <1>6

\* Ending the innermost attempt keeps what the others recorded, as long as the
\* registries keep what it recorded itself.
LEMMA EndKeepsFrames ==
    ASSUME IInv, reg' \in Regs, Len(frames) > 0, Keeps(reg, reg', Top.len),
           frames' = Front(frames)
    PROVE  FramesOK' /\ Copies' = Front(Copies) /\ frames' \in Seq(Frame)
<1> USE DEF IInv, FramesOK
<1> DEFINE n == Len(frames)
<1>1. reg \in Regs /\ frames \in Seq(Frame) /\ n \in Nat \ {0}
  BY DEF TypeOK
<1>2. /\ frames' \in Seq(Frame)
      /\ Len(frames') = n - 1
      /\ \A i \in 1..(n - 1) : frames'[i] = frames[i]
  BY <1>1, FrontOf
<1>3. Top = frames[n] /\ n \in 1..Len(frames)
  BY <1>1 DEF Top, Last
<1>4. ASSUME NEW i \in 1..(n - 1), NEW r \in Reg
      PROVE  /\ frames[i].len[r] <= Len(reg'[r])
             /\ SubSeq(reg'[r], 1, frames[i].len[r])
                  = SubSeq(reg[r], 1, frames[i].len[r])
  <2>1. i \in 1..n /\ i \in 1..Len(frames)
    BY <1>1
  <2>2. frames[i] \in Frame /\ frames[n] \in Frame
    BY <1>1, <1>3, <2>1
  <2>3. /\ frames[i].len[r] \in Nat /\ frames[n].len[r] \in Nat
        /\ reg[r] \in Entries /\ reg'[r] \in Entries
    BY <1>1, <2>2 DEF Frame, Regs
  <2>4. frames[i].len[r] <= frames[n].len[r] /\ frames[n].len[r] <= Len(reg[r])
    BY <1>3, <2>1 DEF SnapshotsNest
  <2>5. /\ frames[n].len[r] <= Len(reg'[r])
        /\ SubSeq(reg'[r], 1, frames[n].len[r]) = SubSeq(reg[r], 1, frames[n].len[r])
    BY <1>3 DEF Keeps
  <2>6. Len(reg[r]) \in Nat /\ Len(reg'[r]) \in Nat
    BY <2>3 DEF Entries
  <2>7. frames[i].len[r] <= Len(reg'[r])
    BY <2>3, <2>4, <2>5, <2>6
  <2>8. SubSeq(reg'[r], 1, frames[i].len[r]) = SubSeq(reg[r], 1, frames[i].len[r])
    BY <2>3, <2>4, <2>5, <2>6, ShorterPrefix
  <2> QED
    BY <2>7, <2>8
<1>5. SnapshotsNest'
  <2> SUFFICES ASSUME NEW i \in 1..(n - 1), NEW r \in Reg, NEW j \in 1..i
               PROVE  /\ frames'[i].len[r] <= Len(reg'[r])
                      /\ frames'[j].len[r] <= frames'[i].len[r]
    BY <1>2 DEF SnapshotsNest
  <2>1. j \in 1..(n - 1) /\ i \in 1..Len(frames)
    BY <1>1
  <2>2. frames[j].len[r] <= frames[i].len[r]
    BY <2>1 DEF SnapshotsNest
  <2> QED
    BY <1>2, <1>4, <2>1, <2>2
<1>6. NotedTogether'
  BY <1>1, <1>2 DEF NotedTogether
<1>7. CopiesAgree'
  <2> SUFFICES ASSUME NEW i \in 1..(n - 1), NEW r \in Reg, frames[i].kind = "fuse"
               PROVE  frames[i].copy[r] = SubSeq(reg'[r], 1, frames[i].len[r])
    BY <1>2 DEF CopiesAgree
  <2>1. i \in 1..Len(frames)
    BY <1>1
  <2> QED
    BY <1>4, <2>1 DEF CopiesAgree
<1>8. Copies' = Front(Copies)
  <2>1. Copies' = [i \in 1..(n - 1) |->
                     [r \in Reg |-> SubSeq(reg[r], 1, frames[i].len[r])]]
    <3>1. Copies' = [i \in 1..(n - 1) |->
                       [r \in Reg |-> SubSeq(reg'[r], 1, frames'[i].len[r])]]
      BY <1>2 DEF Copies
    <3>2. \A i \in 1..(n - 1), r \in Reg :
            SubSeq(reg'[r], 1, frames'[i].len[r]) = SubSeq(reg[r], 1, frames[i].len[r])
      BY <1>2, <1>4
    <3> QED
      BY <3>1, <3>2
  <2>2. Copies \in Seq([Reg -> Entries]) /\ Len(Copies) = n
    BY <1>1, CopiesType
  <2>3. Front(Copies) = [i \in 1..(n - 1) |->
                     [r \in Reg |-> SubSeq(reg[r], 1, frames[i].len[r])]]
    <3>1. Front(Copies) = [i \in 1..(n - 1) |-> Copies[i]]
      BY <1>1, <2>2, FrontOf
    <3>2. \A i \in 1..(n - 1) :
            Copies[i] = [r \in Reg |-> SubSeq(reg[r], 1, frames[i].len[r])]
      BY <1>1 DEF Copies
    <3> QED
      BY <3>1, <3>2
  <2> QED
    BY <2>1, <2>3
<1> QED
  BY <1>2, <1>5, <1>6, <1>7, <1>8

-----------------------------------------------------------------------------
(* Each action keeps the invariant and is a step of Transactions *)

\* The step Transactions sees.
TxnStep == [Txn!Next]_(Txn!vars)

\* The empty registries satisfy the invariant.
LEMMA InitIInv == Init => IInv
<1> SUFFICES ASSUME Init PROVE IInv
  OBVIOUS
<1>1. TypeOK
  BY RegistriesAssumption
     DEF Init, TypeOK, Empty, Regs, Entries, Reg, Noted
<1>2. TailsParallel
  BY DEF Init, TailsParallel, Empty, Reg, Noted
<1>3. Len(frames) = 0
  BY DEF Init
<1>4. FramesOK
  BY <1>3 DEF FramesOK, SnapshotsNest, NotedTogether, CopiesAgree
<1> QED
  BY <1>1, <1>2, <1>4 DEF IInv

\* A step that only registers is an Add.
LEMMA AddStep ==
    ASSUME IInv, TypeOK', TailsParallel', Keeps(reg, reg', Lengths(reg)),
           frames' = frames
    PROVE  IInv' /\ TxnStep
<1>1. reg \in Regs /\ reg' \in Regs
  BY DEF IInv, TypeOK
<1>2. FramesOK' /\ Copies' = Copies
  BY <1>1, AddKeepsFrames
<1>3. \A r \in Reg : IsPrefix(reg[r], reg'[r])
  <2> SUFFICES ASSUME NEW r \in Reg PROVE IsPrefix(reg[r], reg'[r])
    OBVIOUS
  <2>1. reg[r] \in Seq(Nat)
    BY <1>1 DEF Regs, Entries
  <2>2. SubSeq(reg[r], 1, Len(reg[r])) = SubSeq(reg'[r], 1, Len(reg[r]))
    BY <2>1 DEF Keeps, Lengths
  <2> QED
    BY <2>2 DEF IsPrefix, Keeps, Lengths
<1>4. reg' \in Txn!Contents
  BY <1>1 DEF Txn!Contents, Regs, Entries
<1>5. Txn!Add
  BY <1>2, <1>3, <1>4 DEF Txn!Add, Txn!IsPrefix, IsPrefix
<1> QED
  BY <1>2, <1>5 DEF IInv, TxnStep, Txn!Next

\* An end that gives back the registries in R is an End(R).
LEMMA EndStep ==
    ASSUME IInv, TypeOK', TailsParallel', Len(frames) > 0,
           Keeps(reg, reg', Top.len), frames' = Front(frames),
           NEW R \in SUBSET Reg,
           \A r \in Reg \ R : reg'[r] = reg[r],
           \A r \in R : reg'[r] = SubSeq(reg[r], 1, Top.len[r])
    PROVE  IInv' /\ TxnStep
<1>1. reg \in Regs /\ reg' \in Regs /\ frames \in Seq(Frame)
  BY DEF IInv, TypeOK
<1>2. FramesOK' /\ Copies' = Front(Copies)
  BY <1>1, EndKeepsFrames
<1>3. Copies \in Seq([Reg -> Entries]) /\ Len(Copies) = Len(frames)
  BY CopiesType
<1>4. Copies # << >>
  BY <1>3
<1>5. Last(Copies) = [r \in Reg |-> SubSeq(reg[r], 1, Top.len[r])]
  <2>1. Len(frames) \in 1..Len(frames)
    BY <1>1
  <2>2. Last(Copies) = Copies[Len(frames)] /\ Top = frames[Len(frames)]
    BY <1>3 DEF Last, Top
  <2> QED
    BY <2>1, <2>2 DEF Copies
<1>6. reg' = [r \in Reg |-> IF r \in R THEN Last(Copies)[r] ELSE reg[r]]
  <2>1. reg' = [r \in Reg |-> reg'[r]]
    BY <1>1 DEF Regs
  <2> QED
    BY <1>5, <2>1
<1>7. Txn!End(R)
  BY <1>2, <1>4, <1>6 DEF Txn!End, Txn!Last, Last, Txn!Front, Front
<1> QED
  BY <1>2, <1>7 DEF IInv, TxnStep, Txn!Next

-----------------------------------------------------------------------------
(* The actions *)

\* What Frame says of the innermost open attempt.
LEMMA TopFacts ==
    ASSUME IInv, Len(frames) > 0
    PROVE  /\ Top \in Frame
           /\ Top = frames[Len(frames)]
           /\ Len(frames) \in 1..Len(frames)
           /\ Top.len["tails"] = Top.len["footnotes"]
           /\ \A r \in Reg : Top.len[r] \in Nat /\ Top.len[r] <= Len(reg[r])
<1>1. frames \in Seq(Frame)
  BY DEF IInv, TypeOK
<1>2. Top = frames[Len(frames)] /\ Len(frames) \in 1..Len(frames)
  BY <1>1 DEF Top, Last
<1>3. Top \in Frame
  BY <1>1, <1>2
<1>4. \A r \in Reg : Top.len[r] \in Nat
  BY <1>3 DEF Frame
<1> QED
  BY <1>2, <1>3, <1>4 DEF IInv, FramesOK, SnapshotsNest, NotedTogether

\* Both ways of truncating give back prefixes of what the attempt recorded.
LEMMA TruncateKeeps ==
    ASSUME IInv, Len(frames) > 0,
           NEW R \in SUBSET Reg, NEW new,
           new = [r \in Reg |-> IF r \in R THEN Truncated(reg[r], Top.len[r])
                                           ELSE reg[r]]
    PROVE  /\ new \in Regs
           /\ Keeps(reg, new, Top.len)
           /\ \A r \in Reg \ R : new[r] = reg[r]
           /\ \A r \in R : /\ new[r] = SubSeq(reg[r], 1, Top.len[r])
                            /\ Len(new[r]) = Top.len[r]
<1>1. reg \in Regs
  BY DEF IInv, TypeOK
<1>2. ASSUME NEW r \in Reg
      PROVE  /\ new[r] \in Entries
             /\ Top.len[r] <= Len(new[r])
             /\ SubSeq(new[r], 1, Top.len[r]) = SubSeq(reg[r], 1, Top.len[r])
             /\ r \notin R => new[r] = reg[r]
             /\ r \in R => /\ new[r] = SubSeq(reg[r], 1, Top.len[r])
                           /\ Len(new[r]) = Top.len[r]
  <2>1. reg[r] \in Entries
    BY <1>1 DEF Regs
  <2>2. Top.len[r] \in Nat /\ Top.len[r] <= Len(reg[r])
    BY TopFacts
  <2>3. CASE r \notin R
    BY <2>1, <2>2, <2>3
  <2>4. CASE r \in R
    <3>1. new[r] = Truncated(reg[r], Top.len[r])
      BY <2>4
    <3>2. /\ new[r] \in Entries
          /\ new[r] = SubSeq(reg[r], 1, Top.len[r])
          /\ Len(new[r]) = Top.len[r]
      BY <2>1, <2>2, <3>1, TruncatedPrefix
    <3>3. SubSeq(new[r], 1, Top.len[r]) = SubSeq(reg[r], 1, Top.len[r])
      BY <2>1, <2>2, <3>2, PrefixOfPrefix
    <3> QED
      BY <2>2, <2>4, <3>2, <3>3
  <2> QED
    BY <2>3, <2>4
<1>3. new \in Regs
  BY <1>2 DEF Regs
<1>4. Keeps(reg, new, Top.len)
  BY <1>2 DEF Keeps
<1> QED
  BY <1>2, <1>3, <1>4

\* Dropping the clone or taking over its elements keeps the types.
LEMMA EndTypes ==
    ASSUME IInv, Len(frames) > 0, Adopt \/ Drop, reg' \in Regs,
           orphans' \subseteq 1..Len(reg'["footnotes"])
    PROVE  TypeOK' /\ frames' = Front(frames)
<1>1. Top \in Frame
  BY TopFacts
<1>2. frames' = Front(frames) /\ frames' \in Seq(Frame)
  BY FrontOf DEF IInv, TypeOK, Adopt, Drop
<1>3. tree \in Seq(Element) /\ Top.tree \in Seq(Element)
  BY <1>1 DEF IInv, TypeOK, Frame
<1>4. tree' \in Seq(Element)
  <2>1. Top.tree \o tree \in Seq(Element)
    BY <1>3
  <2>2. tree' = Top.tree \o tree \/ tree' = Top.tree
    BY DEF Adopt, Drop
  <2> QED
    BY <1>3, <2>1, <2>2
<1>5. block' \in {"unset", "set"}
  BY <1>1 DEF IInv, TypeOK, Adopt, Drop, Frame
<1>6. serial' \in Nat /\ page' \in {"parsing", "done"}
  BY DEF IInv, TypeOK, Adopt, Drop
<1> QED
  BY <1>2, <1>4, <1>5, <1>6 DEF TypeOK

\* An end that gives back the registries in R.
LEMMA EndGivingBack ==
    ASSUME IInv, Len(frames) > 0, Adopt \/ Drop,
           orphans' \subseteq 1..Len(reg'["footnotes"]),
           NEW R \in SUBSET Reg, "tails" \in R <=> "footnotes" \in R,
           reg' = [r \in Reg |-> IF r \in R THEN Truncated(reg[r], Top.len[r])
                                            ELSE reg[r]]
    PROVE  IInv' /\ TxnStep
<1>1. /\ reg' \in Regs
      /\ Keeps(reg, reg', Top.len)
      /\ \A r \in Reg \ R : reg'[r] = reg[r]
      /\ \A r \in R : /\ reg'[r] = SubSeq(reg[r], 1, Top.len[r])
                       /\ Len(reg'[r]) = Top.len[r]
  BY TruncateKeeps
<1>2. TypeOK' /\ frames' = Front(frames)
  BY <1>1, EndTypes
<1>3. TailsParallel'
  <2>1. "tails" \in Reg /\ "footnotes" \in Reg
    BY DEF Reg, Noted
  <2> QED
    BY <1>1, <2>1, TopFacts DEF TailsParallel, IInv
<1> QED
  BY <1>1, <1>2, <1>3, EndStep

\* An end that gives nothing back.
LEMMA EndGivingNothing ==
    ASSUME IInv, Len(frames) > 0, Adopt \/ Drop, reg' = reg,
           orphans' \subseteq 1..Len(reg'["footnotes"])
    PROVE  IInv' /\ TxnStep
<1> DEFINE R == {}
<1>1. R \in SUBSET Reg /\ ("tails" \in R <=> "footnotes" \in R)
  OBVIOUS
<1>2. reg' = [r \in Reg |-> IF r \in R THEN Truncated(reg[r], Top.len[r])
                                       ELSE reg[r]]
  BY DEF IInv, TypeOK, Regs
<1> HIDE DEF R
<1> QED
  BY <1>1, <1>2, EndGivingBack

\* Registering anything but a footnote is an Add.
LEMMA PushStep ==
    ASSUME IInv, NEW r \in Other, Push(r)
    PROVE  IInv' /\ TxnStep
<1>1. /\ reg \in Regs /\ serial' \in Nat /\ r \in Reg
      /\ reg' = [reg EXCEPT ![r] = Append(reg[r], serial')]
  BY DEF IInv, TypeOK, Push, Registers, Reg
<1>2. reg[r] \in Entries
  BY <1>1 DEF Regs
<1>3. Append(reg[r], serial') \in Entries /\ Len(Append(reg[r], serial')) = Len(reg[r]) + 1
  BY <1>1, <1>2 DEF Entries
<1>4. reg' \in Regs
  BY <1>1, <1>3 DEF Regs
<1>5. TypeOK'
  <2>1. orphans' \subseteq 1..Len(reg'["footnotes"])
    BY <1>1, RegistriesAssumption DEF IInv, TypeOK, Push, Regs, Reg, Noted
  <2> QED
    BY <1>1, <1>4, <2>1 DEF IInv, TypeOK, Push
<1>6. TailsParallel'
  BY <1>1, RegistriesAssumption DEF IInv, TailsParallel, Regs, Reg, Noted
<1>7. Keeps(reg, reg', Lengths(reg))
  <2> SUFFICES ASSUME NEW q \in Reg
               PROVE  /\ Len(reg[q]) <= Len(reg'[q])
                      /\ SubSeq(reg'[q], 1, Len(reg[q])) = SubSeq(reg[q], 1, Len(reg[q]))
    BY DEF Keeps, Lengths
  <2>1. reg[q] \in Entries /\ Len(reg[q]) \in Nat
    BY <1>1 DEF Regs, Entries
  <2>2. CASE q = r
    BY <1>1, <1>3, <2>1, <2>2, PrefixOfAppend DEF Regs
  <2>3. CASE q # r
    BY <1>1, <2>1, <2>3 DEF Regs
  <2> QED
    BY <2>2, <2>3
<1>8. frames' = frames
  BY DEF Push
<1> QED
  BY <1>5, <1>6, <1>7, <1>8, AddStep

\* A note's row tail, empty at first and then set, is one more entry.
LEMMA TailSlot ==
    ASSUME NEW s \in Entries, NEW x \in Nat
    PROVE  [Append(s, NoTail) EXCEPT ![Len(s) + 1] = x] = Append(s, x)
<1> DEFINE n == Len(s) + 1
<1>1. s \in Seq(Nat) /\ NoTail \in Nat /\ Len(s) \in Nat
  BY DEF Entries, NoTail
<1>2. \A y \in Nat : /\ Append(s, y) = [i \in 1..n |-> Append(s, y)[i]]
                     /\ Append(s, y)[n] = y
                     /\ \A i \in 1..n : i # n => Append(s, y)[i] = s[i]
  <2> SUFFICES ASSUME NEW y \in Nat
               PROVE  /\ Append(s, y) = [i \in 1..n |-> Append(s, y)[i]]
                      /\ Append(s, y)[n] = y
                      /\ \A i \in 1..n : i # n => Append(s, y)[i] = s[i]
    OBVIOUS
  <2>1. Append(s, y) \in Seq(Nat) /\ Len(Append(s, y)) = n
    BY <1>1
  <2>2. Append(s, y)[n] = y
    BY <1>1
  <2>3. \A i \in 1..n : i # n => Append(s, y)[i] = s[i]
    BY <1>1
  <2>4. Append(s, y) = [i \in 1..n |-> Append(s, y)[i]]
    <3> DEFINE a == Append(s, y)
    <3>1. a \in Seq(Nat) /\ Len(a) = n
      BY <2>1
    <3> HIDE DEF a
    <3>2. a = [i \in 1..n |-> a[i]]
      BY <3>1, SeqIsFunction
    <3> QED
      BY <3>2 DEF a
  <2> QED
    BY <2>1, <2>2, <2>3, <2>4
<1>3. [Append(s, NoTail) EXCEPT ![n] = x]
        = [i \in 1..n |-> IF i = n THEN x ELSE Append(s, NoTail)[i]]
  BY <1>1, <1>2
<1>4. Append(s, x) = [i \in 1..n |-> IF i = n THEN x ELSE s[i]]
  BY <1>2
<1> HIDE DEF n
<1>5. \A i \in 1..n : (IF i = n THEN x ELSE Append(s, NoTail)[i])
                       = (IF i = n THEN x ELSE s[i])
  BY <1>1, <1>2
<1> QED
  BY <1>3, <1>4, <1>5 DEF n

\* Registering a footnote with its row tail is an Add.
LEMMA PushFootnoteStep ==
    ASSUME IInv, NEW tail \in {NoTail, serial + 1}, PushFootnote(tail)
    PROVE  IInv' /\ TxnStep
<1>1. /\ reg \in Regs /\ serial' \in Nat /\ tail \in Nat /\ tree \in Seq(Element)
      /\ "footnotes" \in Reg /\ "tails" \in Reg
  BY DEF IInv, TypeOK, PushFootnote, Registers, NoTail, Reg, Noted
<1>2. /\ reg["footnotes"] \in Entries /\ Len(reg["footnotes"]) \in Nat
      /\ reg["tails"] \in Entries
      /\ Len(reg["footnotes"]) = Len(reg["tails"])
  BY <1>1 DEF IInv, TailsParallel, Regs, Entries
<1>3. reg' = [reg EXCEPT !["footnotes"] = Append(reg["footnotes"], serial'),
                         !["tails"] = Append(reg["tails"], tail)]
  <2>1. [Append(reg["tails"], NoTail) EXCEPT ![Len(reg["footnotes"]) + 1] = tail]
          = Append(reg["tails"], tail)
    BY <1>1, <1>2, TailSlot
  <2> QED
    BY <1>1, <2>1 DEF PushFootnote, Regs
<1>4. /\ Append(reg["footnotes"], serial') \in Entries
      /\ Len(Append(reg["footnotes"], serial')) = Len(reg["footnotes"]) + 1
      /\ Append(reg["tails"], tail) \in Entries
      /\ Len(Append(reg["tails"], tail)) = Len(reg["tails"]) + 1
  BY <1>1, <1>2 DEF Entries
<1>5. reg' \in Regs
  BY <1>1, <1>3, <1>4 DEF Regs
<1>6. tree' \in Seq(Element)
  <2>1. Ref(Len(reg["footnotes"]) + 1) \in Element
    BY <1>2 DEF Ref, Element
  <2>2. tree' = Append(tree, Ref(Len(reg["footnotes"]) + 1))
    BY DEF PushFootnote
  <2> QED
    BY <1>1, <2>1, <2>2
<1>7. TypeOK'
  <2>1. orphans' = orphans /\ orphans \subseteq 1..Len(reg["footnotes"])
    BY DEF IInv, TypeOK, PushFootnote
  <2>2. reg'["footnotes"] = Append(reg["footnotes"], serial')
    BY <1>1, <1>3 DEF Regs
  <2>3. orphans' \subseteq 1..Len(reg'["footnotes"])
    BY <1>2, <1>4, <2>1, <2>2
  <2> QED
    BY <1>1, <1>5, <1>6, <2>3 DEF IInv, TypeOK, PushFootnote
<1>8. TailsParallel'
  BY <1>1, <1>2, <1>3, <1>4 DEF TailsParallel, Regs
<1>9. Keeps(reg, reg', Lengths(reg))
  <2> SUFFICES ASSUME NEW q \in Reg
               PROVE  /\ Len(reg[q]) <= Len(reg'[q])
                      /\ SubSeq(reg'[q], 1, Len(reg[q])) = SubSeq(reg[q], 1, Len(reg[q]))
    BY DEF Keeps, Lengths
  <2>1. reg[q] \in Entries /\ Len(reg[q]) \in Nat
    BY <1>1 DEF Regs, Entries
  <2>2. CASE q \in {"footnotes", "tails"}
    <3>1. PICK x \in Nat : reg'[q] = Append(reg[q], x)
      BY <1>1, <1>3, <2>2 DEF Regs
    <3>2. Len(Append(reg[q], x)) = Len(reg[q]) + 1
      BY <2>1 DEF Entries
    <3>3. SubSeq(Append(reg[q], x), 1, Len(reg[q])) = SubSeq(reg[q], 1, Len(reg[q]))
      BY <2>1, PrefixOfAppend
    <3> QED
      BY <2>1, <3>1, <3>2, <3>3
  <2>3. CASE q \notin {"footnotes", "tails"}
    BY <1>1, <1>3, <2>1, <2>3 DEF Regs
  <2> QED
    BY <2>2, <2>3
<1>10. frames' = frames
  BY DEF PushFootnote
<1> QED
  BY <1>7, <1>8, <1>9, <1>10, AddStep

\* Steps that leave the registries and the attempts alone.
LEMMA QuietStep ==
    ASSUME IInv, PlaceFootnoteBlock \/ FinishPage
    PROVE  IInv' /\ TxnStep
<1>1. /\ reg' = reg /\ frames' = frames /\ serial' = serial
      /\ orphans' = orphans
  BY DEF PlaceFootnoteBlock, FinishPage
<1>2. reg \in Regs /\ tree \in Seq(Element)
  BY DEF IInv, TypeOK
<1>3. reg["tails"] \in Entries
  BY <1>2 DEF Regs, Reg, Noted
<1>4. FootnoteBlock \in Element /\ RowTails(reg["tails"]) \in Element
  BY <1>3 DEF FootnoteBlock, RowTails, Element
<1>5. tree' \in Seq(Element)
  <2>1. CASE PlaceFootnoteBlock
    BY <1>2, <1>4, <2>1 DEF PlaceFootnoteBlock
  <2>2. CASE FinishPage
    BY <1>2, <1>4, <2>2 DEF FinishPage
  <2> QED
    BY <2>1, <2>2
<1>6. block' \in {"unset", "set"} /\ page' \in {"parsing", "done"}
  BY DEF IInv, TypeOK, PlaceFootnoteBlock, FinishPage
<1>7. TypeOK'
  BY <1>1, <1>5, <1>6 DEF IInv, TypeOK
<1>8. TailsParallel' /\ FramesOK'
  BY <1>1 DEF IInv, FramesOK, TailsParallel, SnapshotsNest, NotedTogether,
              CopiesAgree
<1>9. TxnStep
  BY <1>1 DEF TxnStep, Txn!vars, Copies
<1> QED
  BY <1>7, <1>8, <1>9 DEF IInv

\* An attempt begins: its lengths stand for a copy of the registries.
LEMMA BeginStep ==
    ASSUME IInv, NEW kind \in Kinds, Begin(kind)
    PROVE  IInv' /\ TxnStep
<1> DEFINE n == Len(frames)
           f == [kind |-> kind, len |-> Lengths(reg),
                 copy |-> IF kind = "fuse" THEN reg ELSE Empty,
                 tree |-> tree, block |-> block]
<1>1. /\ reg \in Regs /\ frames \in Seq(Frame) /\ n \in Nat
      /\ reg' = reg /\ frames' = Append(frames, f)
  BY DEF IInv, TypeOK, Begin
<1>2. \A r \in Reg : /\ reg[r] \in Entries
                     /\ Len(reg[r]) \in Nat
                     /\ SubSeq(reg[r], 1, Len(reg[r])) = reg[r]
  BY <1>1 DEF Regs, Entries
<1>3. f \in Frame
  <2>1. Lengths(reg) \in [Reg -> Nat]
    BY <1>2 DEF Lengths
  <2>2. Empty \in Regs
    BY DEF Empty, Regs, Entries
  <2>3. (IF kind = "fuse" THEN reg ELSE Empty) \in Regs
    BY <1>1, <2>2
  <2>4. tree \in Seq(Element) /\ block \in {"unset", "set"}
    BY DEF IInv, TypeOK
  <2> QED
    BY <2>1, <2>3, <2>4 DEF Frame
<1>4. /\ f.len = Lengths(reg)
      /\ kind = "fuse" => f.copy = reg
      /\ f.kind = kind
  OBVIOUS
<1> HIDE DEF f
<1>5. /\ frames' \in Seq(Frame)
      /\ Len(frames') = n + 1
      /\ frames'[n + 1] = f
      /\ \A i \in 1..n : frames'[i] = frames[i]
  <2>1. Append(frames, f) \in Seq(Frame)
    BY <1>1, <1>3
  <2>2. Len(Append(frames, f)) = n + 1
    BY <1>1
  <2>3. Append(frames, f)[n + 1] = f
    BY <1>1
  <2>4. \A i \in 1..n : Append(frames, f)[i] = frames[i]
    BY <1>1
  <2> QED
    BY <1>1, <2>1, <2>2, <2>3, <2>4
<1>6. TypeOK'
  <2>1. tree' \in Seq(Element)
    BY DEF Begin
  <2> QED
    BY <1>1, <1>5, <2>1 DEF IInv, TypeOK, Begin
<1>7. TailsParallel'
  BY <1>1 DEF IInv, TailsParallel
<1>8. SnapshotsNest'
  <2> SUFFICES ASSUME NEW i \in 1..(n + 1), NEW r \in Reg, NEW j \in 1..i
               PROVE  /\ frames'[i].len[r] <= Len(reg[r])
                      /\ frames'[j].len[r] <= frames'[i].len[r]
    BY <1>1, <1>5 DEF SnapshotsNest
  <2>1. \A k \in 1..n : frames[k].len[r] <= Len(reg[r])
    BY DEF IInv, FramesOK, SnapshotsNest
  <2>2. f.len[r] = Len(reg[r]) /\ Len(reg[r]) \in Nat
    BY <1>2, <1>4 DEF Lengths
  <2>3. CASE i = n + 1
    <3>1. j \in 1..n \/ j = n + 1
      BY <1>1, <2>3
    <3>2. frames'[i].len[r] = Len(reg[r])
      BY <1>5, <2>2, <2>3
    <3>3. frames'[j].len[r] <= Len(reg[r])
      BY <1>5, <2>1, <2>2, <3>1
    <3> QED
      BY <2>2, <3>2, <3>3
  <2>4. CASE i # n + 1
    <3>1. i \in 1..n /\ j \in 1..n
      BY <1>1, <2>4
    <3>2. frames[j].len[r] <= frames[i].len[r]
      BY <3>1 DEF IInv, FramesOK, SnapshotsNest
    <3> QED
      BY <1>5, <2>1, <3>1, <3>2
  <2> QED
    BY <2>3, <2>4
<1>9. NotedTogether'
  <2> SUFFICES ASSUME NEW i \in 1..(n + 1)
               PROVE  frames'[i].len["tails"] = frames'[i].len["footnotes"]
    BY <1>5 DEF NotedTogether
  <2>1. CASE i = n + 1
    <3>1. "tails" \in Reg /\ "footnotes" \in Reg
      BY DEF Reg, Noted
    <3> QED
      BY <1>4, <1>5, <2>1, <3>1 DEF Lengths, IInv, TailsParallel
  <2>2. CASE i # n + 1
    <3>1. i \in 1..n
      BY <1>1, <2>2
    <3> QED
      BY <1>5, <3>1 DEF IInv, FramesOK, NotedTogether
  <2> QED
    BY <2>1, <2>2
<1>10. CopiesAgree'
  <2> SUFFICES ASSUME NEW i \in 1..(n + 1), NEW r \in Reg, frames'[i].kind = "fuse"
               PROVE  frames'[i].copy[r] = SubSeq(reg[r], 1, frames'[i].len[r])
    BY <1>1, <1>5 DEF CopiesAgree
  <2>1. CASE i = n + 1
    BY <1>2, <1>4, <1>5, <2>1 DEF Lengths
  <2>2. CASE i # n + 1
    <3>1. i \in 1..n
      BY <1>1, <2>2
    <3> QED
      BY <1>5, <3>1 DEF IInv, FramesOK, CopiesAgree
  <2> QED
    BY <2>1, <2>2
<1>11. Txn!Begin
  <2>1. Copies \in Seq([Reg -> Entries]) /\ Len(Copies) = n
    BY CopiesType
  <2>2. reg \in [Reg -> Entries] /\ reg = [r \in Reg |-> reg[r]]
    BY <1>1 DEF Regs
  <2>3. Copies' = [i \in 1..(n + 1) |->
                     [r \in Reg |-> SubSeq(reg[r], 1, frames'[i].len[r])]]
    BY <1>1, <1>5 DEF Copies
  <2>4. Append(Copies, reg) = [i \in 1..(n + 1) |-> Append(Copies, reg)[i]]
    <3> DEFINE a == Append(Copies, reg)
    <3>1. a \in Seq([Reg -> Entries])
      BY <2>1, <2>2
    <3>2. Len(a) = n + 1
      BY <2>1
    <3> HIDE DEF a
    <3>3. a = [i \in 1..(n + 1) |-> a[i]]
      BY <3>1, <3>2, SeqIsFunction
    <3> QED
      BY <3>3 DEF a
  <2>5. ASSUME NEW i \in 1..(n + 1)
        PROVE  Append(Copies, reg)[i]
                 = [r \in Reg |-> SubSeq(reg[r], 1, frames'[i].len[r])]
    <3>1. CASE i = n + 1
      <4>1. Append(Copies, reg)[i] = reg
        BY <2>1, <3>1
      <4>2. \A r \in Reg : SubSeq(reg[r], 1, frames'[i].len[r]) = reg[r]
        BY <1>2, <1>4, <1>5, <3>1 DEF Lengths
      <4> QED
        BY <2>2, <4>1, <4>2
    <3>2. CASE i # n + 1
      <4>1. i \in 1..n
        BY <1>1, <3>2
      <4>2. Append(Copies, reg)[i] = Copies[i]
        BY <2>1, <4>1
      <4> QED
        BY <1>5, <4>1, <4>2 DEF Copies
    <3> QED
      BY <3>1, <3>2
  <2>6. Copies' = Append(Copies, reg)
    BY <2>3, <2>4, <2>5
  <2> QED
    BY <1>1, <2>6 DEF Txn!Begin
<1> QED
  BY <1>6, <1>7, <1>8, <1>9, <1>10, <1>11
     DEF IInv, FramesOK, TxnStep, Txn!Next

\* What is forgotten leaves footnotes that are registered.
LEMMA ForgetBounds ==
    ASSUME Forget
    PROVE  orphans' \subseteq 1..Len(reg'["footnotes"])
  BY DEF Forget

\* Fail truncates the noted registries twice, to the same length.
LEMMA FailStep ==
    ASSUME IInv, Fail
    PROVE  IInv' /\ TxnStep
<1>1. Len(frames) > 0 /\ reg \in Regs
  BY DEF IInv, TypeOK, Fail, Within
<1>2. reg' = [r \in Reg |-> IF r \in Reg THEN Truncated(reg[r], Top.len[r])
                                         ELSE reg[r]]
  <2>1. Reset(reg, Top.len) = [r \in Reg |-> Truncated(reg[r], Top.len[r])]
    BY <1>1, TopFacts DEF Reset
  <2>2. \A r \in Noted :
          Truncated(Truncated(reg[r], Top.len[r]), Top.len["footnotes"])
            = Truncated(reg[r], Top.len[r])
    <3> SUFFICES ASSUME NEW r \in Noted
                 PROVE  Truncated(Truncated(reg[r], Top.len[r]), Top.len["footnotes"])
                          = Truncated(reg[r], Top.len[r])
      OBVIOUS
    <3>1. r \in Reg /\ Top.len[r] = Top.len["footnotes"]
      BY <1>1, TopFacts DEF Reg, Noted
    <3>2. reg[r] \in Entries /\ Top.len[r] \in Nat /\ Top.len[r] <= Len(reg[r])
      BY <1>1, <3>1, TopFacts DEF Regs
    <3>3. Len(Truncated(reg[r], Top.len[r])) = Top.len[r]
      BY <3>2, TruncatedPrefix
    <3> QED
      BY <3>1, <3>2, <3>3 DEF Truncated
  <2>3. reg' = [r \in Reg |->
                  IF r \in Noted
                    THEN Truncated(Reset(reg, Top.len)[r], Top.len["footnotes"])
                    ELSE Reset(reg, Top.len)[r]]
    BY DEF Fail, TruncateFootnotes
  <2> QED
    BY <2>1, <2>2, <2>3
<1>3. Drop /\ orphans' \subseteq 1..Len(reg'["footnotes"])
  BY ForgetBounds DEF Fail
<1>4. "tails" \in Reg /\ "footnotes" \in Reg
  BY DEF Reg, Noted
<1> QED
  BY <1>1, <1>2, <1>3, <1>4, EndGivingBack

\* A probe gives back the noted registries; if it registered no footnote they
\* are what they were.
LEMMA EndProbeStep ==
    ASSUME IInv, EndProbe
    PROVE  IInv' /\ TxnStep
<1>1. /\ Len(frames) > 0 /\ reg \in Regs /\ Drop
      /\ orphans' \subseteq 1..Len(reg'["footnotes"])
  BY ForgetBounds DEF IInv, TypeOK, EndProbe, Within
<1>2. Noted \in SUBSET Reg /\ "tails" \in Noted /\ "footnotes" \in Noted
  BY DEF Reg, Noted
<1>3. \A r \in Noted : Top.len[r] = Top.len["footnotes"]
  BY <1>1, TopFacts DEF Noted
<1>4. reg' = [r \in Reg |-> IF r \in Noted THEN Truncated(reg[r], Top.len[r])
                                           ELSE reg[r]]
  <2>1. CASE Len(reg["footnotes"]) # Top.len["footnotes"]
    BY <1>3, <2>1 DEF EndProbe, TruncateFootnotes
  <2>2. CASE Len(reg["footnotes"]) = Top.len["footnotes"]
    <3>1. reg' = reg
      BY <2>2 DEF EndProbe
    <3>2. \A r \in Noted : Len(reg[r]) = Top.len[r]
      BY <1>3, <2>2 DEF IInv, TailsParallel, Noted
    <3>3. \A r \in Noted : Truncated(reg[r], Top.len[r]) = reg[r]
      <4> SUFFICES ASSUME NEW r \in Noted PROVE Truncated(reg[r], Top.len[r]) = reg[r]
        OBVIOUS
      <4>1. reg[r] \in Entries
        BY <1>1, <1>2 DEF Regs
      <4>2. ~(Top.len[r] < Len(reg[r]))
        BY <3>2, <4>1 DEF Entries
      <4> QED
        BY <4>2 DEF Truncated
    <3>4. reg = [r \in Reg |-> reg[r]]
      BY <1>1 DEF Regs
    <3> QED
      BY <3>1, <3>3, <3>4
  <2> QED
    BY <2>1, <2>2
<1> QED
  BY <1>1, <1>2, <1>4, EndGivingBack

\* A discarded fuse puts its copies back, which are the prefixes its lengths
\* stand for.
LEMMA UnfuseStep ==
    ASSUME IInv, Unfuse
    PROVE  IInv' /\ TxnStep
<1>1. /\ Len(frames) > 0 /\ reg \in Regs /\ Drop /\ Top.kind = "fuse"
      /\ orphans' \subseteq 1..Len(reg'["footnotes"])
  BY ForgetBounds DEF IInv, TypeOK, Unfuse, Within
<1>2. Top.copy = [r \in Reg |-> Top.copy[r]]
  BY <1>1, TopFacts DEF Frame, Regs
<1>3. \A r \in Reg : Top.copy[r] = Truncated(reg[r], Top.len[r])
  <2> SUFFICES ASSUME NEW r \in Reg
               PROVE  Top.copy[r] = Truncated(reg[r], Top.len[r])
    OBVIOUS
  <2>1. reg[r] \in Entries /\ Top.len[r] \in Nat /\ Top.len[r] <= Len(reg[r])
    BY <1>1, TopFacts DEF Regs
  <2>2. Truncated(reg[r], Top.len[r]) = SubSeq(reg[r], 1, Top.len[r])
    BY <2>1, TruncatedPrefix
  <2>3. Top.copy[r] = SubSeq(reg[r], 1, Top.len[r])
    BY <1>1, TopFacts DEF IInv, FramesOK, CopiesAgree
  <2> QED
    BY <2>2, <2>3
<1>4. reg' = [r \in Reg |-> IF r \in Reg THEN Truncated(reg[r], Top.len[r])
                                         ELSE reg[r]]
  BY <1>2, <1>3 DEF Unfuse
<1>5. "tails" \in Reg /\ "footnotes" \in Reg
  BY DEF Reg, Noted
<1> QED
  BY <1>1, <1>4, <1>5, EndGivingBack

\* A clone that is taken over leaves the registries alone.
LEMMA KeepStep ==
    ASSUME IInv, Succeed \/ Fuse
    PROVE  IInv' /\ TxnStep
<1>1. Len(frames) > 0 /\ reg \in Regs /\ Adopt /\ reg' = reg /\ orphans' = orphans
  BY DEF IInv, TypeOK, Succeed, Fuse, Within, Adopt
<1>2. orphans' \subseteq 1..Len(reg'["footnotes"])
  <2>1. orphans \subseteq 1..Len(reg["footnotes"])
    BY DEF IInv, TypeOK
  <2> QED
    BY <1>1, <2>1
<1> QED
  BY <1>1, <1>2, EndGivingNothing

\* A trial that is dropped leaves them alone as well: to the registries it is an
\* attempt that succeeded.
LEMMA EndTrialStep ==
    ASSUME IInv, EndTrial
    PROVE  IInv' /\ TxnStep
<1>1. Len(frames) > 0 /\ reg \in Regs /\ Drop /\ reg' = reg
  BY DEF IInv, TypeOK, EndTrial, Within
<1>2. orphans' \subseteq 1..Len(reg'["footnotes"])
  <2>1. "footnotes" \in Reg /\ Top.len["footnotes"] \in Nat
    BY <1>1, TopFacts DEF Reg, Noted
  <2>2. Len(reg["footnotes"]) \in Nat
    BY <1>1, <2>1 DEF Regs, Entries
  <2>3. orphans \subseteq 1..Len(reg["footnotes"])
    BY DEF IInv, TypeOK
  <2>4. (Top.len["footnotes"] + 1)..Len(reg["footnotes"])
          \subseteq 1..Len(reg["footnotes"])
    BY <2>1, <2>2
  <2>5. orphans' = orphans \cup ((Top.len["footnotes"] + 1)..Len(reg["footnotes"]))
    BY DEF EndTrial
  <2> QED
    BY <1>1, <2>3, <2>4, <2>5
<1> QED
  BY <1>1, <1>2, EndGivingNothing

\* Every action keeps the invariant and is a step of Transactions.
LEMMA NextIInv == IInv /\ [Next]_vars => IInv' /\ TxnStep
<1> SUFFICES ASSUME IInv, [Next]_vars PROVE IInv' /\ TxnStep
  OBVIOUS
<1>1. CASE \E r \in Other : Push(r)
  BY <1>1, PushStep
<1>2. CASE \E tail \in {NoTail, serial + 1} : PushFootnote(tail)
  BY <1>2, PushFootnoteStep
<1>3. CASE PlaceFootnoteBlock \/ FinishPage
  BY <1>3, QuietStep
<1>4. CASE \E kind \in Kinds : Begin(kind)
  BY <1>4, BeginStep
<1>5. CASE Succeed \/ Fuse
  BY <1>5, KeepStep
<1>6. CASE Fail
  BY <1>6, FailStep
<1>7. CASE EndProbe
  BY <1>7, EndProbeStep
<1>8. CASE Unfuse
  BY <1>8, UnfuseStep
<1>10. CASE EndTrial
  BY <1>10, EndTrialStep
<1>9. CASE UNCHANGED vars
  BY <1>9 DEF vars, IInv, TypeOK, TailsParallel, FramesOK, SnapshotsNest,
              NotedTogether, CopiesAgree, TxnStep, Txn!vars, Copies
<1> QED
  BY <1>1, <1>2, <1>3, <1>4, <1>5, <1>6, <1>7, <1>8, <1>9, <1>10 DEF Next

-----------------------------------------------------------------------------

\* The inductive invariant holds throughout.
LEMMA Invariance == Spec => []IInv
<1>1. Init => IInv
  BY InitIInv
<1>2. IInv /\ [Next]_vars => IInv'
  BY NextIInv
<1> QED
  BY <1>1, <1>2, PTL DEF Spec

\* The registries, the tree and the open attempts keep their types.
THEOREM TypeCorrect == Spec => []TypeOK
<1>1. IInv => TypeOK
  BY DEF IInv
<1> QED
  BY <1>1, Invariance, PTL

\* No attempt, however its inner attempts, probes and fuses end, finds the
\* registries shorter than the lengths it recorded (reset_mutable_state,
\* truncate_footnotes).
THEOREM StartsSurvive == Spec => []SnapshotsNest
<1>1. IInv => SnapshotsNest
  BY DEF IInv, FramesOK
<1> QED
  BY <1>1, Invariance, PTL

\* Every footnote has its row tail slot, so set_footnote_row_tail's index is in
\* range and one recorded length serves for both registries.
THEOREM SlotsPaired == Spec => []TailsParallel
<1>1. IInv => TailsParallel
  BY DEF IInv
<1> QED
  BY <1>1, Invariance, PTL

\* The parser's length snapshots implement nested transactions on the
\* registries: every attempt that ends gives back exactly what it is meant to
\* give back, however deep the nesting and whatever the inner attempts did.
THEOREM LengthsAreCopies == Spec => Transactional
<1>1. Init => Txn!Init
  <2> SUFFICES ASSUME Init PROVE Txn!Init
    OBVIOUS
  <2>1. Copies = << >>
    BY DEF Init, Copies
  <2> QED
    BY <2>1 DEF Init, Empty, Txn!Init
<1>2. IInv /\ [Next]_vars => [Txn!Next]_(Txn!vars)
  BY NextIInv DEF TxnStep
<1> QED
  BY <1>1, <1>2, Invariance, PTL DEF Spec, Transactional, Txn!Spec


-----------------------------------------------------------------------------
(* The trees of the open parsers and the registries.  A parser is at a mark: *)
(* so many footnotes, and a footnote block or none.  Its elements lead from  *)
(* the mark it began at to the one where the next parser began.              *)

Mark == [notes : Nat, block : {"unset", "set"}]

\* Where parser k + 1 began.
Start(fs, k) ==
    IF k = 0 THEN [notes |-> 0, block |-> "unset"]
    ELSE [notes |-> fs[k].len["footnotes"], block |-> fs[k].block]

Now == [notes |-> Len(reg["footnotes"]), block |-> block]

IsRef(e, i) == e.kind = "footnote" /\ e.index = i

\* The references in s are those to the footnotes after lo up to hi, in order, but
\* for the ones that are lost.
Counts(lost, s, lo, hi) ==
    /\ lo <= hi
    /\ \A m \in DOMAIN s :
          s[m].kind = "footnote" =>
             lo < s[m].index /\ s[m].index <= hi /\ s[m].index \notin lost
    /\ \A i \in ((lo + 1)..hi) \ lost : \E m \in DOMAIN s : IsRef(s[m], i)
    /\ \A m, q \in DOMAIN s :
          s[m].kind = "footnote" /\ s[q].kind = "footnote" /\ m < q
             => s[m].index < s[q].index

Never(s, kind) == \A m \in DOMAIN s : s[m].kind # kind

Once(s, kind) ==
    \E m \in DOMAIN s : /\ s[m].kind = kind
                        /\ \A q \in DOMAIN s : s[q].kind = kind => q = m

\* Where the flag changes a block was put, with its row tails, and nowhere else.
Prints(s, from, to) ==
    IF from = to THEN Never(s, "block") /\ Never(s, "tails")
    ELSE from = "unset" /\ Once(s, "block") /\ Once(s, "tails")

Leads(lost, s, from, to) ==
    /\ Counts(lost, s, from.notes, to.notes)
    /\ Prints(s, from.block, to.block)

\* A flag that an open attempt found set is still set.
FlagsKept(fs, now) ==
    \A k \in DOMAIN fs :
        fs[k].block = "set" =>
            now.block = "set" /\ \A j \in k..Len(fs) : fs[j].block = "set"

Consistent(lost, fs, tr, now) ==
    /\ \A k \in DOMAIN fs : Leads(lost, fs[k].tree, Start(fs, k - 1), Start(fs, k))
    /\ Leads(lost, tr, Start(fs, Len(fs)), now)
    /\ FlagsKept(fs, now)

\* A finished page printed the row tails in its block or at its end.
Finished(lost, tr, now) ==
    /\ Counts(lost, tr, 0, now.notes)
    /\ IF now.block = "set" THEN Once(tr, "block") ELSE Never(tr, "block")
    /\ Once(tr, "tails")

\* The inductive invariant behind RefsMatchFootnotes and FootnotesPrintedOnce.
TreesFit ==
    /\ page = "parsing" => Consistent(orphans, frames, tree, Now)
    /\ page = "done" => frames = << >> /\ Finished(orphans, tree, Now)


\* The elements of a concatenation.
LEMMA Joined ==
    ASSUME NEW s \in Seq(Element), NEW t \in Seq(Element)
    PROVE  /\ s \o t \in Seq(Element)
           /\ \A m \in DOMAIN s : m \in DOMAIN (s \o t) /\ (s \o t)[m] = s[m]
           /\ \A q \in DOMAIN t : /\ Len(s) + q \in DOMAIN (s \o t)
                                  /\ (s \o t)[Len(s) + q] = t[q]
           /\ \A m \in DOMAIN (s \o t) :
                 m \in DOMAIN s \/ \E q \in DOMAIN t : m = Len(s) + q
<1>1. s \o t \in Seq(Element) /\ Len(s \o t) = Len(s) + Len(t)
  OBVIOUS
<1>2. \A m \in 1..(Len(s) + Len(t)) :
         (s \o t)[m] = IF m <= Len(s) THEN s[m] ELSE t[m - Len(s)]
  OBVIOUS
<1>3. /\ DOMAIN s = 1..Len(s) /\ DOMAIN t = 1..Len(t)
      /\ DOMAIN (s \o t) = 1..(Len(s) + Len(t))
      /\ Len(s) \in Nat /\ Len(t) \in Nat
  BY <1>1
<1>4. ASSUME NEW m \in DOMAIN s
      PROVE  m \in DOMAIN (s \o t) /\ (s \o t)[m] = s[m]
  BY <1>2, <1>3
<1>5. ASSUME NEW q \in DOMAIN t
      PROVE  Len(s) + q \in DOMAIN (s \o t) /\ (s \o t)[Len(s) + q] = t[q]
  <2>1. Len(s) + q \in 1..(Len(s) + Len(t)) /\ ~(Len(s) + q <= Len(s))
    BY <1>3
  <2>2. Len(s) + q - Len(s) = q
    BY <1>3
  <2> QED
    BY <1>2, <1>3, <2>1, <2>2
<1>6. ASSUME NEW m \in DOMAIN (s \o t), m \notin DOMAIN s
      PROVE  \E q \in DOMAIN t : m = Len(s) + q
  <2>1. m - Len(s) \in DOMAIN t /\ m = Len(s) + (m - Len(s))
    BY <1>3, <1>6
  <2> QED
    BY <2>1
<1> QED
  BY <1>1, <1>4, <1>5, <1>6

\* A reference has a number.
LEMMA Numbered ==
    ASSUME NEW s \in Seq(Element), NEW m \in DOMAIN s, s[m].kind = "footnote"
    PROVE  s[m].index \in Nat
<1>1. s[m] \in Element
  OBVIOUS
<1> QED
  BY <1>1 DEF Element

\* References that go on counting.
LEMMA CountsJoin ==
    ASSUME NEW lost, NEW s \in Seq(Element), NEW t \in Seq(Element),
           NEW lo \in Nat, NEW mid \in Nat, NEW hi \in Nat,
           Counts(lost, s, lo, mid), Counts(lost, t, mid, hi)
    PROVE  Counts(lost, s \o t, lo, hi)
<1> DEFINE c == s \o t
<1>1. /\ \A m \in DOMAIN s : m \in DOMAIN c /\ c[m] = s[m]
      /\ \A q \in DOMAIN t : Len(s) + q \in DOMAIN c /\ c[Len(s) + q] = t[q]
      /\ \A m \in DOMAIN c : m \in DOMAIN s \/ \E q \in DOMAIN t : m = Len(s) + q
      /\ c \in Seq(Element)
  BY Joined
<1>2. DOMAIN s = 1..Len(s) /\ DOMAIN t = 1..Len(t) /\ Len(s) \in Nat /\ Len(t) \in Nat
  OBVIOUS
<1> HIDE DEF c
<1>3. lo <= mid /\ mid <= hi /\ lo <= hi
  BY DEF Counts
<1>4. \A m \in DOMAIN s : s[m].kind = "footnote" =>
         /\ s[m].index \in Nat /\ lo < s[m].index /\ s[m].index <= mid
         /\ s[m].index \notin lost
  BY Numbered DEF Counts
<1>5. \A q \in DOMAIN t : t[q].kind = "footnote" =>
         /\ t[q].index \in Nat /\ mid < t[q].index /\ t[q].index <= hi
         /\ t[q].index \notin lost
  BY Numbered DEF Counts
<1>6. ASSUME NEW m \in DOMAIN c, c[m].kind = "footnote"
      PROVE  lo < c[m].index /\ c[m].index <= hi /\ c[m].index \notin lost
  <2>1. CASE m \in DOMAIN s
    BY <1>1, <1>3, <1>4, <1>6, <2>1
  <2>2. CASE m \notin DOMAIN s
    <3>1. PICK q \in DOMAIN t : m = Len(s) + q
      BY <1>1, <2>2
    <3> QED
      BY <1>1, <1>3, <1>5, <1>6, <3>1
  <2> QED
    BY <2>1, <2>2
<1>7. ASSUME NEW i \in ((lo + 1)..hi) \ lost
      PROVE  \E m \in DOMAIN c : IsRef(c[m], i)
  <2>1. CASE i <= mid
    <3>1. i \in ((lo + 1)..mid) \ lost
      BY <2>1
    <3>2. PICK m \in DOMAIN s : IsRef(s[m], i)
      BY <3>1 DEF Counts
    <3> QED
      BY <1>1, <3>2
  <2>2. CASE ~(i <= mid)
    <3>1. i \in ((mid + 1)..hi) \ lost
      BY <2>2
    <3>2. PICK q \in DOMAIN t : IsRef(t[q], i)
      BY <3>1 DEF Counts
    <3> QED
      BY <1>1, <3>2
  <2> QED
    BY <2>1, <2>2
<1>8. ASSUME NEW m \in DOMAIN c, NEW q \in DOMAIN c, m < q,
             c[m].kind = "footnote", c[q].kind = "footnote"
      PROVE  c[m].index < c[q].index
  <2>1. CASE m \in DOMAIN s /\ q \in DOMAIN s
    BY <1>1, <1>8, <2>1 DEF Counts
  <2>2. CASE m \in DOMAIN s /\ q \notin DOMAIN s
    <3>1. PICK b \in DOMAIN t : q = Len(s) + b
      BY <1>1, <2>2
    <3> QED
      BY <1>1, <1>3, <1>4, <1>5, <1>8, <2>2, <3>1
  <2>3. CASE m \notin DOMAIN s
    <3>1. PICK a \in DOMAIN t : m = Len(s) + a
      BY <1>1, <2>3
    <3>2. q \notin DOMAIN s
      BY <1>2, <1>8, <3>1
    <3>3. PICK b \in DOMAIN t : q = Len(s) + b
      BY <1>1, <3>2
    <3>4. a < b
      BY <1>2, <1>8, <3>1, <3>3
    <3> QED
      BY <1>1, <1>8, <3>1, <3>3, <3>4 DEF Counts
  <2> QED
    BY <2>1, <2>2, <2>3
<1>9. Counts(lost, c, lo, hi)
  BY <1>3, <1>6, <1>7, <1>8 DEF Counts
<1> QED
  BY <1>9 DEF c

\* Elements without a reference count nothing.
LEMMA CountsNothing ==
    ASSUME NEW lost, NEW s, Never(s, "footnote"), NEW n \in Nat
    PROVE  Counts(lost, s, n, n)
  BY DEF Counts, Never

\* A reference to the next footnote counts it.
LEMMA CountsOne ==
    ASSUME NEW lost, NEW n \in Nat, n + 1 \notin lost
    PROVE  Counts(lost, <<Ref(n + 1)>>, n, n + 1)
<1> DEFINE s == <<Ref(n + 1)>>
<1>1. DOMAIN s = {1} /\ s[1].kind = "footnote" /\ s[1].index = n + 1
  BY DEF Ref
<1>2. (n + 1)..(n + 1) = {n + 1} /\ n <= n + 1 /\ n < n + 1
  OBVIOUS
<1> HIDE DEF s
<1>3. Counts(lost, s, n, n + 1)
  BY <1>1, <1>2 DEF Counts, IsRef
<1> QED
  BY <1>3 DEF s

\* Neither part has an element of this kind, or one of them has one.
LEMMA NeverJoin ==
    ASSUME NEW s \in Seq(Element), NEW t \in Seq(Element), NEW kind,
           Never(s, kind), Never(t, kind)
    PROVE  Never(s \o t, kind)
<1> DEFINE c == s \o t
<1>1. /\ \A m \in DOMAIN s : c[m] = s[m]
      /\ \A q \in DOMAIN t : c[Len(s) + q] = t[q]
      /\ \A m \in DOMAIN c : m \in DOMAIN s \/ \E q \in DOMAIN t : m = Len(s) + q
  BY Joined
<1> HIDE DEF c
<1>2. Never(c, kind)
  BY <1>1 DEF Never
<1> QED
  BY <1>2 DEF c

LEMMA OnceJoin ==
    ASSUME NEW s \in Seq(Element), NEW t \in Seq(Element), NEW kind,
           \/ Once(s, kind) /\ Never(t, kind)
           \/ Never(s, kind) /\ Once(t, kind)
    PROVE  Once(s \o t, kind)
<1> DEFINE c == s \o t
<1>1. /\ \A m \in DOMAIN s : m \in DOMAIN c /\ c[m] = s[m]
      /\ \A q \in DOMAIN t : Len(s) + q \in DOMAIN c /\ c[Len(s) + q] = t[q]
      /\ \A m \in DOMAIN c : m \in DOMAIN s \/ \E q \in DOMAIN t : m = Len(s) + q
  BY Joined
<1> HIDE DEF c
<1>2. CASE Once(s, kind) /\ Never(t, kind)
  <2>1. PICK m \in DOMAIN s : s[m].kind = kind
                             /\ \A q \in DOMAIN s : s[q].kind = kind => q = m
    BY <1>2 DEF Once
  <2>2. \A q \in DOMAIN c : c[q].kind = kind => q = m
    BY <1>1, <1>2, <2>1 DEF Never
  <2> QED
    BY <1>1, <2>1, <2>2 DEF Once, c
<1>3. CASE Never(s, kind) /\ Once(t, kind)
  <2>1. PICK m \in DOMAIN t : t[m].kind = kind
                             /\ \A q \in DOMAIN t : t[q].kind = kind => q = m
    BY <1>3 DEF Once
  <2>2. \A q \in DOMAIN c : c[q].kind = kind => q = Len(s) + m
    BY <1>1, <1>3, <2>1 DEF Never
  <2> QED
    BY <1>1, <2>1, <2>2 DEF Once, c
<1> QED
  BY <1>2, <1>3

\* The way from a mark to a second one, and on to a third.
LEMMA LeadsJoin ==
    ASSUME NEW lost, NEW s \in Seq(Element), NEW t \in Seq(Element),
           NEW a \in Mark, NEW b \in Mark, NEW c \in Mark,
           Leads(lost, s, a, b), Leads(lost, t, b, c)
    PROVE  Leads(lost, s \o t, a, c)
<1>1. Counts(lost, s \o t, a.notes, c.notes)
  BY CountsJoin DEF Leads, Mark
<1>2. Prints(s \o t, a.block, c.block)
  <2>1. CASE a.block = b.block /\ b.block = c.block
    BY <2>1, NeverJoin DEF Leads, Prints
  <2>2. CASE a.block # b.block /\ b.block = c.block
    BY <2>2, OnceJoin DEF Leads, Prints
  <2>3. CASE a.block = b.block /\ b.block # c.block
    BY <2>3, OnceJoin DEF Leads, Prints
  <2>4. CASE a.block # b.block /\ b.block # c.block
    BY <2>4 DEF Leads, Prints, Mark
  <2> QED
    BY <2>1, <2>2, <2>3, <2>4
<1> QED
  BY <1>1, <1>2 DEF Leads

\* No elements lead nowhere.
LEMMA LeadsNowhere ==
    ASSUME NEW lost, NEW a \in Mark
    PROVE  Leads(lost, << >>, a, a)
<1>1. \A kind : Never(<< >>, kind)
  BY DEF Never
<1> QED
  BY <1>1, CountsNothing DEF Leads, Prints, Mark

\* Elements that refer to nothing lead past footnotes that are lost.
LEMMA LeadsPastLost ==
    ASSUME NEW lost, NEW a \in Mark, NEW b \in Mark, a.notes <= b.notes,
           a.block = b.block, (a.notes + 1)..b.notes \subseteq lost
    PROVE  Leads(lost, << >>, a, b)
  BY DEF Leads, Counts, Prints, Never

\* Only the lost footnotes up to where the way ends matter.
LEMMA LeadsAgree ==
    ASSUME NEW lost, NEW also, NEW s \in Seq(Element), NEW a \in Mark, NEW b \in Mark,
           NEW n \in Nat, b.notes <= n, lost \cap (1..n) = also \cap (1..n),
           Leads(lost, s, a, b)
    PROVE  Leads(also, s, a, b)
<1>1. a.notes \in Nat /\ b.notes \in Nat
  BY DEF Mark
<1>2. Counts(lost, s, a.notes, b.notes)
  BY DEF Leads
<1>3. ASSUME NEW m \in DOMAIN s, s[m].kind = "footnote"
      PROVE  a.notes < s[m].index /\ s[m].index <= b.notes /\ s[m].index \notin also
  <2>1. s[m].index \in Nat
    BY <1>3, Numbered
  <2>2. a.notes < s[m].index /\ s[m].index <= b.notes /\ s[m].index \notin lost
    BY <1>2, <1>3 DEF Counts
  <2>3. s[m].index \in 1..n
    BY <1>1, <2>1, <2>2
  <2> QED
    BY <2>2, <2>3
<1>4. ASSUME NEW i \in ((a.notes + 1)..b.notes) \ also
      PROVE  \E m \in DOMAIN s : IsRef(s[m], i)
  <2>1. i \in 1..n
    BY <1>1
  <2>2. i \in ((a.notes + 1)..b.notes) \ lost
    BY <2>1
  <2> QED
    BY <1>2, <2>2 DEF Counts
<1> QED
  BY <1>2, <1>3, <1>4 DEF Leads, Counts

-----------------------------------------------------------------------------
(* What attempts do to the trees *)

\* Where the parsers began is a mark.
LEMMA StartIsMark ==
    ASSUME NEW fs \in Seq(Frame), NEW k \in 0..Len(fs)
    PROVE  Start(fs, k) \in Mark
<1>1. CASE k = 0
  BY <1>1 DEF Start, Mark
<1>2. CASE k # 0
  <2>1. fs[k] \in Frame
    BY <1>2
  <2>2. "footnotes" \in Reg
    BY DEF Reg, Noted
  <2> QED
    BY <1>2, <2>1, <2>2 DEF Start, Mark, Frame
<1> QED
  BY <1>1, <1>2

\* The innermost parser goes on to another mark, with its flag kept.
LEMMA TreeGrows ==
    ASSUME NEW lost, NEW fs \in Seq(Frame), NEW tr \in Seq(Element),
           NEW new \in Seq(Element),
           NEW now \in Mark, NEW then \in Mark,
           Consistent(lost, fs, tr, now), Leads(lost, new, now, then)
    PROVE  Consistent(lost, fs, tr \o new, then)
<1>1. Start(fs, Len(fs)) \in Mark
  BY StartIsMark
<1>2. Leads(lost, tr \o new, Start(fs, Len(fs)), then)
  BY <1>1, LeadsJoin DEF Consistent
<1>3. now.block = "set" => then.block = "set"
  BY DEF Leads, Prints
<1>4. FlagsKept(fs, then)
  BY <1>3 DEF Consistent, FlagsKept
<1> QED
  BY <1>2, <1>4 DEF Consistent

\* A new parser begins where the one it clones is.
LEMMA ParserBegins ==
    ASSUME NEW lost, NEW fs \in Seq(Frame), NEW tr \in Seq(Element), NEW now \in Mark,
           NEW f \in Frame, f.tree = tr, f.block = now.block,
           f.len["footnotes"] = now.notes,
           Consistent(lost, fs, tr, now)
    PROVE  Consistent(lost, Append(fs, f), << >>, now)
<1> DEFINE n == Len(fs)
           gs == Append(fs, f)
<1>1. /\ n \in Nat /\ Len(gs) = n + 1 /\ gs[n + 1] = f
      /\ \A k \in 1..n : gs[k] = fs[k]
      /\ DOMAIN gs = 1..(n + 1) /\ DOMAIN fs = 1..n
      /\ gs \in Seq(Frame)
  OBVIOUS
<1> HIDE DEF n, gs
<1>2. \A k \in 0..n : Start(gs, k) = Start(fs, k)
  BY <1>1 DEF Start
<1>3. Start(gs, n + 1) = now
  <2>1. n + 1 # 0
    BY <1>1
  <2>2. now = [notes |-> now.notes, block |-> now.block]
    BY DEF Mark
  <2> QED
    BY <1>1, <2>1, <2>2 DEF Start
<1>4. ASSUME NEW k \in DOMAIN gs
      PROVE  Leads(lost, gs[k].tree, Start(gs, k - 1), Start(gs, k))
  <2>1. CASE k = n + 1
    <3>1. k - 1 = n /\ n \in 0..n
      BY <1>1, <2>1
    <3> QED
      BY <1>1, <1>2, <1>3, <2>1, <3>1 DEF Consistent, n
  <2>2. CASE k # n + 1
    <3>1. k \in 1..n /\ k - 1 \in 0..n /\ k \in 0..n
      BY <1>1, <2>2
    <3> QED
      BY <1>1, <1>2, <3>1 DEF Consistent
  <2> QED
    BY <2>1, <2>2
<1>5. Leads(lost, << >>, Start(gs, Len(gs)), now)
  BY <1>1, <1>3, LeadsNowhere
<1>6. FlagsKept(gs, now)
  <2> SUFFICES ASSUME NEW k \in DOMAIN gs, gs[k].block = "set"
               PROVE  now.block = "set"
                         /\ \A j \in k..Len(gs) : gs[j].block = "set"
    BY DEF FlagsKept
  <2>1. CASE k = n + 1
    <3>1. \A j \in k..Len(gs) : j = n + 1
      BY <1>1, <2>1
    <3> QED
      BY <1>1, <2>1, <3>1
  <2>2. CASE k # n + 1
    <3>1. k \in 1..n
      BY <1>1, <2>2
    <3>2. now.block = "set" /\ \A j \in k..n : fs[j].block = "set"
      BY <1>1, <3>1 DEF Consistent, FlagsKept, n
    <3>3. \A j \in k..Len(gs) : j \in k..n \/ j = n + 1
      BY <1>1, <3>1
    <3>4. \A j \in k..n : gs[j].block = "set"
      BY <1>1, <3>1, <3>2
    <3> QED
      BY <1>1, <3>2, <3>3, <3>4
  <2> QED
    BY <2>1, <2>2
<1> QED
  BY <1>4, <1>5, <1>6 DEF Consistent, gs

\* What the parsers outside the innermost one are left with.
LEMMA OuterParsers ==
    ASSUME NEW lost, NEW fs \in Seq(Frame), Len(fs) > 0, NEW tr, NEW now,
           Consistent(lost, fs, tr, now)
    PROVE  /\ \A k \in DOMAIN Front(fs) :
                 Leads(lost, Front(fs)[k].tree,
                       Start(Front(fs), k - 1), Start(Front(fs), k))
           /\ Start(Front(fs), Len(Front(fs))) = Start(fs, Len(fs) - 1)
           /\ Leads(lost, fs[Len(fs)].tree, Start(fs, Len(fs) - 1), Start(fs, Len(fs)))
           /\ \A k \in DOMAIN Front(fs) : Front(fs)[k] = fs[k] /\ k \in DOMAIN fs
           /\ Front(fs) \in Seq(Frame)
           /\ Len(Front(fs)) = Len(fs) - 1
           /\ FlagsKept(Front(fs), now)
           /\ FlagsKept(Front(fs), Start(fs, Len(fs)))
<1> DEFINE n == Len(fs)
           gs == Front(fs)
<1>1. /\ gs \in Seq(Frame) /\ Len(gs) = n - 1 /\ n \in Nat \ {0}
      /\ \A i \in 1..(n - 1) : gs[i] = fs[i]
      /\ DOMAIN fs = 1..n /\ DOMAIN gs = 1..(n - 1)
  BY FrontOf
<1> HIDE DEF gs, n
<1>2. \A k \in 0..(n - 1) : Start(gs, k) = Start(fs, k)
  BY <1>1 DEF Start
<1>3. ASSUME NEW k \in DOMAIN gs
      PROVE  Leads(lost, gs[k].tree, Start(gs, k - 1), Start(gs, k))
  <2>1. k \in DOMAIN fs /\ k \in 0..(n - 1) /\ k - 1 \in 0..(n - 1)
    BY <1>1
  <2> QED
    BY <1>1, <1>2, <2>1 DEF Consistent
<1>4. Start(gs, Len(gs)) = Start(fs, n - 1)
  <2>1. n - 1 \in 0..(n - 1)
    BY <1>1
  <2> QED
    BY <1>1, <1>2, <2>1
<1>5. n \in DOMAIN fs
  BY <1>1
<1>6. Leads(lost, fs[n].tree, Start(fs, n - 1), Start(fs, n))
  BY <1>5 DEF Consistent
<1>7. ASSUME NEW k \in DOMAIN gs, gs[k].block = "set"
      PROVE  /\ now.block = "set" /\ fs[n].block = "set"
             /\ \A j \in k..Len(gs) : gs[j].block = "set"
  <2>1. k \in DOMAIN fs /\ k \in 1..n /\ fs[k].block = "set" /\ n \in k..n
    BY <1>1, <1>7
  <2>2. now.block = "set" /\ \A j \in k..n : fs[j].block = "set"
    BY <2>1 DEF Consistent, FlagsKept, n
  <2>3. \A j \in k..Len(gs) : j \in k..n /\ j \in 1..(n - 1)
    BY <1>1, <2>1
  <2> QED
    BY <1>1, <2>1, <2>2, <2>3
<1>8. Start(fs, n).block = fs[n].block
  BY <1>1 DEF Start
<1>9. FlagsKept(gs, now) /\ FlagsKept(gs, Start(fs, n))
  BY <1>7, <1>8 DEF FlagsKept
<1>10. \A k \in DOMAIN gs : gs[k] = fs[k] /\ k \in DOMAIN fs
  BY <1>1
<1> QED
  BY <1>1, <1>3, <1>4, <1>6, <1>9, <1>10 DEF gs, n

\* A parser takes over its clone's elements.
LEMMA ParserAdopts ==
    ASSUME NEW lost, NEW fs \in Seq(Frame), Len(fs) > 0, NEW tr \in Seq(Element),
           NEW now \in Mark, Consistent(lost, fs, tr, now)
    PROVE  Consistent(lost, Front(fs), fs[Len(fs)].tree \o tr, now)
<1>1. Len(fs) \in DOMAIN fs /\ Len(fs) \in 0..Len(fs) /\ Len(fs) - 1 \in 0..Len(fs)
  OBVIOUS
<1>2. fs[Len(fs)].tree \in Seq(Element)
  <2>1. fs[Len(fs)] \in Frame
    BY <1>1
  <2> QED
    BY <2>1 DEF Frame
<1>3. Start(fs, Len(fs)) \in Mark /\ Start(fs, Len(fs) - 1) \in Mark
  BY <1>1, StartIsMark
<1>4. Leads(lost, fs[Len(fs)].tree \o tr, Start(fs, Len(fs) - 1), now)
  <2>1. Leads(lost, fs[Len(fs)].tree, Start(fs, Len(fs) - 1), Start(fs, Len(fs)))
    BY OuterParsers
  <2>2. Leads(lost, tr, Start(fs, Len(fs)), now)
    BY DEF Consistent
  <2> QED
    BY <1>2, <1>3, <2>1, <2>2, LeadsJoin
<1> QED
  BY <1>4, OuterParsers DEF Consistent

\* A parser drops its clone, and the registries are what they were when it began.
LEMMA ParserDrops ==
    ASSUME NEW lost, NEW fs \in Seq(Frame), Len(fs) > 0, NEW tr, NEW now,
           Consistent(lost, fs, tr, now)
    PROVE  Consistent(lost, Front(fs), fs[Len(fs)].tree, Start(fs, Len(fs)))
  BY OuterParsers DEF Consistent

\* Other footnotes may be lost, beyond those there were when any parser began.
LEMMA OthersLost ==
    ASSUME NEW lost, NEW also, NEW fs \in Seq(Frame), NEW tr \in Seq(Element),
           NEW now \in Mark,
           \A k \in DOMAIN fs : fs[k].len["footnotes"] <= now.notes,
           lost \cap (1..now.notes) = also \cap (1..now.notes),
           Consistent(lost, fs, tr, now)
    PROVE  Consistent(also, fs, tr, now)
<1>1. now.notes \in Nat
  BY DEF Mark
<1>2. \A k \in 0..Len(fs) : Start(fs, k) \in Mark /\ Start(fs, k).notes <= now.notes
  BY <1>1, StartIsMark DEF Start
<1>3. ASSUME NEW k \in DOMAIN fs
      PROVE  Leads(also, fs[k].tree, Start(fs, k - 1), Start(fs, k))
  <2>1. k \in 0..Len(fs) /\ k - 1 \in 0..Len(fs) /\ fs[k] \in Frame
    OBVIOUS
  <2>2. fs[k].tree \in Seq(Element)
    BY <2>1 DEF Frame
  <2>3. Leads(lost, fs[k].tree, Start(fs, k - 1), Start(fs, k))
    BY DEF Consistent
  <2> QED
    BY <1>1, <1>2, <2>1, <2>2, <2>3, LeadsAgree
<1>4. Leads(also, tr, Start(fs, Len(fs)), now)
  <2>1. Len(fs) \in 0..Len(fs) /\ now.notes <= now.notes
    BY <1>1
  <2>2. Leads(lost, tr, Start(fs, Len(fs)), now)
    BY DEF Consistent
  <2> QED
    BY <1>1, <1>2, <2>1, <2>2, LeadsAgree
<1> QED
  BY <1>3, <1>4 DEF Consistent

\* The number of footnotes and the flag are a mark.
LEMMA NowIsMark == TypeOK => Now \in Mark
  BY DEF TypeOK, Now, Mark, Regs, Entries, Reg, Noted

-----------------------------------------------------------------------------
(* Each action keeps the trees and the registries in step *)

\* What is parsed stays what it was when nothing that matters changes.
LEMMA SameTrees ==
    ASSUME TreesFit, page' = page, frames' = frames, tree' = tree, block' = block,
           orphans' = orphans,
           Len(reg'["footnotes"]) = Len(reg["footnotes"])
    PROVE  TreesFit'
<1>1. Now' = Now
  BY DEF Now
<1> QED
  BY <1>1 DEF TreesFit, Consistent, Finished

LEMMA PushTrees ==
    ASSUME IInv, TreesFit, NEW r \in Other, Push(r)
    PROVE  TreesFit'
<1>1. reg'["footnotes"] = reg["footnotes"]
  BY RegistriesAssumption DEF IInv, TypeOK, Push, Regs, Reg, Noted
<1> QED
  BY <1>1, SameTrees DEF Push

LEMMA PushFootnoteTrees ==
    ASSUME IInv, TreesFit, NEW tail \in {NoTail, serial + 1}, PushFootnote(tail)
    PROVE  TreesFit'
<1> DEFINE n == Len(reg["footnotes"])
           s == <<Ref(n + 1)>>
<1>1. /\ tree \in Seq(Element) /\ frames \in Seq(Frame) /\ n \in Nat
      /\ reg["footnotes"] \in Entries /\ reg \in Regs /\ block \in {"unset", "set"}
  BY DEF IInv, TypeOK, Regs, Reg, Noted, Entries
<1>2. /\ page = "parsing" /\ page' = page /\ frames' = frames /\ block' = block
      /\ orphans' = orphans /\ tree' = Append(tree, Ref(n + 1))
      /\ reg'["footnotes"] = Append(reg["footnotes"], serial')
  BY <1>1 DEF PushFootnote, Registers, Regs, Reg, Noted
<1>3. s \in Seq(Element) /\ tree' = tree \o s
  BY <1>1, <1>2 DEF Ref, Element
<1>4. Now = [notes |-> n, block |-> block] /\ Now \in Mark
  BY <1>1, NowIsMark DEF Now, IInv
<1>5. Now' = [notes |-> n + 1, block |-> block] /\ Now' \in Mark
  BY <1>1, <1>2 DEF Now, Mark, Entries
<1>6. DOMAIN s = {1} /\ s[1].kind = "footnote"
  BY DEF Ref
<1>7. Counts(orphans, s, n, n + 1)
  <2>1. orphans \subseteq 1..n
    BY DEF IInv, TypeOK
  <2> QED
    BY <1>1, <2>1, CountsOne
<1> HIDE DEF s, n
<1>8. Leads(orphans, s, Now, Now')
  BY <1>4, <1>5, <1>6, <1>7 DEF Leads, Prints, Never
<1>9. Consistent(orphans, frames, tree \o s, Now')
  BY <1>1, <1>2, <1>3, <1>4, <1>5, <1>8, TreeGrows DEF TreesFit
<1> QED
  BY <1>2, <1>3, <1>9 DEF TreesFit

\* The block and its row tails, which are no references.
LEMMA BlockElements ==
    ASSUME IInv
    PROVE  LET s == <<FootnoteBlock, RowTails(reg["tails"])>>
           IN  /\ s \in Seq(Element) /\ Never(s, "footnote")
               /\ Once(s, "block") /\ Once(s, "tails")
<1> DEFINE s == <<FootnoteBlock, RowTails(reg["tails"])>>
<1>1. reg["tails"] \in Entries
  BY DEF IInv, TypeOK, Regs, Reg, Noted
<1>2. DOMAIN s = {1, 2} /\ s[1].kind = "block" /\ s[2].kind = "tails"
  BY DEF FootnoteBlock, RowTails
<1>3. s \in Seq(Element)
  BY <1>1 DEF FootnoteBlock, RowTails, Element
<1> HIDE DEF s
<1>4. Never(s, "footnote") /\ Once(s, "block") /\ Once(s, "tails")
  BY <1>2 DEF Never, Once
<1> QED
  BY <1>3, <1>4 DEF s

LEMMA PlaceTrees ==
    ASSUME IInv, TreesFit, PlaceFootnoteBlock
    PROVE  TreesFit'
<1> DEFINE s == <<FootnoteBlock, RowTails(reg["tails"])>>
<1>1. /\ s \in Seq(Element) /\ Never(s, "footnote")
      /\ Once(s, "block") /\ Once(s, "tails")
  BY BlockElements
<1>2. /\ tree \in Seq(Element) /\ frames \in Seq(Frame)
      /\ page = "parsing" /\ page' = page /\ frames' = frames /\ orphans' = orphans
      /\ reg' = reg /\ block = "unset" /\ block' = "set" /\ tree' = tree \o s
  BY DEF IInv, TypeOK, PlaceFootnoteBlock
<1> HIDE DEF s
<1>3. Now \in Mark /\ Now.block = "unset"
  BY <1>2, NowIsMark DEF Now, IInv
<1>4. Now' \in Mark /\ Now'.block = "set" /\ Now'.notes = Now.notes
  BY <1>2, <1>3 DEF Now, Mark
<1>5. Leads(orphans, s, Now, Now')
  BY <1>1, <1>3, <1>4, CountsNothing DEF Leads, Prints, Mark
<1>6. Consistent(orphans, frames, tree \o s, Now')
  BY <1>1, <1>2, <1>3, <1>4, <1>5, TreeGrows DEF TreesFit
<1> QED
  BY <1>2, <1>6 DEF TreesFit

LEMMA BeginTrees ==
    ASSUME IInv, TreesFit, NEW kind \in Kinds, Begin(kind)
    PROVE  TreesFit'
<1> DEFINE copy == IF kind = "fuse" THEN reg ELSE Empty
           f == [kind |-> kind, len |-> Lengths(reg), copy |-> copy,
                 tree |-> tree, block |-> block]
<1>1. /\ frames \in Seq(Frame) /\ tree \in Seq(Element) /\ reg \in Regs
      /\ block \in {"unset", "set"} /\ Now \in Mark
  BY NowIsMark DEF IInv, TypeOK
<1>2. /\ page = "parsing" /\ page' = page /\ tree' = << >> /\ block' = block
      /\ orphans' = orphans
      /\ reg' = reg /\ frames' = Append(frames, f)
  BY DEF Begin
<1>3. copy \in Regs
  BY <1>1 DEF Empty, Regs, Entries
<1>4. Lengths(reg) \in [Reg -> Nat] /\ Lengths(reg)["footnotes"] = Now.notes
  BY <1>1 DEF Lengths, Regs, Entries, Now, Reg, Noted
<1> HIDE DEF copy
<1>5. /\ f \in Frame /\ f.tree = tree /\ f.block = Now.block
      /\ f.len["footnotes"] = Now.notes
  BY <1>1, <1>3, <1>4 DEF Frame, Now
<1> HIDE DEF f
<1>6. Consistent(orphans, Append(frames, f), << >>, Now)
  BY <1>1, <1>2, <1>5, ParserBegins DEF TreesFit
<1>7. Now' = Now
  BY <1>2 DEF Now
<1> QED
  BY <1>2, <1>6, <1>7 DEF TreesFit

LEMMA KeepTrees ==
    ASSUME IInv, TreesFit, Succeed \/ Fuse
    PROVE  TreesFit'
<1>1. /\ Len(frames) > 0 /\ page = "parsing" /\ page' = page /\ reg' = reg
      /\ frames' = Front(frames) /\ tree' = Top.tree \o tree /\ block' = block
      /\ orphans' = orphans /\ frames \in Seq(Frame) /\ tree \in Seq(Element)
  BY DEF IInv, TypeOK, Succeed, Fuse, Within, Adopt
<1>2. Top = frames[Len(frames)]
  BY <1>1, TopFacts
<1>3. Now \in Mark /\ Now' = Now
  BY <1>1, NowIsMark DEF Now, IInv
<1>4. Consistent(orphans, Front(frames), Top.tree \o tree, Now)
  BY <1>1, <1>2, <1>3, ParserAdopts DEF TreesFit
<1> QED
  BY <1>1, <1>3, <1>4 DEF TreesFit

\* What a dropped clone leaves of the trees, for any footnotes lost after it began.
LEMMA LeftByDrop ==
    ASSUME IInv, TreesFit, Len(frames) > 0, page = "parsing", NEW also,
           orphans \cap (1..Top.len["footnotes"]) = also \cap (1..Top.len["footnotes"])
    PROVE  /\ Consistent(also, Front(frames), Top.tree, Start(frames, Len(frames)))
           /\ Front(frames) \in Seq(Frame) /\ Top.tree \in Seq(Element)
           /\ Start(frames, Len(frames)) \in Mark
           /\ Start(frames, Len(frames))
                 = [notes |-> Top.len["footnotes"], block |-> Top.block]
<1> DEFINE n == Len(frames)
<1>1. frames \in Seq(Frame) /\ n \in Nat \ {0} /\ n \in 0..n
  BY DEF IInv, TypeOK
<1>2. Top = frames[n] /\ n # 0 /\ Top \in Frame
  BY <1>1, TopFacts
<1>3. /\ Start(frames, n) \in Mark
      /\ Start(frames, n) = [notes |-> Top.len["footnotes"], block |-> Top.block]
  BY <1>1, <1>2, StartIsMark DEF Start
<1>4. /\ Front(frames) \in Seq(Frame) /\ Len(Front(frames)) = n - 1
      /\ \A i \in 1..(n - 1) : Front(frames)[i] = frames[i]
  BY <1>1, FrontOf
<1>5. Top.tree \in Seq(Element)
  BY <1>2 DEF Frame
<1>6. Consistent(orphans, Front(frames), Top.tree, Start(frames, n))
  BY <1>1, <1>2, ParserDrops DEF TreesFit
<1>7. \A k \in DOMAIN Front(frames) :
         Front(frames)[k].len["footnotes"] <= Start(frames, n).notes
  <2> SUFFICES ASSUME NEW k \in 1..(n - 1)
               PROVE  frames[k].len["footnotes"] <= frames[n].len["footnotes"]
    BY <1>1, <1>2, <1>3, <1>4
  <2>1. n \in 1..Len(frames) /\ k \in 1..n /\ "footnotes" \in Reg
    BY <1>1 DEF Reg, Noted
  <2> QED
    BY <2>1 DEF IInv, FramesOK, SnapshotsNest
<1> HIDE DEF n
<1>8. Consistent(also, Front(frames), Top.tree, Start(frames, n))
  BY <1>3, <1>4, <1>5, <1>6, <1>7, OthersLost
<1> QED
  BY <1>3, <1>4, <1>5, <1>8 DEF n

\* A dropped clone leaves as many footnotes as there were when it began.
LEMMA DropTrees ==
    ASSUME IInv, TreesFit, Len(frames) > 0, page = "parsing", Drop, Forget,
           Len(reg'["footnotes"]) = Top.len["footnotes"]
    PROVE  TreesFit'
<1>1. /\ page' = page /\ frames' = Front(frames)
      /\ tree' = Top.tree /\ block' = Top.block
  BY DEF Drop
<1>2. orphans \cap (1..Top.len["footnotes"]) = orphans' \cap (1..Top.len["footnotes"])
  BY DEF Forget
<1>3. /\ Consistent(orphans', Front(frames), Top.tree, Start(frames, Len(frames)))
      /\ Start(frames, Len(frames))
            = [notes |-> Top.len["footnotes"], block |-> Top.block]
  BY <1>2, LeftByDrop
<1>4. Now' = Start(frames, Len(frames))
  BY <1>1, <1>3 DEF Now
<1> QED
  BY <1>1, <1>3, <1>4 DEF TreesFit

\* A dropped trial leaves its footnotes, all of them lost.
LEMMA EndTrialTrees ==
    ASSUME IInv, TreesFit, EndTrial
    PROVE  TreesFit'
<1> DEFINE n == Top.len["footnotes"]
           m == Len(reg["footnotes"])
<1>1. Len(frames) > 0 /\ page = "parsing" /\ Drop /\ reg' = reg
  BY DEF IInv, TypeOK, EndTrial, Within
<1>2. n \in Nat /\ m \in Nat /\ n <= m
  <2>1. "footnotes" \in Reg
    BY DEF Reg, Noted
  <2> QED
    BY <1>1, <2>1, TopFacts DEF IInv, TypeOK, Regs, Entries
<1>3. orphans' = orphans \cup ((n + 1)..m)
  BY DEF EndTrial
<1>4. /\ page' = page /\ frames' = Front(frames)
      /\ tree' = Top.tree /\ block' = Top.block
  BY <1>1 DEF Drop
<1>5. Now' = [notes |-> m, block |-> Top.block]
  BY <1>1, <1>4 DEF Now
<1> DEFINE then == [notes |-> n, block |-> Top.block]
           now == [notes |-> m, block |-> Top.block]
<1>6. /\ Consistent(orphans', Front(frames), Top.tree, then)
      /\ Front(frames) \in Seq(Frame) /\ Top.tree \in Seq(Element) /\ then \in Mark
  <2>1. orphans \cap (1..n) = orphans' \cap (1..n)
    BY <1>2, <1>3
  <2> QED
    BY <1>1, <2>1, LeftByDrop
<1>7. now \in Mark
  BY <1>2, <1>6 DEF Mark
<1>8. Leads(orphans', << >>, then, now)
  <2>1. then.notes <= now.notes /\ then.block = now.block
    BY <1>2
  <2>2. (then.notes + 1)..now.notes \subseteq orphans'
    BY <1>3
  <2> HIDE DEF then, now
  <2> QED
    BY <1>6, <1>7, <2>1, <2>2, LeadsPastLost
<1> HIDE DEF then
<1>9. Consistent(orphans', Front(frames), Top.tree \o << >>, now)
  <2> HIDE DEF now
  <2>1. << >> \in Seq(Element)
    OBVIOUS
  <2> QED
    BY <1>6, <1>7, <1>8, <2>1, TreeGrows
<1>10. Top.tree \o << >> = Top.tree
  BY <1>6
<1> QED
  BY <1>1, <1>4, <1>5, <1>9, <1>10 DEF TreesFit

\* Truncating to the recorded length, once or twice, leaves that many footnotes.
LEMMA NotesTruncated ==
    ASSUME IInv, Len(frames) > 0
    PROVE  LET n == Top.len["footnotes"]
               s == reg["footnotes"]
           IN  /\ Len(Truncated(s, n)) = n
               /\ Len(Truncated(Truncated(s, n), n)) = n
               /\ Len(SubSeq(s, 1, n)) = n
<1> DEFINE n == Top.len["footnotes"]
           s == reg["footnotes"]
<1>1. "footnotes" \in Reg
  BY DEF Reg, Noted
<1>2. s \in Entries /\ n \in Nat /\ n <= Len(s)
  BY <1>1, TopFacts DEF IInv, TypeOK, Regs
<1> HIDE DEF n, s
<1>3. Truncated(s, n) \in Entries /\ Len(Truncated(s, n)) = n
      /\ Truncated(s, n) = SubSeq(s, 1, n)
  BY <1>2, TruncatedPrefix
<1>4. Len(Truncated(Truncated(s, n), n)) = n
  <2>1. n <= Len(Truncated(s, n))
    BY <1>2, <1>3
  <2> DEFINE u == Truncated(s, n)
  <2>2. u \in Entries /\ n <= Len(u)
    BY <1>3, <2>1
  <2> HIDE DEF u
  <2>3. Len(Truncated(u, n)) = n
    BY <1>2, <2>2, TruncatedPrefix
  <2> QED
    BY <2>3 DEF u
<1> QED
  BY <1>3, <1>4 DEF n, s

LEMMA DropsTrees ==
    ASSUME IInv, TreesFit, Fail \/ EndProbe \/ Unfuse
    PROVE  TreesFit'
<1>1. /\ Len(frames) > 0 /\ page = "parsing" /\ Drop /\ frames \in Seq(Frame)
      /\ Forget
  BY DEF IInv, TypeOK, Fail, EndProbe, Unfuse, Within
<1>2. "footnotes" \in Reg /\ "footnotes" \in Noted
  BY DEF Reg, Noted
<1>3. CASE Fail
  <2>1. reg'["footnotes"] = Truncated(Truncated(reg["footnotes"], Top.len["footnotes"]),
                                      Top.len["footnotes"])
    BY <1>2, <1>3 DEF Fail, TruncateFootnotes, Reset
  <2> QED
    BY <1>1, <2>1, NotesTruncated, DropTrees
<1>4. CASE EndProbe
  <2>1. \/ reg'["footnotes"] = Truncated(reg["footnotes"], Top.len["footnotes"])
        \/ reg' = reg /\ Len(reg["footnotes"]) = Top.len["footnotes"]
    BY <1>2, <1>4 DEF EndProbe, TruncateFootnotes
  <2> QED
    BY <1>1, <2>1, NotesTruncated, DropTrees
<1>5. CASE Unfuse
  <2>1. reg' = Top.copy /\ Top.kind = "fuse"
    BY <1>5 DEF Unfuse, Within
  <2>2. Top.copy["footnotes"] = SubSeq(reg["footnotes"], 1, Top.len["footnotes"])
    BY <1>1, <1>2, <2>1, TopFacts DEF IInv, FramesOK, CopiesAgree
  <2> QED
    BY <1>1, <2>1, <2>2, NotesTruncated, DropTrees
<1> QED
  BY <1>3, <1>4, <1>5

\* A page without a block has no row tails until they are put at its end.
LEMMA FinishTrees ==
    ASSUME IInv, TreesFit, FinishPage
    PROVE  TreesFit'
<1> DEFINE s == <<RowTails(reg["tails"])>>
<1>1. /\ tree \in Seq(Element) /\ block \in {"unset", "set"} /\ Now \in Mark
      /\ reg["tails"] \in Entries
  BY NowIsMark DEF IInv, TypeOK, Regs, Reg, Noted
<1>2. /\ page = "parsing" /\ page' = "done" /\ frames = << >> /\ frames' = frames
      /\ block' = block /\ reg' = reg /\ Now' = Now /\ orphans' = orphans
      /\ tree' = IF block = "set" THEN tree ELSE tree \o s
  <2>1. Append(tree, RowTails(reg["tails"])) = tree \o s
    BY <1>1
  <2> QED
    BY <2>1 DEF FinishPage, Now
<1>3. DOMAIN s = {1} /\ s[1].kind = "tails" /\ s \in Seq(Element)
  BY <1>1 DEF RowTails, Element
<1> HIDE DEF s
<1>4. Never(s, "footnote") /\ Never(s, "block") /\ Once(s, "tails")
  BY <1>3 DEF Never, Once
<1>5. Start(<< >>, 0) = [notes |-> 0, block |-> "unset"] /\ Len(<< >>) = 0
  BY DEF Start
<1>6. Leads(orphans, tree, [notes |-> 0, block |-> "unset"], Now)
  BY <1>2, <1>5 DEF TreesFit, Consistent
<1>7. Counts(orphans, tree, 0, Now.notes) /\ Prints(tree, "unset", block)
  BY <1>6 DEF Leads, Now
<1>8. CASE block = "set"
  <2>1. Once(tree, "block") /\ Once(tree, "tails")
    BY <1>7, <1>8 DEF Prints
  <2> QED
    BY <1>2, <1>7, <1>8, <2>1 DEF TreesFit, Finished, Now
<1>9. CASE block # "set"
  <2>1. Never(tree, "block") /\ Never(tree, "tails")
    BY <1>1, <1>7, <1>9 DEF Prints
  <2>2. Never(tree \o s, "block") /\ Once(tree \o s, "tails")
    BY <1>1, <1>3, <1>4, <2>1, NeverJoin, OnceJoin
  <2>3. Counts(orphans, tree \o s, 0, Now.notes)
    <3>1. Counts(orphans, s, Now.notes, Now.notes)
      BY <1>1, <1>4, CountsNothing DEF Mark
    <3> QED
      BY <1>1, <1>3, <1>7, <3>1, CountsJoin DEF Mark
  <2> QED
    BY <1>2, <1>9, <2>2, <2>3 DEF TreesFit, Finished, Now
<1> QED
  BY <1>8, <1>9

\* Nothing is parsed at first.
LEMMA InitTrees == Init => TreesFit
<1> SUFFICES ASSUME Init PROVE TreesFit
  OBVIOUS
<1>1. /\ frames = << >> /\ tree = << >> /\ page = "parsing" /\ orphans = {}
      /\ Now = [notes |-> 0, block |-> "unset"]
  BY DEF Init, Now, Empty, Reg, Noted
<1>2. [notes |-> 0, block |-> "unset"] \in Mark
  BY DEF Mark
<1>3. Leads({}, << >>, [notes |-> 0, block |-> "unset"],
                      [notes |-> 0, block |-> "unset"])
  BY <1>2, LeadsNowhere
<1>4. /\ Start(<< >>, 0) = [notes |-> 0, block |-> "unset"]
      /\ Len(<< >>) = 0 /\ DOMAIN << >> = {}
  BY DEF Start
<1>5. Consistent({}, << >>, << >>, [notes |-> 0, block |-> "unset"])
  BY <1>3, <1>4 DEF Consistent, FlagsKept
<1> QED
  BY <1>1, <1>5 DEF TreesFit

LEMMA NextTrees == IInv /\ TreesFit /\ [Next]_vars => TreesFit'
<1> SUFFICES ASSUME IInv, TreesFit, [Next]_vars PROVE TreesFit'
  OBVIOUS
<1>1. CASE \E r \in Other : Push(r)
  BY <1>1, PushTrees
<1>2. CASE \E tail \in {NoTail, serial + 1} : PushFootnote(tail)
  BY <1>2, PushFootnoteTrees
<1>3. CASE PlaceFootnoteBlock
  BY <1>3, PlaceTrees
<1>4. CASE \E kind \in Kinds : Begin(kind)
  BY <1>4, BeginTrees
<1>5. CASE Succeed \/ Fuse
  BY <1>5, KeepTrees
<1>6. CASE Fail \/ EndProbe \/ Unfuse
  BY <1>6, DropsTrees
<1>7. CASE FinishPage
  BY <1>7, FinishTrees
<1>9. CASE EndTrial
  BY <1>9, EndTrialTrees
<1>8. CASE UNCHANGED vars
  BY <1>8, SameTrees DEF vars
<1> QED
  BY <1>1, <1>2, <1>3, <1>4, <1>5, <1>6, <1>7, <1>8, <1>9 DEF Next

-----------------------------------------------------------------------------
(* What the trees and the registries in step say of the page *)

\* The parsers' starts, and what the page has by now.
Reached(k) == IF k <= Len(frames) THEN Start(frames, k) ELSE Now

\* Every tree leads from the mark its parser began at to the next one's.
LEMMA TreesLead ==
    ASSUME IInv, Consistent(orphans, frames, tree, Now)
    PROVE  \A k \in 1..(Len(frames) + 1) :
              /\ Leads(orphans, Tree(k), Reached(k - 1), Reached(k))
              /\ Tree(k) \in Seq(Element)
              /\ Reached(k) \in Mark /\ Reached(k - 1) \in Mark
              /\ \A j \in k..(Len(frames) + 1) :
                    /\ Reached(k).notes <= Reached(j).notes
                    /\ Reached(k).block = "set" => Reached(j).block = "set"
<1> DEFINE n == Len(frames)
<1>1. frames \in Seq(Frame) /\ tree \in Seq(Element) /\ Now \in Mark /\ n \in Nat
  BY NowIsMark DEF IInv, TypeOK
<1>2. \A k \in 0..n : Reached(k) = Start(frames, k) /\ Reached(k) \in Mark
  BY <1>1, StartIsMark DEF Reached
<1>3. Reached(n + 1) = Now
  BY <1>1 DEF Reached
<1>4. \A k \in 1..n : /\ frames[k] \in Frame
                      /\ Reached(k).notes = frames[k].len["footnotes"]
                      /\ Reached(k).block = frames[k].block
  BY <1>1, <1>2 DEF Start
<1>5. "footnotes" \in Reg
  BY DEF Reg, Noted
<1> SUFFICES ASSUME NEW k \in 1..(n + 1)
             PROVE  /\ Leads(orphans, Tree(k), Reached(k - 1), Reached(k))
                    /\ Tree(k) \in Seq(Element)
                    /\ Reached(k) \in Mark /\ Reached(k - 1) \in Mark
                    /\ \A j \in k..(n + 1) :
                          /\ Reached(k).notes <= Reached(j).notes
                          /\ Reached(k).block = "set" => Reached(j).block = "set"
  OBVIOUS
<1> HIDE DEF n
<1>6. CASE k = n + 1
  <2>1. Tree(k) = tree /\ k - 1 = n /\ n \in 0..n
    BY <1>1, <1>6 DEF Tree, n
  <2>2. Leads(orphans, Tree(k), Reached(k - 1), Reached(k))
    BY <1>2, <1>3, <1>6, <2>1 DEF Consistent, n
  <2>3. \A j \in k..(n + 1) : j = k
    BY <1>1, <1>6
  <2>4. Reached(k) \in Mark /\ Reached(k - 1) \in Mark
    BY <1>1, <1>2, <1>3, <1>6, <2>1
  <2>5. Reached(k).notes \in Nat
    BY <2>4 DEF Mark
  <2> QED
    BY <1>1, <2>1, <2>2, <2>3, <2>4, <2>5
<1>7. CASE k # n + 1
  <2>1. k \in 1..n /\ k \in 0..n /\ k - 1 \in 0..n
    BY <1>1, <1>7
  <2>2. Tree(k) = frames[k].tree /\ frames[k] \in Frame
    BY <1>4, <2>1 DEF Tree, n
  <2>3. Leads(orphans, Tree(k), Reached(k - 1), Reached(k))
    <3>1. k \in DOMAIN frames
      BY <1>1, <2>1 DEF n
    <3>2. Leads(orphans, frames[k].tree, Start(frames, k - 1), Start(frames, k))
      BY <3>1 DEF Consistent
    <3>3. Reached(k) = Start(frames, k) /\ Reached(k - 1) = Start(frames, k - 1)
      BY <1>2, <2>1
    <3> QED
      BY <2>2, <3>2, <3>3
  <2>4. ASSUME NEW j \in k..(n + 1)
        PROVE  /\ Reached(k).notes <= Reached(j).notes
               /\ Reached(k).block = "set" => Reached(j).block = "set"
    <3>1. CASE j = n + 1
      <4>1. frames[k].len["footnotes"] <= Len(reg["footnotes"])
        BY <1>5, <2>1 DEF IInv, FramesOK, SnapshotsNest, n
      <4>2. frames[k].block = "set" => Now.block = "set"
        BY <1>1, <2>1 DEF Consistent, FlagsKept, n
      <4> QED
        BY <1>3, <1>4, <2>1, <3>1, <4>1, <4>2 DEF Now
    <3>2. CASE j # n + 1
      <4>1. j \in 1..n /\ k \in 1..j /\ j \in k..n
        BY <1>1, <2>1, <3>2
      <4>2. frames[k].len["footnotes"] <= frames[j].len["footnotes"]
        BY <1>5, <4>1 DEF IInv, FramesOK, SnapshotsNest, n
      <4>3. frames[k].block = "set" => frames[j].block = "set"
        BY <1>1, <2>1, <4>1 DEF Consistent, FlagsKept, n
      <4> QED
        BY <1>4, <2>1, <4>1, <4>2, <4>3
    <3> QED
      BY <3>1, <3>2
  <2>5. Tree(k) \in Seq(Element)
    BY <2>2 DEF Frame
  <2> QED
    BY <1>2, <2>1, <2>3, <2>4, <2>5
<1> QED
  BY <1>6, <1>7

\* What a place is.
LEMMA PlaceIs ==
    ASSUME NEW kind
    PROVE  /\ \A k \in 1..(Len(frames) + 1) : \A m \in DOMAIN Tree(k) :
                 Tree(k)[m].kind = kind => <<k, m>> \in Places(kind)
           /\ \A p \in Places(kind) :
                 /\ p = <<p[1], p[2]>> /\ p[1] \in 1..(Len(frames) + 1)
                 /\ p[2] \in DOMAIN Tree(p[1])
                 /\ At(p).kind = kind /\ At(p) = Tree(p[1])[p[2]]
  BY DEF Places, At

\* The first mark that reaches far enough.
LEMMA FirstReached ==
    ASSUME NEW n \in Nat, NEW S \in SUBSET (1..n), S # {}
    PROVE  \E k \in S : \A j \in 1..(k - 1) : j \notin S
<1>1. S \subseteq Nat
  OBVIOUS
<1>2. PICK x \in S : \A y \in S : ~(<<y, x>> \in OpToRel(<, Nat))
  BY <1>1, WFMin, NatLessThanWellFounded
<1>3. ASSUME NEW y \in S PROVE ~(y < x)
  BY <1>1, <1>2 DEF OpToRel
<1>4. \A j \in 1..(x - 1) : j < x
  OBVIOUS
<1> QED
  BY <1>2, <1>3, <1>4

\* While the page is parsed the trees hold what the registries do.
LEMMA ParsingTrees ==
    ASSUME IInv, Consistent(orphans, frames, tree, Now)
    PROVE  /\ RefsMatchFootnotes
           /\ block = "set" <=> Places("block") # {}
           /\ \A kind \in {"block", "tails"} : \A p, q \in Places(kind) : p = q
<1> DEFINE n == Len(frames)
<1>1. frames \in Seq(Frame) /\ Now \in Mark /\ n \in Nat /\ block \in {"unset", "set"}
  BY NowIsMark DEF IInv, TypeOK
<1>2. \A k \in 1..(n + 1) :
         /\ Leads(orphans, Tree(k), Reached(k - 1), Reached(k))
         /\ Tree(k) \in Seq(Element)
         /\ Reached(k) \in Mark /\ Reached(k - 1) \in Mark
         /\ \A j \in k..(n + 1) :
               /\ Reached(k).notes <= Reached(j).notes
               /\ Reached(k).block = "set" => Reached(j).block = "set"
  BY TreesLead
<1>3. Reached(0) = [notes |-> 0, block |-> "unset"] /\ Reached(n + 1) = Now
  BY <1>1 DEF Reached, Start
<1>4. Now.notes = Len(reg["footnotes"]) /\ Now.block = block
  BY DEF Now
<1> HIDE DEF n
<1>5. ASSUME NEW k \in 1..(n + 1), NEW m \in DOMAIN Tree(k),
             Tree(k)[m].kind = "footnote"
      PROVE  /\ Tree(k)[m].index \in Nat
             /\ Reached(k - 1).notes < Tree(k)[m].index
             /\ Tree(k)[m].index <= Reached(k).notes
             /\ Tree(k)[m].index \notin orphans
  BY <1>2, <1>5, Numbered DEF Leads, Counts
<1>6. \A k \in 1..(n + 1), j \in 1..(n + 1) : k < j =>
         /\ Reached(k).notes <= Reached(j - 1).notes
         /\ Reached(k).block = "set" => Reached(j - 1).block = "set"
  <2>1. \A k \in 1..(n + 1), j \in 1..(n + 1) : k < j => j - 1 \in k..(n + 1)
    BY <1>1
  <2> QED
    BY <1>2, <2>1
<1>7. Referred \subseteq (1..Len(reg["footnotes"])) \ orphans
  <2> SUFFICES ASSUME NEW p \in Places("footnote")
               PROVE  At(p).index \in (1..Len(reg["footnotes"])) \ orphans
    BY DEF Referred
  <2>1. /\ p[1] \in 1..(n + 1) /\ p[2] \in DOMAIN Tree(p[1])
        /\ At(p) = Tree(p[1])[p[2]] /\ At(p).kind = "footnote"
    BY PlaceIs DEF n
  <2>2. /\ At(p).index \in Nat
        /\ Reached(p[1] - 1).notes < At(p).index
        /\ At(p).index <= Reached(p[1]).notes
        /\ At(p).index \notin orphans
    BY <1>5, <2>1
  <2>3. Reached(p[1] - 1).notes \in Nat /\ Reached(p[1]).notes \in Nat
    BY <1>2, <2>1 DEF Mark
  <2>4. n + 1 \in p[1]..(n + 1)
    BY <1>1, <2>1
  <2>5. Reached(p[1]).notes <= Now.notes /\ Now.notes \in Nat
    BY <1>1, <1>2, <1>3, <2>1, <2>4 DEF Mark
  <2> QED
    BY <1>4, <2>2, <2>3, <2>5
<1>8. ASSUME NEW i \in (1..Len(reg["footnotes"])) \ orphans
      PROVE  \E p \in Places("footnote") : At(p).index = i
  <2> DEFINE S == {k \in 1..(n + 1) : i <= Reached(k).notes}
  <2>1. n + 1 \in S /\ n + 1 \in Nat /\ i \in Nat /\ i > 0
    BY <1>1, <1>3, <1>4
  <2>2. PICK k \in S : \A j \in 1..(k - 1) : j \notin S
    <3>1. S \in SUBSET (1..(n + 1)) /\ S # {} /\ n + 1 \in Nat
      BY <1>1, <2>1
    <3> HIDE DEF S
    <3> QED
      BY <3>1, FirstReached
  <2>3. k \in 1..(n + 1) /\ i <= Reached(k).notes
    BY <2>2
  <2>4. Reached(k - 1).notes \in Nat /\ Reached(k).notes \in Nat
    BY <1>2, <2>3 DEF Mark
  <2>5. Reached(k - 1).notes < i
    <3>1. CASE k = 1
      BY <1>3, <2>1, <3>1
    <3>2. CASE k # 1
      <4>1. k - 1 \in 1..(k - 1) /\ k - 1 \in 1..(n + 1)
        BY <1>1, <2>3, <3>2
      <4> QED
        BY <2>1, <2>2, <2>4, <4>1
    <3> QED
      BY <3>1, <3>2
  <2>6. i \in ((Reached(k - 1).notes + 1)..Reached(k).notes) \ orphans
    BY <2>1, <2>3, <2>4, <2>5
  <2>7. PICK m \in DOMAIN Tree(k) : IsRef(Tree(k)[m], i)
    BY <1>2, <2>3, <2>6 DEF Leads, Counts
  <2>8. <<k, m>> \in Places("footnote")
    BY <2>3, <2>7, PlaceIs DEF IsRef, n
  <2> QED
    BY <2>7, <2>8 DEF IsRef, At
<1>9. ASSUME NEW p \in Places("footnote"), NEW q \in Places("footnote"), Before(p, q)
      PROVE  At(p).index < At(q).index
  <2>1. /\ p[1] \in 1..(n + 1) /\ p[2] \in DOMAIN Tree(p[1])
        /\ At(p) = Tree(p[1])[p[2]] /\ At(p).kind = "footnote"
        /\ q[1] \in 1..(n + 1) /\ q[2] \in DOMAIN Tree(q[1])
        /\ At(q) = Tree(q[1])[q[2]] /\ At(q).kind = "footnote"
    BY PlaceIs DEF n
  <2>2. CASE p[1] < q[1]
    <3>1. Reached(p[1]).notes <= Reached(q[1] - 1).notes
      BY <1>6, <2>1, <2>2
    <3>2. At(p).index \in Nat /\ At(p).index <= Reached(p[1]).notes
      BY <1>5, <2>1
    <3>3. At(q).index \in Nat /\ Reached(q[1] - 1).notes < At(q).index
      BY <1>5, <2>1
    <3>4. Reached(p[1]).notes \in Nat /\ Reached(q[1] - 1).notes \in Nat
      BY <1>2, <2>1 DEF Mark
    <3> QED
      BY <3>1, <3>2, <3>3, <3>4
  <2>3. CASE p[1] = q[1] /\ p[2] < q[2]
    BY <1>2, <2>1, <2>3 DEF Leads, Counts
  <2> QED
    BY <1>9, <2>2, <2>3 DEF Before
<1>10. RefsMatchFootnotes
  <2>1. Referred = (1..Len(reg["footnotes"])) \ orphans
    BY <1>7, <1>8 DEF Referred
  <2> QED
    BY <1>9, <2>1 DEF RefsMatchFootnotes
<1>11. \A k \in 1..(n + 1) :
          IF Reached(k - 1).block = Reached(k).block
            THEN Never(Tree(k), "block") /\ Never(Tree(k), "tails")
            ELSE /\ Reached(k - 1).block = "unset" /\ Reached(k).block = "set"
                 /\ Once(Tree(k), "block") /\ Once(Tree(k), "tails")
  BY <1>2 DEF Leads, Prints, Mark
<1>12. ASSUME NEW kind \in {"block", "tails"}, NEW p \in Places(kind)
       PROVE  /\ p = <<p[1], p[2]>> /\ p[1] \in 1..(n + 1)
              /\ p[2] \in DOMAIN Tree(p[1]) /\ Tree(p[1])[p[2]].kind = kind
              /\ Reached(p[1] - 1).block = "unset" /\ Reached(p[1]).block = "set"
              /\ Once(Tree(p[1]), kind)
  <2>1. /\ p = <<p[1], p[2]>> /\ p[1] \in 1..(n + 1)
        /\ p[2] \in DOMAIN Tree(p[1]) /\ Tree(p[1])[p[2]].kind = kind
    BY PlaceIs DEF n
  <2> QED
    BY <1>11, <2>1 DEF Never
<1>13. ASSUME NEW kind \in {"block", "tails"},
              NEW p \in Places(kind), NEW q \in Places(kind)
       PROVE  p = q
  <2>1. ~(p[1] < q[1]) /\ ~(q[1] < p[1])
    BY <1>6, <1>12
  <2>2. p[1] = q[1]
    BY <1>1, <1>12, <2>1
  <2>3. /\ p[2] \in DOMAIN Tree(p[1]) /\ Tree(p[1])[p[2]].kind = kind
        /\ q[2] \in DOMAIN Tree(p[1]) /\ Tree(p[1])[q[2]].kind = kind
        /\ Once(Tree(p[1]), kind)
        /\ p = <<p[1], p[2]>> /\ q = <<q[1], q[2]>>
    BY <1>12, <2>2
  <2>4. PICK m \in DOMAIN Tree(p[1]) :
              \A x \in DOMAIN Tree(p[1]) : Tree(p[1])[x].kind = kind => x = m
    BY <2>3 DEF Once
  <2>5. p[2] = m /\ q[2] = m
    BY <2>3, <2>4
  <2> QED
    BY <2>2, <2>3, <2>5
<1>14. ASSUME Places("block") # {} PROVE block = "set"
  <2>1. PICK p \in Places("block") : TRUE
    BY <1>14
  <2>2. p[1] \in 1..(n + 1) /\ Reached(p[1]).block = "set"
    BY <1>12
  <2>3. n + 1 \in p[1]..(n + 1)
    BY <1>1, <2>2
  <2> QED
    BY <1>2, <1>3, <1>4, <2>2, <2>3
<1>15. ASSUME block = "set" PROVE Places("block") # {}
  <2> DEFINE S == {k \in 1..(n + 1) : Reached(k).block = "set"}
  <2>1. n + 1 \in S
    BY <1>1, <1>3, <1>4, <1>15
  <2>2. PICK k \in S : \A j \in 1..(k - 1) : j \notin S
    <3>1. S \in SUBSET (1..(n + 1)) /\ S # {} /\ n + 1 \in Nat
      BY <1>1, <2>1
    <3> HIDE DEF S
    <3> QED
      BY <3>1, FirstReached
  <2>3. k \in 1..(n + 1) /\ Reached(k).block = "set"
    BY <2>2
  <2>4. Reached(k - 1).block # "set"
    <3>1. CASE k = 1
      BY <1>3, <3>1
    <3>2. CASE k # 1
      <4>1. k - 1 \in 1..(k - 1) /\ k - 1 \in 1..(n + 1)
        BY <1>1, <2>3, <3>2
      <4> QED
        BY <2>2, <4>1
    <3> QED
      BY <3>1, <3>2
  <2>5. PICK m \in DOMAIN Tree(k) : Tree(k)[m].kind = "block"
    BY <1>11, <2>3, <2>4 DEF Once
  <2> QED
    BY <2>3, <2>5, PlaceIs DEF n
<1> QED
  BY <1>10, <1>13, <1>14, <1>15

\* So does the tree of a page that is done.
LEMMA DoneTrees ==
    ASSUME IInv, frames = << >>, Finished(orphans, tree, Now)
    PROVE  /\ RefsMatchFootnotes
           /\ block = "set" <=> Places("block") # {}
           /\ \A kind \in {"block", "tails"} : \A p, q \in Places(kind) : p = q
<1>1. Len(frames) = 0 /\ Tree(1) = tree /\ 1..(Len(frames) + 1) = {1}
  BY DEF Tree
<1>2. Now.notes = Len(reg["footnotes"]) /\ Now.block = block /\ Now.notes \in Nat
  BY NowIsMark DEF Now, IInv, Mark
<1>3. tree \in Seq(Element)
  BY DEF IInv, TypeOK
<1>4. \A kind : /\ \A m \in DOMAIN tree :
                      tree[m].kind = kind => <<1, m>> \in Places(kind)
                /\ \A p \in Places(kind) :
                      /\ p = <<1, p[2]>> /\ p[2] \in DOMAIN tree
                      /\ At(p) = tree[p[2]] /\ At(p).kind = kind /\ p[1] = 1
  BY <1>1, PlaceIs
<1>5. Counts(orphans, tree, 0, Now.notes)
  BY DEF Finished
<1>6. Referred = (1..Len(reg["footnotes"])) \ orphans
  <2>1. ASSUME NEW p \in Places("footnote")
        PROVE  At(p).index \in (1..Len(reg["footnotes"])) \ orphans
    <3>1. p[2] \in DOMAIN tree /\ At(p) = tree[p[2]] /\ At(p).kind = "footnote"
      BY <1>4
    <3>2. At(p).index \in Nat
      BY <1>3, <3>1, Numbered
    <3> QED
      BY <1>2, <1>5, <3>1, <3>2 DEF Counts
  <2>2. ASSUME NEW i \in (1..Len(reg["footnotes"])) \ orphans
        PROVE  \E p \in Places("footnote") : At(p).index = i
    <3>1. i \in ((0 + 1)..Now.notes) \ orphans
      BY <1>2
    <3>2. PICK m \in DOMAIN tree : IsRef(tree[m], i)
      BY <1>5, <3>1 DEF Counts
    <3>3. <<1, m>> \in Places("footnote")
      BY <1>4, <3>2 DEF IsRef
    <3> QED
      BY <1>1, <3>2, <3>3 DEF IsRef, At
  <2> QED
    BY <2>1, <2>2 DEF Referred
<1>7. \A p, q \in Places("footnote") : Before(p, q) => At(p).index < At(q).index
  <2> SUFFICES ASSUME NEW p \in Places("footnote"), NEW q \in Places("footnote"),
                      Before(p, q)
               PROVE  At(p).index < At(q).index
    OBVIOUS
  <2>1. p[2] < q[2]
    BY <1>4 DEF Before
  <2> QED
    BY <1>4, <1>5, <2>1 DEF Counts
<1>8. ASSUME NEW kind \in {"block", "tails"},
             NEW p \in Places(kind), NEW q \in Places(kind)
      PROVE  p = q
  <2>1. Once(tree, kind) \/ Never(tree, kind)
    BY DEF Finished
  <2>2. p[2] = q[2]
    BY <1>4, <2>1 DEF Once, Never
  <2> QED
    BY <1>4, <2>2
<1>9. block = "set" <=> Places("block") # {}
  <2>1. CASE block = "set"
    <3>1. PICK m \in DOMAIN tree : tree[m].kind = "block"
      BY <1>2, <2>1 DEF Finished, Once
    <3> QED
      BY <1>4, <2>1, <3>1
  <2>2. CASE block # "set"
    <3>1. Never(tree, "block")
      BY <1>2, <2>2 DEF Finished
    <3> QED
      BY <1>4, <2>2, <3>1 DEF Never
  <2> QED
    BY <2>1, <2>2
<1> QED
  BY <1>6, <1>7, <1>8, <1>9 DEF RefsMatchFootnotes

LEMMA TreesSay ==
    ASSUME IInv, TreesFit
    PROVE  RefsMatchFootnotes /\ FootnotesPrintedOnce
<1>1. page \in {"parsing", "done"}
  BY DEF IInv, TypeOK
<1>2. /\ RefsMatchFootnotes
      /\ block = "set" <=> Places("block") # {}
      /\ \A kind \in {"block", "tails"} : \A p, q \in Places(kind) : p = q
  BY <1>1, ParsingTrees, DoneTrees DEF TreesFit
<1> QED
  BY <1>2 DEF FootnotesPrintedOnce

\* The trees and the registries stay in step.
LEMMA TreesInvariance == Spec => [](IInv /\ TreesFit)
<1>1. Init => IInv /\ TreesFit
  BY InitIInv, InitTrees
<1>2. IInv /\ TreesFit /\ [Next]_vars => (IInv /\ TreesFit)'
  BY NextIInv, NextTrees
<1> QED
  BY <1>1, <1>2, PTL DEF Spec

\* Whatever attempts, probes, fuses and trials ended, and however deep they were
\* nested, the elements that are left refer once and in order to the footnotes that
\* are registered, all but those a successful trial left behind
\* (parse_footnote_ref, truncate_footnotes, reset_mutable_state, evaluate_fn).
THEOREM FootnotesReferredOnce == Spec => []RefsMatchFootnotes
<1>1. IInv /\ TreesFit => RefsMatchFootnotes
  BY TreesSay
<1> QED
  BY <1>1, TreesInvariance, PTL

\* The page has a footnote block exactly if has_footnote_block says so, never two,
\* and no row tail in two places (parse_footnote_block, footnote_row_tails_flat).
THEOREM BlockPlacedOnce == Spec => []FootnotesPrintedOnce
<1>1. IInv /\ TreesFit => FootnotesPrintedOnce
  BY TreesSay
<1> QED
  BY <1>1, TreesInvariance, PTL

=============================================================================
