-------------------------- MODULE MemoryJournalProofs --------------------------
(***************************************************************************)
(* Proofs about MemoryJournal: for any number of compressions and entries, *)
(* nothing a user asked to remember is forgotten without a reason, and the *)
(* index finds the newest entries.                                         *)
(*                                                                         *)
(* A compression writes a journal on the strength of an older one, so the  *)
(* invariant speaks of every copy that may become the journal (Complete):  *)
(* it tells of all entries but those written since it was read, and those  *)
(* overwritten, blurred or cut.  The index holds the newest entries        *)
(* (Newest).  For the journal and the part that a compression keeps, an    *)
(* entry that is near the end has all later ones behind it, save for those *)
(* written since, or overwritten (Follows); counting them bounds how far   *)
(* the entry is from the end of the index (Counted).  A compression passes *)
(* this on because it keeps at least as many lines as the index has: of    *)
(* that, and of nothing else about the bounds, it depends                  *)
(* (MemoryConstants).                                                      *)
(*                                                                         *)
(* And about ChatHistory: what was said lately in a conversation is what   *)
(* its turns are given, for any number of turns, rounds and restarts.      *)
(* Memory and key each end in the last of what was said (Tracks); what     *)
(* they miss before that is too old, or too long ago.  Adding, sweeping,   *)
(* trimming and time keep it so, and a refill happens only when the key    *)
(* has ended, and with it all that was said (KeyTracks).                   *)
(***************************************************************************)
EXTENDS MemoryJournal, ChatHistory, SequenceTheorems, FiniteSetTheorems, WellFoundedInduction, TLAPS

\* What a compression may write, all in all; and it has read the journal.
CopyTold(t) == Told(task[t].done) \cup Told(task[t].left) \cup Told(task[t].recent)
AtModel(t) == task[t].at = "llm"

\* An entry that the journal does not tell of has a reason, and so it has if it is
\* missing in what a compression may write.
Explained == overwritten \cup blurred \cup cut
Complete ==
  /\ 1 .. noted \subseteq Told(journal) \cup Explained
  /\ \A t \in Compressors : AtModel(t) =>
       1 .. noted \subseteq CopyTold(t) \cup task[t].since \cup Explained

\* A line near the end of s is a summary or about one entry, and each later one of
\* the n entries is about a line behind it, or in missing.
Behind(s, i, e, n, missing) ==
  \A m \in e + 1 .. n : m \in missing \/ \E k \in i + 1 .. Len(s) : s[k].of = {m}
Follows(s, n, missing) ==
  \A i \in 1 .. Len(s) : Len(s) - i < IndexMax /\ ~s[i].summary =>
    \E e \in 1 .. n : s[i].of = {e} /\ Behind(s, i, e, n, missing)

\* l holds the newest of n entries.
Newest(l, n) ==
  /\ Len(l) = IF n <= IndexMax THEN n ELSE IndexMax
  /\ \A k \in 1 .. Len(l) : l[k] = n - Len(l) + k

InOrder ==
  /\ Newest(lines, noted) /\ Follows(journal, noted, overwritten)
  /\ \A t \in Compressors : AtModel(t) =>
       /\ Len(task[t].recent) = KeepRecent
       /\ Follows(task[t].recent, noted, overwritten \cup task[t].since)

MemoryInv == MemoryTypeOK /\ Complete /\ (memoryFaults = 0 => InOrder)

-----------------------------------------------------------------------------
(* Sequences                                                               *)

\* The last n of a sequence: as far from the end as they were.
LEMMA LatestIs ==
  ASSUME NEW S, NEW s \in Seq(S), NEW n \in Nat
  PROVE  /\ Latest(s, n) \in Seq(S)
         /\ Len(Latest(s, n)) = IF Len(s) <= n THEN Len(s) ELSE n
         /\ \A i \in 1 .. Len(Latest(s, n)) : Latest(s, n)[i] = s[Len(s) - Len(Latest(s, n)) + i]
<1>1. CASE Len(s) <= n
  BY <1>1, LenProperties DEF Latest
<1>2. CASE ~(Len(s) <= n)
  <2>1. Len(s) \in Nat /\ Latest(s, n) = SubSeq(s, Len(s) - n + 1, Len(s))
    BY <1>2, LenProperties DEF Latest
  <2>2. \A i \in Len(s) - n + 1 .. Len(s) : s[i] \in S
    BY <1>2, <2>1, LenProperties
  <2>3. /\ SubSeq(s, Len(s) - n + 1, Len(s)) \in Seq(S)
        /\ Len(SubSeq(s, Len(s) - n + 1, Len(s))) = n
        /\ \A i \in 1 .. n : SubSeq(s, Len(s) - n + 1, Len(s))[i] = s[Len(s) - n + i]
    <3>1. /\ SubSeq(s, Len(s) - n + 1, Len(s)) \in Seq(S)
          /\ Len(SubSeq(s, Len(s) - n + 1, Len(s)))
               = IF Len(s) - n + 1 <= Len(s) THEN Len(s) - (Len(s) - n + 1) + 1 ELSE 0
          /\ \A i \in 1 .. Len(s) - (Len(s) - n + 1) + 1 :
               SubSeq(s, Len(s) - n + 1, Len(s))[i] = s[(Len(s) - n + 1) + i - 1]
      BY <2>1, <2>2, SubSeqProperties
    <3> QED BY <1>2, <2>1, <3>1
  <2> QED BY <1>2, <2>1, <2>3
<1> QED BY <1>1, <1>2

\* A suffix of a text: what s is of r.
Suffix(s, r) ==
  Len(s) <= Len(r) /\ \A i \in 1 .. Len(s) : s[i] = r[Len(r) - Len(s) + i]

LEMMA LatestIsSuffix ==
  ASSUME NEW S, NEW s \in Seq(S), NEW n \in Nat
  PROVE  /\ Latest(s, n) \in Seq(S) /\ Suffix(Latest(s, n), s)
         /\ Latest(s, n) = s \/ Len(Latest(s, n)) = n
<1>1. Len(s) \in Nat
  BY LenProperties
<1>2. CASE Len(s) <= n
  <2>1. Latest(s, n) = s
    BY <1>2 DEF Latest
  <2> QED BY <1>1, <2>1 DEF Suffix
<1>3. CASE ~(Len(s) <= n)
  BY <1>1, <1>3, LatestIs DEF Suffix
<1> QED BY <1>2, <1>3

LEMMA TrimmedIs ==
  ASSUME NEW j \in Seq(Lines), NEW n
  PROVE  Trimmed(j, n) \in Seq(Lines) /\ Suffix(Trimmed(j, n), j)
<1>1. Len(j) \in Nat /\ TrimTo \in Nat
  BY LenProperties, MemoryConstants
<1>2. CASE n > Ceiling
  <2>1. Trimmed(j, n) = Latest(j, TrimTo)
    BY <1>2 DEF Trimmed
  <2> QED BY <1>1, <2>1, LatestIsSuffix
<1>3. CASE ~(n > Ceiling)
  <2>1. Trimmed(j, n) = j
    BY <1>3 DEF Trimmed
  <2> QED BY <1>1, <2>1 DEF Suffix
<1> QED BY <1>2, <1>3

\* What a text tells.
LEMMA ToldBy ==
  ASSUME NEW s \in Seq(Lines), NEW n
  PROVE  n \in Told(s) <=> \E i \in 1 .. Len(s) : n \in s[i].of
<1>1. DOMAIN s = 1 .. Len(s)
  BY LenProperties
<1> QED BY <1>1 DEF Told

LEMMA ToldEntries ==
  ASSUME NEW s \in Seq(Lines)
  PROVE  Told(s) \subseteq Entries
<1>1. \A i \in 1 .. Len(s) : s[i] \in Lines
  BY LenProperties
<1> QED BY <1>1, ToldBy DEF Lines

LEMMA ToldJoin ==
  ASSUME NEW s \in Seq(Lines), NEW r \in Seq(Lines)
  PROVE  s \o r \in Seq(Lines) /\ Told(s \o r) = Told(s) \cup Told(r)
<1>1. /\ s \o r \in Seq(Lines) /\ Len(s) \in Nat /\ Len(r) \in Nat
      /\ Len(s \o r) = Len(s) + Len(r)
      /\ \A i \in 1 .. Len(s) + Len(r) : (s \o r)[i] = IF i <= Len(s) THEN s[i] ELSE r[i - Len(s)]
  BY ConcatProperties, LenProperties
<1>2. ASSUME NEW n \in Told(s \o r) PROVE n \in Told(s) \cup Told(r)
  <2>1. PICK i \in 1 .. Len(s) + Len(r) : n \in (s \o r)[i].of
    BY <1>1, <1>2, ToldBy
  <2>2. CASE i <= Len(s)
    BY <1>1, <2>1, <2>2, ToldBy
  <2>3. CASE ~(i <= Len(s))
    <3>1. i - Len(s) \in 1 .. Len(r) /\ n \in r[i - Len(s)].of
      BY <1>1, <2>1, <2>3
    <3> QED BY <3>1, ToldBy
  <2> QED BY <2>2, <2>3
<1>3. ASSUME NEW n \in Told(s) PROVE n \in Told(s \o r)
  <2>1. PICK i \in 1 .. Len(s) : n \in s[i].of
    BY <1>3, ToldBy
  <2>2. i \in 1 .. Len(s \o r) /\ n \in (s \o r)[i].of
    BY <1>1, <2>1
  <2> QED BY <1>1, <2>2, ToldBy
<1>4. ASSUME NEW n \in Told(r) PROVE n \in Told(s \o r)
  <2>1. PICK i \in 1 .. Len(r) : n \in r[i].of
    BY <1>4, ToldBy
  <2>2. Len(s) + i \in 1 .. Len(s \o r) /\ n \in (s \o r)[Len(s) + i].of
    BY <1>1, <2>1
  <2> QED BY <1>1, <2>2, ToldBy
<1> QED BY <1>1, <1>2, <1>3, <1>4

LEMMA EmptyText == <<>> \in Seq(Lines) /\ Told(<<>>) = {} /\ Len(<<>>) = 0
<1>1. <<>> \in Seq(Lines) /\ Len(<<>>) = 0
  OBVIOUS
<1>2. ASSUME NEW n, n \in Told(<<>>) PROVE FALSE
  <2>1. PICK i \in 1 .. Len(<<>>) : n \in <<>>[i].of
    BY <1>1, <1>2, ToldBy
  <2> QED BY <1>1, <2>1
<1> QED BY <1>1, <1>2

\* A line more.
LEMMA ToldAppend ==
  ASSUME NEW s \in Seq(Lines), NEW x \in Lines
  PROVE  Append(s, x) \in Seq(Lines) /\ Told(Append(s, x)) = Told(s) \cup x.of
<1> PICK a : a = Append(s, x)
  OBVIOUS
<1>1. /\ a \in Seq(Lines) /\ Len(a) = Len(s) + 1 /\ \A i \in 1 .. Len(s) : a[i] = s[i]
      /\ a[Len(s) + 1] = x /\ Len(s) \in Nat
  BY AppendProperties, LenProperties
<1>2. ASSUME NEW n \in Told(a) PROVE n \in Told(s) \cup x.of
  <2>1. PICK i \in 1 .. Len(s) + 1 : n \in a[i].of
    BY <1>1, <1>2, ToldBy
  <2>2. CASE i = Len(s) + 1
    BY <1>1, <2>1, <2>2
  <2>3. CASE i # Len(s) + 1
    <3>1. i \in 1 .. Len(s) /\ n \in s[i].of
      BY <1>1, <2>1, <2>3
    <3> QED BY <3>1, ToldBy
  <2> QED BY <2>2, <2>3
<1>3. ASSUME NEW n \in Told(s) PROVE n \in Told(a)
  <2>1. PICK i \in 1 .. Len(s) : n \in s[i].of
    BY <1>3, ToldBy
  <2>2. i \in 1 .. Len(a) /\ n \in a[i].of
    BY <1>1, <2>1
  <2> QED BY <1>1, <2>2, ToldBy
<1>4. ASSUME NEW n \in x.of PROVE n \in Told(a)
  <2>1. Len(s) + 1 \in 1 .. Len(a) /\ n \in a[Len(s) + 1].of
    BY <1>1, <1>4
  <2> QED BY <1>1, <2>1, ToldBy
<1> QED BY <1>1, <1>2, <1>3, <1>4

\* What is read of the journal: a part to be compressed, and one to be kept.
LEMMA ReadInTwo ==
  ASSUME NEW j \in Seq(Lines), Len(j) >= Threshold,
         NEW older, older = SubSeq(j, 1, SplitAt(j)), NEW recent, recent = Latest(j, KeepRecent)
  PROVE  /\ older \in Seq(Lines) /\ recent \in Seq(Lines) /\ Len(recent) = KeepRecent
         /\ Told(j) = Told(older) \cup Told(recent) /\ Suffix(recent, j)
<1>1. /\ KeepRecent \in Nat /\ Threshold \in Nat /\ KeepRecent \in 1 .. Threshold - 1
      /\ Len(j) \in Nat
  BY LenProperties, MemoryConstants
<1>2. Len(j) > KeepRecent
  BY <1>1
<1>3. recent = SubSeq(j, SplitAt(j) + 1, Len(j)) /\ SplitAt(j) \in 0 .. Len(j)
  BY <1>1, <1>2 DEF Latest, SplitAt
<1>4. recent \in Seq(Lines) /\ Suffix(recent, j) /\ Len(recent) = KeepRecent
  <2>1. recent \in Seq(Lines) /\ Suffix(recent, j) /\ (recent = j \/ Len(recent) = KeepRecent)
    BY <1>1, LatestIsSuffix
  <2>2. Len(recent) = IF Len(j) <= KeepRecent THEN Len(j) ELSE KeepRecent
    BY <1>1, LatestIs
  <2> QED BY <1>1, <1>2, <2>1, <2>2
<1>5. older \in Seq(Lines)
  <2>1. \A i \in 1 .. SplitAt(j) : j[i] \in Lines
    BY <1>1, <1>3, LenProperties
  <2> QED BY <1>1, <1>3, <2>1, SubSeqProperties
<1>6. older \o recent = j
  <2>1. older \o recent = SubSeq(j, 1, Len(j))
    <3> PICK m, k, n : m = 1 /\ k = SplitAt(j) /\ n = Len(j)
      OBVIOUS
    <3>1. m \in 1 .. Len(j) + 1 /\ k \in m - 1 .. Len(j) /\ n \in k .. Len(j)
      BY <1>1, <1>3
    <3>2. SubSeq(j, m, k) \o SubSeq(j, k + 1, n) = SubSeq(j, m, n)
      BY <3>1, ConcatAdjacentSubSeq
    <3> QED BY <1>3, <3>2
  <2>2. SubSeq(j, 1, Len(j)) = j
    BY SubSeqFull
  <2> QED BY <2>1, <2>2
<1>7. Told(older \o recent) = Told(older) \cup Told(recent)
  BY <1>4, <1>5, ToldJoin
<1> QED BY <1>4, <1>5, <1>6, <1>7

\* A batch and what is made of it.
LEMMA SummaryIs ==
  ASSUME NEW batch \in Seq(Lines)
  PROVE  /\ Summary(batch) \in Seq(Lines) /\ Told(Summary(batch)) = Shown(batch)
         /\ Shown(batch) \subseteq Told(batch)
<1> PICK line : line = [of |-> Shown(batch), summary |-> TRUE]
  OBVIOUS
<1>1. Shown(batch) \subseteq Told(batch)
  BY DEF Shown, Told
<1>2. line \in Lines
  <2>1. Shown(batch) \in SUBSET Entries
    BY <1>1, ToldEntries
  <2> QED BY <2>1 DEF Lines
<1>3. Summary(batch) = <<line>>
  BY DEF Summary
<1>4. <<line>> \in Seq(Lines)
  BY <1>2
<1>5. Told(<<line>>) = line.of
  <2> PICK one : one = <<line>>
    OBVIOUS
  <2>1. DOMAIN one = {1} /\ one[1] = line
    OBVIOUS
  <2>2. Told(one) = line.of
    BY <2>1 DEF Told
  <2> QED BY <2>2
<1> QED BY <1>1, <1>3, <1>4, <1>5

LEMMA BatchTaken ==
  ASSUME NEW left \in Seq(Lines), NEW taken \in 1 .. Len(left)
  PROVE  /\ SubSeq(left, 1, taken) \in Seq(Lines) /\ Len(SubSeq(left, 1, taken)) = taken
         /\ SubSeq(left, taken + 1, Len(left)) \in Seq(Lines)
         /\ Told(left) = Told(SubSeq(left, 1, taken)) \cup Told(SubSeq(left, taken + 1, Len(left)))
<1> PICK first, others : first = SubSeq(left, 1, taken) /\ others = SubSeq(left, taken + 1, Len(left))
  OBVIOUS
<1>1. /\ Len(left) \in Nat /\ taken \in Nat /\ taken >= 1 /\ taken <= Len(left)
      /\ \A i \in 1 .. Len(left) : left[i] \in Lines
  BY LenProperties
<1>2. first \in Seq(Lines) /\ Len(first) = taken
  <2>1. \A i \in 1 .. taken : left[i] \in Lines
    BY <1>1
  <2> QED BY <1>1, <2>1, SubSeqProperties
<1>3. others \in Seq(Lines)
  <2>1. taken + 1 \in Int /\ Len(left) \in Int /\ \A i \in taken + 1 .. Len(left) : left[i] \in Lines
    BY <1>1
  <2> QED BY <2>1, SubSeqProperties
<1>4. first \o others = left
  <2> PICK from, to : from = 1 /\ to = Len(left)
    OBVIOUS
  <2>1. from \in 1 .. Len(left) + 1 /\ taken \in from - 1 .. Len(left) /\ to \in taken .. Len(left)
    BY <1>1
  <2>2. SubSeq(left, from, taken) \o SubSeq(left, taken + 1, to) = SubSeq(left, from, to)
    BY <2>1, ConcatAdjacentSubSeq
  <2>3. SubSeq(left, 1, Len(left)) = left
    BY SubSeqFull
  <2> QED BY <2>2, <2>3
<1>5. Told(first \o others) = Told(first) \cup Told(others)
  BY <1>2, <1>3, ToldJoin
<1> QED BY <1>2, <1>3, <1>4, <1>5

-----------------------------------------------------------------------------
(* What follows an entry                                                   *)

LEMMA IndexNats == IndexMax \in Nat /\ IndexMax > 0 /\ KeepRecent \in Nat /\ IndexMax <= KeepRecent
BY MemoryConstants

LEMMA FollowsMore ==
  ASSUME NEW s \in Seq(Lines), NEW n \in Nat, NEW some, NEW more, some \subseteq more,
         Follows(s, n, some)
  PROVE  Follows(s, n, more)
BY DEF Follows, Behind

\* An entry is written elsewhere.
LEMMA FollowsLater ==
  ASSUME NEW s \in Seq(Lines), NEW n \in Nat, NEW missing, Follows(s, n, missing)
  PROVE  Follows(s, n + 1, missing \cup {n + 1})
<1> SUFFICES ASSUME NEW i \in 1 .. Len(s), Len(s) - i < IndexMax, ~s[i].summary
             PROVE  \E e \in 1 .. n + 1 : s[i].of = {e} /\ Behind(s, i, e, n + 1, missing \cup {n + 1})
  BY DEF Follows
<1>1. PICK e \in 1 .. n : s[i].of = {e} /\ Behind(s, i, e, n, missing)
  BY DEF Follows
<1>2. \A m \in e + 1 .. n + 1 : m = n + 1 \/ m \in e + 1 .. n
  OBVIOUS
<1>3. ASSUME NEW m \in e + 1 .. n + 1, m \notin missing \cup {n + 1}
      PROVE  \E k \in i + 1 .. Len(s) : s[k].of = {m}
  <2>1. m \in e + 1 .. n
    BY <1>2, <1>3
  <2> QED BY <1>1, <1>3, <2>1 DEF Behind
<1>4. Behind(s, i, e, n + 1, missing \cup {n + 1})
  BY <1>3 DEF Behind
<1>5. e \in 1 .. n + 1
  OBVIOUS
<1> QED BY <1>1, <1>4, <1>5

\* An entry is pushed.
LEMMA FollowsPush ==
  ASSUME NEW s \in Seq(Lines), NEW n \in Nat, n + 1 \in Entries, NEW missing, Follows(s, n, missing),
         NEW grown, grown = Append(s, Raw(n + 1))
  PROVE  grown \in Seq(Lines) /\ Follows(grown, n + 1, missing)
<1>1. Raw(n + 1) \in Lines /\ Raw(n + 1).of = {n + 1}
  BY DEF Raw, Lines
<1>2. /\ grown \in Seq(Lines) /\ Len(grown) = Len(s) + 1 /\ Len(s) \in Nat
      /\ \A i \in 1 .. Len(s) : grown[i] = s[i]
      /\ grown[Len(s) + 1].of = {n + 1}
  BY <1>1, AppendProperties, LenProperties
<1>3. ASSUME NEW i \in 1 .. Len(grown), Len(grown) - i < IndexMax, ~grown[i].summary
      PROVE  \E e \in 1 .. n + 1 : grown[i].of = {e} /\ Behind(grown, i, e, n + 1, missing)
  <2>1. CASE i = Len(s) + 1
    <3>1. Behind(grown, i, n + 1, n + 1, missing)
      BY DEF Behind
    <3> QED BY <1>2, <2>1, <3>1
  <2>2. CASE i # Len(s) + 1
    <3>1. i \in 1 .. Len(s) /\ Len(s) - i < IndexMax /\ grown[i] = s[i]
      BY <1>2, <1>3, <2>2, IndexNats
    <3>2. PICK e \in 1 .. n : s[i].of = {e} /\ Behind(s, i, e, n, missing)
      BY <1>3, <3>1 DEF Follows
    <3>3. ASSUME NEW m \in e + 1 .. n + 1, m \notin missing
          PROVE  \E k \in i + 1 .. Len(grown) : grown[k].of = {m}
      <4>1. CASE m = n + 1
        BY <1>2, <3>1, <4>1
      <4>2. CASE m # n + 1
        <5>1. m \in e + 1 .. n
          BY <4>2
        <5>2. PICK k \in i + 1 .. Len(s) : s[k].of = {m}
          BY <3>2, <3>3, <5>1 DEF Behind
        <5> QED BY <1>2, <3>1, <5>2
      <4> QED BY <4>1, <4>2
    <3>4. Behind(grown, i, e, n + 1, missing)
      BY <3>3 DEF Behind
    <3>5. e \in 1 .. n + 1
      OBVIOUS
    <3> QED BY <3>1, <3>2, <3>4, <3>5
  <2> QED BY <2>1, <2>2
<1> QED BY <1>2, <1>3 DEF Follows

\* What is near the end of a text is so in its last part.
LEMMA FollowsSuffix ==
  ASSUME NEW s \in Seq(Lines), NEW r \in Seq(Lines), Suffix(r, s), NEW n \in Nat, NEW missing,
         Follows(s, n, missing)
  PROVE  Follows(r, n, missing)
<1>1. Len(s) \in Nat /\ Len(r) \in Nat /\ Len(r) <= Len(s)
  BY LenProperties DEF Suffix
<1> PICK d : d = Len(s) - Len(r)
  OBVIOUS
<1>2. d \in Nat /\ \A i \in 1 .. Len(r) : r[i] = s[d + i] /\ d + i \in 1 .. Len(s)
  BY <1>1 DEF Suffix
<1> SUFFICES ASSUME NEW i \in 1 .. Len(r), Len(r) - i < IndexMax, ~r[i].summary
             PROVE  \E e \in 1 .. n : r[i].of = {e} /\ Behind(r, i, e, n, missing)
  BY DEF Follows
<1>3. d + i \in 1 .. Len(s) /\ Len(s) - (d + i) < IndexMax /\ ~s[d + i].summary
  BY <1>1, <1>2, IndexNats
<1>4. PICK e \in 1 .. n : s[d + i].of = {e} /\ Behind(s, d + i, e, n, missing)
  BY <1>3 DEF Follows
<1>5. ASSUME NEW m \in e + 1 .. n, m \notin missing PROVE \E k \in i + 1 .. Len(r) : r[k].of = {m}
  <2>1. PICK k \in d + i + 1 .. Len(s) : s[k].of = {m}
    BY <1>4, <1>5 DEF Behind
  <2>2. k - d \in i + 1 .. Len(r) /\ k - d \in 1 .. Len(r) /\ d + (k - d) = k
    BY <1>1, <1>2
  <2>3. r[k - d] = s[k]
    BY <1>2, <2>2
  <2> QED BY <2>1, <2>2, <2>3
<1> QED BY <1>2, <1>4, <1>5 DEF Behind

\* And what a compression puts before the part it keeps is not near the end.
LEMMA FollowsJoin ==
  ASSUME NEW s \in Seq(Lines), NEW r \in Seq(Lines), Len(r) >= IndexMax, NEW n \in Nat, NEW missing,
         Follows(r, n, missing), NEW j, j = s \o r
  PROVE  Follows(j, n, missing)
<1>1. Len(s) \in Nat /\ Len(r) \in Nat /\ IndexMax \in Nat
  BY LenProperties, IndexNats
<1>2. /\ j \in Seq(Lines) /\ Len(j) = Len(s) + Len(r)
      /\ \A i \in 1 .. Len(r) : j[Len(s) + i] = r[i]
  <2>1. /\ j \in Seq(Lines) /\ Len(j) = Len(s) + Len(r)
        /\ \A i \in 1 .. Len(s) + Len(r) : j[i] = IF i <= Len(s) THEN s[i] ELSE r[i - Len(s)]
    BY ConcatProperties
  <2>2. \A i \in 1 .. Len(r) : Len(s) + i \in 1 .. Len(s) + Len(r) /\ ~(Len(s) + i <= Len(s))
                               /\ (Len(s) + i) - Len(s) = i
    BY <1>1
  <2> QED BY <2>1, <2>2
<1> SUFFICES ASSUME NEW i \in 1 .. Len(j), Len(j) - i < IndexMax, ~j[i].summary
             PROVE  \E e \in 1 .. n : j[i].of = {e} /\ Behind(j, i, e, n, missing)
  BY DEF Follows
<1> PICK h : h = i - Len(s)
  OBVIOUS
<1>3. h \in 1 .. Len(r) /\ Len(r) - h < IndexMax /\ j[i] = r[h] /\ i = Len(s) + h
  <2>1. h \in 1 .. Len(r) /\ Len(r) - h < IndexMax /\ i = Len(s) + h
    BY <1>1, <1>2
  <2> QED BY <1>2, <2>1
<1>4. PICK e \in 1 .. n : r[h].of = {e} /\ Behind(r, h, e, n, missing)
  BY <1>3 DEF Follows
<1>5. ASSUME NEW m \in e + 1 .. n, m \notin missing PROVE \E k \in i + 1 .. Len(j) : j[k].of = {m}
  <2>1. PICK k \in h + 1 .. Len(r) : r[k].of = {m}
    BY <1>4, <1>5 DEF Behind
  <2>2. Len(s) + k \in i + 1 .. Len(j) /\ k \in 1 .. Len(r)
    BY <1>1, <1>2, <1>3
  <2> QED BY <1>2, <2>1, <2>2
<1> QED BY <1>3, <1>4, <1>5 DEF Behind

\* The later entries are no more than the lines behind the entry and the missing ones.
LEMMA Counted ==
  ASSUME NEW s \in Seq(Lines), NEW i \in 1 .. Len(s), NEW n \in Nat, NEW e \in 1 .. n,
         NEW missing, missing \subseteq Entries, Behind(s, i, e, n, missing)
  PROVE  Cardinality(missing) \in Nat /\ n - e <= Len(s) - i + Cardinality(missing)
<1>1. Len(s) \in Nat /\ MaxEntries \in Nat
  BY LenProperties, MemoryConstants
<1>2. IsFiniteSet(missing) /\ Cardinality(missing) \in Nat
  <2>1. IsFiniteSet(Entries)
    BY <1>1, FS_Interval DEF Entries
  <2> QED BY <2>1, FS_Subset, FS_CardinalityType
<1> PICK later, behind : later = e + 1 .. n /\ behind = i + 1 .. Len(s)
  OBVIOUS
<1>3. /\ IsFiniteSet(later) /\ Cardinality(later) = n - e
      /\ IsFiniteSet(behind) /\ Cardinality(behind) = Len(s) - i
  <2>1. /\ e + 1 \in Int /\ n \in Int /\ i + 1 \in Int /\ Len(s) \in Int
        /\ (e + 1 > n => n - e = 0) /\ (i + 1 > Len(s) => Len(s) - i = 0)
        /\ n - (e + 1) + 1 = n - e /\ Len(s) - (i + 1) + 1 = Len(s) - i
    BY <1>1
  <2> QED BY <2>1, FS_Interval
\* each of them that is not missing is told by a line of its own
<1> DEFINE line(m) == CHOOSE k \in behind : s[k].of = {m}
<1>4. \A m \in later \ missing : line(m) \in behind /\ s[line(m)].of = {m}
  <2> TAKE m \in later \ missing
  <2>1. \E k \in behind : s[k].of = {m}
    BY DEF Behind
  <2> QED BY <2>1
<1> HIDE DEF line
<1> PICK f : f = [m \in later \ missing |-> line(m)]
  OBVIOUS
<1>5. f \in Injection(later \ missing, behind)
  <2>1. f \in [later \ missing -> behind]
    BY <1>4
  <2>2. \A a, b \in later \ missing : f[a] = f[b] => a = b
    BY <1>4
  <2> QED BY <2>1, <2>2 DEF Injection, IsInjective
<1>6. IsFiniteSet(later \ missing) /\ Cardinality(later \ missing) <= Len(s) - i
  <2>1. IsFiniteSet(later \ missing)
    BY <1>3, FS_Difference
  <2>2. Cardinality(later \ missing) <= Cardinality(behind)
    BY <1>3, <1>5, FS_Injection
  <2> QED BY <1>3, <2>1, <2>2
<1>7. Cardinality(later) <= Cardinality(later \ missing) + Cardinality(missing)
  <2>1. Cardinality(later \ missing) = Cardinality(later) - Cardinality(later \cap missing)
    BY <1>3, FS_Difference
  <2>2. Cardinality(later \cap missing) <= Cardinality(missing)
    BY <1>2, FS_Subset
  <2>3. Cardinality(later \cap missing) \in Nat /\ Cardinality(later) \in Nat /\ Cardinality(missing) \in Nat
    BY <1>2, <1>3, FS_Intersection, FS_Subset, FS_CardinalityType
  <2> QED BY <2>1, <2>2, <2>3
<1>8. Cardinality(later \ missing) \in Nat
  BY <1>6, FS_CardinalityType
<1> QED BY <1>1, <1>2, <1>3, <1>6, <1>7, <1>8

\* The index takes a line.
LEMMA NewestLine ==
  ASSUME NEW l \in Seq(Entries), NEW n \in Nat, n + 1 \in Entries
  PROVE  /\ WithLine(l, n + 1) \in Seq(Entries) /\ Len(WithLine(l, n + 1)) <= IndexMax
         /\ Newest(l, n) => Newest(WithLine(l, n + 1), n + 1)
<1> PICK a : a = Append(l, n + 1)
  OBVIOUS
<1> PICK w : w = Latest(a, IndexMax)
  OBVIOUS
<1>1. /\ a \in Seq(Entries) /\ Len(a) = Len(l) + 1 /\ a[Len(l) + 1] = n + 1
      /\ \A i \in 1 .. Len(l) : a[i] = l[i]
  BY AppendProperties
<1>2. /\ w \in Seq(Entries) /\ Len(w) = IF Len(a) <= IndexMax THEN Len(a) ELSE IndexMax
      /\ \A i \in 1 .. Len(w) : w[i] = a[Len(a) - Len(w) + i]
  <2>1. a \in Seq(Entries)
    BY <1>1
  <2> QED BY <2>1, LatestIs, IndexNats
<1>3. Len(l) \in Nat /\ IndexMax \in Nat /\ IndexMax > 0 /\ Len(w) \in Nat /\ Len(a) \in Nat
  BY <1>1, <1>2, LenProperties, IndexNats
<1>4. ASSUME Newest(l, n) PROVE Newest(w, n + 1)
  <2>1. /\ Len(l) = IF n <= IndexMax THEN n ELSE IndexMax
        /\ \A k \in 1 .. Len(l) : l[k] = n - Len(l) + k
    BY <1>4 DEF Newest
  <2>2. Len(w) = IF n + 1 <= IndexMax THEN n + 1 ELSE IndexMax
    BY <1>1, <1>2, <1>3, <2>1
  <2>3. \A i \in 1 .. Len(a) : a[i] = n + 1 - Len(a) + i
    <3> TAKE i \in 1 .. Len(a)
    <3>1. CASE i = Len(l) + 1
      BY <1>1, <1>3, <3>1
    <3>2. CASE i # Len(l) + 1
      <4>1. i \in 1 .. Len(l)
        BY <1>1, <1>3, <3>2
      <4>2. a[i] = n - Len(l) + i
        BY <1>1, <2>1, <4>1
      <4> QED BY <1>1, <1>3, <4>1, <4>2
    <3> QED BY <3>1, <3>2
  <2>4. ASSUME NEW k \in 1 .. Len(w) PROVE w[k] = n + 1 - Len(w) + k
    <3>1. Len(a) - Len(w) + k \in 1 .. Len(a)
      BY <1>2, <1>3
    <3>2. w[k] = n + 1 - Len(a) + (Len(a) - Len(w) + k)
      BY <1>2, <2>3, <3>1
    <3> QED BY <1>3, <3>2
  <2> QED BY <2>2, <2>4 DEF Newest
<1>5. WithLine(l, n + 1) = w
  BY DEF WithLine
<1> QED BY <1>2, <1>3, <1>4, <1>5

-----------------------------------------------------------------------------
(* The state                                                               *)

\* where a compression is
Steps == [at: {"idle", "created", "llm"}, done: Seq(Lines), left: Seq(Lines), recent: Seq(Lines),
          since: SUBSET Entries]

LEMMA MemoryTypes ==
  ASSUME MemoryTypeOK
  PROVE  /\ journal \in Seq(Lines) /\ lines \in Seq(Entries) /\ Len(lines) <= IndexMax
         /\ noted \in 0 .. MaxEntries /\ noted \in Nat
         /\ task \in [Compressors -> Steps]
         /\ memoryFaults \in 0 .. MaxMemoryFaults /\ memoryCrashes \in 0 .. MaxMemoryCrashes
         /\ overwritten \subseteq Entries /\ blurred \subseteq Entries /\ cut \subseteq Entries
BY MemoryConstants DEF MemoryTypeOK, Steps

LEMMA TypedMemory ==
  ASSUME journal' \in Seq(Lines), lines' \in Seq(Entries), Len(lines') <= IndexMax,
         noted' \in 0 .. MaxEntries, task' \in [Compressors -> Steps],
         memoryFaults' \in 0 .. MaxMemoryFaults, memoryCrashes' \in 0 .. MaxMemoryCrashes,
         overwritten' \subseteq Entries, blurred' \subseteq Entries, cut' \subseteq Entries
  PROVE  MemoryTypeOK'
BY DEF MemoryTypeOK, Steps

LEMMA TaskTypes ==
  ASSUME MemoryTypeOK, NEW t \in Compressors
  PROVE  /\ task[t] \in Steps
         /\ task[t].done \in Seq(Lines) /\ task[t].left \in Seq(Lines) /\ task[t].recent \in Seq(Lines)
         /\ task[t].since \subseteq Entries
<1>1. task[t] \in Steps
  BY MemoryTypes
<1> QED BY <1>1 DEF Steps

LEMMA IdleTask == NoTask \in Steps /\ NoTask.at = "idle"
BY EmptyText DEF NoTask, Steps

LEMMA FaultCounted ==
  ASSUME MemoryTypeOK, MemoryFault
  PROVE  memoryFaults' \in 0 .. MaxMemoryFaults /\ memoryFaults' # 0
BY MemoryConstants DEF MemoryTypeOK, MemoryFault

-----------------------------------------------------------------------------
(* Writers                                                                 *)

LEMMA UnreadIs ==
  ASSUME MemoryTypeOK, NEW n \in Entries
  PROVE  /\ Unread(n) \in [Compressors -> Steps]
         /\ \A t \in Compressors :
              /\ Unread(n)[t].at = task[t].at /\ Unread(n)[t].done = task[t].done
              /\ Unread(n)[t].left = task[t].left /\ Unread(n)[t].recent = task[t].recent
              /\ AtModel(t) => Unread(n)[t].since = task[t].since \cup {n}
<1> SUFFICES ASSUME NEW t \in Compressors
             PROVE  /\ Unread(n)[t] \in Steps
                    /\ Unread(n)[t].at = task[t].at /\ Unread(n)[t].done = task[t].done
                    /\ Unread(n)[t].left = task[t].left /\ Unread(n)[t].recent = task[t].recent
                    /\ AtModel(t) => Unread(n)[t].since = task[t].since \cup {n}
  BY DEF Unread
<1>1. task[t] \in Steps
  BY MemoryTypes
<1>2. CASE AtModel(t)
  <2>1. Unread(n)[t] = [task[t] EXCEPT !.since = @ \cup {n}]
    BY <1>2 DEF Unread, AtModel
  <2>2. task[t].since \cup {n} \subseteq Entries
    BY <1>1 DEF Steps
  <2> QED BY <1>1, <2>1, <2>2 DEF Steps
<1>3. CASE ~AtModel(t)
  <2>1. Unread(n)[t] = task[t]
    BY <1>3 DEF Unread, AtModel
  <2> QED BY <1>1, <1>3, <2>1
<1> QED BY <1>2, <1>3

\* One call of remember: types, and what the journal tells afterwards.
LEMMA EntryRemembered ==
  ASSUME MemoryTypeOK, Complete, noted < MaxEntries, NEW length, Remember(noted + 1, length)
  PROVE  /\ journal' \in Seq(Lines) /\ lines' \in Seq(Entries) /\ Len(lines') <= IndexMax
         /\ noted' = noted + 1 /\ noted + 1 \in Entries /\ noted' \in 0 .. MaxEntries
         /\ memoryFaults' \in 0 .. MaxMemoryFaults /\ cut \subseteq cut' /\ cut' \subseteq Entries
         /\ Told(journal) \cup {noted + 1} \subseteq Told(journal') \cup cut'
<1>1. /\ noted \in Nat /\ noted + 1 \in Entries /\ noted + 1 \in 0 .. MaxEntries
      /\ journal \in Seq(Lines) /\ lines \in Seq(Entries) /\ Len(lines) <= IndexMax
  BY MemoryTypes, MemoryConstants DEF Entries
<1>2. Raw(noted + 1) \in Lines
  BY <1>1 DEF Raw, Lines
<1>3. /\ noted' = noted + 1
      /\ cut' = cut \cup ((Told(journal) \cup {noted + 1}) \ Told(journal'))
  BY DEF Remember
<1>4. cut' \subseteq Entries /\ cut \subseteq cut'
  BY <1>1, <1>3, MemoryTypes, ToldEntries
<1>5. WithLine(lines, noted + 1) \in Seq(Entries) /\ Len(WithLine(lines, noted + 1)) <= IndexMax
  BY <1>1, NewestLine
<1>6. WithLine(<<>>, noted + 1) \in Seq(Entries) /\ Len(WithLine(<<>>, noted + 1)) <= IndexMax
  <2>1. <<>> \in Seq(Entries)
    OBVIOUS
  <2> QED BY <1>1, <2>1, NewestLine
<1>7. CASE /\ journal' = Trimmed(Append(journal, Raw(noted + 1)), length)
           /\ lines' = WithLine(lines, noted + 1) /\ UNCHANGED memoryFaults
  <2>1. journal' \in Seq(Lines)
    BY <1>1, <1>2, <1>7, ToldAppend, TrimmedIs
  <2> QED BY <1>1, <1>3, <1>4, <1>5, <1>7, <2>1, MemoryTypes
<1>8. ASSUME NEW pushed \in {<<>>, <<Raw(noted + 1)>>, <<Raw(noted + 1), Raw(noted + 1)>>},
             NEW grown, grown = journal \o pushed, journal' \in {grown, Trimmed(grown, length)},
             lines' \in {lines, WithLine(lines, noted + 1), WithLine(<<>>, noted + 1)}, MemoryFault
      PROVE  /\ journal' \in Seq(Lines) /\ lines' \in Seq(Entries) /\ Len(lines') <= IndexMax
             /\ memoryFaults' \in 0 .. MaxMemoryFaults
  <2>1. pushed \in Seq(Lines)
    <3>1. <<>> \in Seq(Lines) /\ <<Raw(noted + 1)>> \in Seq(Lines)
          /\ <<Raw(noted + 1), Raw(noted + 1)>> \in Seq(Lines)
      BY <1>2
    <3> QED BY <1>8, <3>1
  <2>2. grown \in Seq(Lines)
    BY <1>1, <1>8, <2>1, ToldJoin
  <2>3. journal' \in Seq(Lines)
    BY <1>8, <2>2, TrimmedIs
  <2>4. lines' \in Seq(Entries) /\ Len(lines') <= IndexMax
    BY <1>1, <1>5, <1>6, <1>8
  <2> QED BY <1>8, <2>3, <2>4, FaultCounted
<1>9. /\ journal' \in Seq(Lines) /\ lines' \in Seq(Entries) /\ Len(lines') <= IndexMax
      /\ memoryFaults' \in 0 .. MaxMemoryFaults
  BY <1>7, <1>8 DEF Remember
<1> QED BY <1>1, <1>3, <1>4, <1>9

\* And without a fault, the order.
LEMMA InOrderRemembered ==
  ASSUME MemoryTypeOK, noted < MaxEntries, NEW length, Remember(noted + 1, length),
         memoryFaults = 0 => InOrder, memoryFaults' = 0, UNCHANGED overwritten
  PROVE  Newest(lines', noted') /\ Follows(journal', noted', overwritten')
<1>1. noted \in Nat /\ noted + 1 \in Entries /\ journal \in Seq(Lines) /\ lines \in Seq(Entries)
  BY MemoryTypes, MemoryConstants DEF Entries
<1> PICK grown : grown = Append(journal, Raw(noted + 1))
  OBVIOUS
<1>2. ~MemoryFault
  BY FaultCounted
<1>3. /\ journal' = Trimmed(grown, length) /\ lines' = WithLine(lines, noted + 1)
      /\ memoryFaults' = memoryFaults /\ noted' = noted + 1
  BY <1>2 DEF Remember
<1>4. Newest(lines, noted) /\ Follows(journal, noted, overwritten)
  BY <1>3 DEF InOrder
<1>5. grown \in Seq(Lines) /\ Follows(grown, noted + 1, overwritten)
  BY <1>1, <1>4, FollowsPush
<1>6. Follows(Trimmed(grown, length), noted + 1, overwritten)
  <2>1. Trimmed(grown, length) \in Seq(Lines) /\ Suffix(Trimmed(grown, length), grown)
    BY <1>5, TrimmedIs
  <2>2. noted + 1 \in Nat
    BY <1>1
  <2> QED BY <1>5, <2>1, <2>2, FollowsSuffix
<1>7. Newest(WithLine(lines, noted + 1), noted + 1)
  BY <1>1, <1>4, NewestLine
<1> QED BY <1>3, <1>6, <1>7

\* A call of remember, and compressions that are as they were save for what is new.
LEMMA RememberStep ==
  ASSUME MemoryInv, noted < MaxEntries, NEW length, Remember(noted + 1, length),
         UNCHANGED <<memoryCrashes, overwritten, blurred>>,
         task' \in [Compressors -> Steps],
         \A t \in Compressors : AtModel(t)' => AtModel(t) /\ task'[t] = Unread(noted + 1)[t]
  PROVE  MemoryInv'
<1>1. MemoryTypeOK /\ Complete
  BY DEF MemoryInv
<1>2. /\ journal' \in Seq(Lines) /\ lines' \in Seq(Entries) /\ Len(lines') <= IndexMax
      /\ noted' = noted + 1 /\ noted + 1 \in Entries /\ noted' \in 0 .. MaxEntries
      /\ memoryFaults' \in 0 .. MaxMemoryFaults /\ cut \subseteq cut' /\ cut' \subseteq Entries
      /\ Told(journal) \cup {noted + 1} \subseteq Told(journal') \cup cut'
  BY <1>1, EntryRemembered
<1>3. MemoryTypeOK'
  BY <1>1, <1>2, MemoryTypes, TypedMemory
<1>4. /\ Explained \subseteq Explained'
      /\ \A m \in 1 .. noted' : m \in 1 .. noted \/ m = noted + 1
  <2>1. noted \in Nat
    BY <1>1, MemoryTypes
  <2> QED BY <1>2, <2>1 DEF Explained
<1>5. ASSUME NEW t \in Compressors, AtModel(t)'
      PROVE  /\ AtModel(t) /\ CopyTold(t)' = CopyTold(t) /\ task'[t].recent = task[t].recent
             /\ task'[t].since = task[t].since \cup {noted + 1}
  <2>1. AtModel(t) /\ task'[t] = Unread(noted + 1)[t]
    BY <1>5
  <2>2. /\ task'[t].done = task[t].done /\ task'[t].left = task[t].left
        /\ task'[t].recent = task[t].recent /\ task'[t].since = task[t].since \cup {noted + 1}
    BY <1>1, <1>2, <2>1, UnreadIs
  <2> QED BY <2>1, <2>2 DEF CopyTold
<1>6. Complete'
  <2>1. 1 .. noted' \subseteq Told(journal') \cup Explained'
    <3>1. cut' \subseteq Explained'
      BY DEF Explained
    <3> QED BY <1>1, <1>2, <1>4, <3>1 DEF Complete
  <2>2. ASSUME NEW t \in Compressors, AtModel(t)'
        PROVE  1 .. noted' \subseteq CopyTold(t)' \cup task'[t].since \cup Explained'
    <3>1. 1 .. noted \subseteq CopyTold(t) \cup task[t].since \cup Explained
      BY <1>1, <1>5, <2>2 DEF Complete
    <3> QED BY <1>4, <1>5, <2>2, <3>1
  <2> QED BY <2>1, <2>2 DEF Complete
<1>7. ASSUME memoryFaults' = 0 PROVE InOrder'
  <2>1. memoryFaults = 0
    <3>1. ~MemoryFault
      BY <1>1, <1>7, FaultCounted
    <3> QED BY <1>7, <3>1 DEF Remember
  <2>2. InOrder
    BY <2>1 DEF MemoryInv
  <2>3. Newest(lines', noted') /\ Follows(journal', noted', overwritten')
    BY <1>1, <1>7, <2>2, InOrderRemembered
  <2>4. ASSUME NEW t \in Compressors, AtModel(t)'
        PROVE  /\ Len(task'[t].recent) = KeepRecent
               /\ Follows(task'[t].recent, noted', overwritten' \cup task'[t].since)
    <3>1. /\ Len(task[t].recent) = KeepRecent
          /\ Follows(task[t].recent, noted, overwritten \cup task[t].since)
      BY <1>5, <2>2, <2>4 DEF InOrder
    <3>2. noted \in Nat /\ task[t].recent \in Seq(Lines)
      BY <1>1, MemoryTypes, TaskTypes
    <3>3. Follows(task[t].recent, noted + 1, (overwritten \cup task[t].since) \cup {noted + 1})
      BY <3>1, <3>2, FollowsLater
    <3>4. (overwritten \cup task[t].since) \cup {noted + 1} = overwritten' \cup task'[t].since
      BY <1>5, <2>4
    <3> QED BY <1>2, <1>5, <2>4, <3>1, <3>3, <3>4
  <2> QED BY <2>3, <2>4 DEF InOrder
<1> QED BY <1>3, <1>6, <1>7 DEF MemoryInv

LEMMA NoteStep == ASSUME MemoryInv, Note PROVE MemoryInv'
<1>1. PICK length \in 0 .. Len(journal) + 2 : Remember(noted + 1, length)
  BY DEF Note
<1>2. /\ noted < MaxEntries /\ task' = Unread(noted + 1)
      /\ UNCHANGED <<memoryCrashes, overwritten, blurred>>
  BY DEF Note
<1>3. MemoryTypeOK /\ noted + 1 \in Entries
  <2>1. MemoryTypeOK
    BY DEF MemoryInv
  <2>2. noted \in Nat /\ MaxEntries \in Nat
    BY <2>1, MemoryTypes, MemoryConstants
  <2> QED BY <1>2, <2>1, <2>2 DEF Entries
<1>4. /\ task' \in [Compressors -> Steps]
      /\ \A t \in Compressors : AtModel(t)' => AtModel(t) /\ task'[t] = Unread(noted + 1)[t]
  BY <1>2, <1>3, UnreadIs DEF AtModel
<1> QED BY <1>1, <1>2, <1>4, RememberStep

LEMMA DiaryStep == ASSUME MemoryInv, Diary PROVE MemoryInv'
<1>1. PICK length \in 0 .. Len(journal) + 2 :
        /\ Remember(noted + 1, length)
        /\ \/ task' = Unread(noted + 1)
           \/ \E t \in Compressors :
                task[t].at = "idle" /\ task' = [Unread(noted + 1) EXCEPT ![t].at = "created"]
  BY DEF Diary
<1>2. noted < MaxEntries /\ UNCHANGED <<memoryCrashes, overwritten, blurred>>
  BY DEF Diary
<1>3. MemoryTypeOK /\ noted + 1 \in Entries
  <2>1. MemoryTypeOK
    BY DEF MemoryInv
  <2>2. noted \in Nat /\ MaxEntries \in Nat
    BY <2>1, MemoryTypes, MemoryConstants
  <2> QED BY <1>2, <2>1, <2>2 DEF Entries
<1>4. /\ Unread(noted + 1) \in [Compressors -> Steps]
      /\ \A t \in Compressors : Unread(noted + 1)[t].at = task[t].at
  BY <1>3, UnreadIs
<1>5. /\ task' \in [Compressors -> Steps]
      /\ \A t \in Compressors : AtModel(t)' => AtModel(t) /\ task'[t] = Unread(noted + 1)[t]
  <2>1. CASE task' = Unread(noted + 1)
    BY <1>4, <2>1 DEF AtModel
  <2>2. ASSUME NEW t \in Compressors, task' = [Unread(noted + 1) EXCEPT ![t].at = "created"]
        PROVE  /\ task' \in [Compressors -> Steps]
               /\ \A c \in Compressors : AtModel(c)' => AtModel(c) /\ task'[c] = Unread(noted + 1)[c]
    <3>1. task' \in [Compressors -> Steps]
      BY <1>4, <2>2 DEF Steps
    <3>2. task'[t].at = "created"
      BY <1>4, <2>2 DEF Steps
    <3>3. \A c \in Compressors \ {t} : task'[c] = Unread(noted + 1)[c]
      BY <1>4, <2>2
    <3> QED BY <1>4, <3>1, <3>2, <3>3 DEF AtModel
  <2> QED BY <1>1, <2>1, <2>2
<1> QED BY <1>1, <1>2, <1>5, RememberStep

-----------------------------------------------------------------------------
(* Compressions                                                            *)

\* A step after which a compression is idle, or as it was, disturbs nothing else.
LEMMA TaskEnds ==
  ASSUME MemoryInv, task' \in [Compressors -> Steps],
         \A t \in Compressors : AtModel(t)' => task'[t] = task[t],
         UNCHANGED <<journal, lines, noted, overwritten, blurred, cut>>,
         memoryFaults' \in 0 .. MaxMemoryFaults, memoryFaults' = 0 => memoryFaults = 0,
         memoryCrashes' \in 0 .. MaxMemoryCrashes
  PROVE  MemoryInv'
<1>1. MemoryTypeOK'
  BY MemoryTypes, TypedMemory DEF MemoryInv
<1>2. \A t \in Compressors : AtModel(t)' => AtModel(t) /\ task'[t] = task[t] /\ CopyTold(t)' = CopyTold(t)
  BY DEF AtModel, CopyTold
<1>3. Complete'
  BY <1>2 DEF MemoryInv, Complete, Explained
<1>4. memoryFaults' = 0 => InOrder'
  BY <1>2 DEF MemoryInv, InOrder
<1> QED BY <1>1, <1>3, <1>4 DEF MemoryInv

LEMMA CompressReadStep == ASSUME MemoryInv, NEW t \in Compressors, CompressRead(t) PROVE MemoryInv'
<1>0. MemoryTypeOK /\ Complete /\ (memoryFaults = 0 => InOrder)
  BY DEF MemoryInv
<1>1. UNCHANGED <<journal, lines, noted, memoryCrashes, overwritten, blurred, cut>>
  BY DEF CompressRead
<1>2. task \in [Compressors -> Steps] /\ journal \in Seq(Lines) /\ noted \in Nat
  BY <1>0, MemoryTypes
<1> PICK older, recent : older = SubSeq(journal, 1, SplitAt(journal)) /\ recent = Latest(journal, KeepRecent)
  OBVIOUS
<1>3. CASE task' = [task EXCEPT ![t] = NoTask] /\ (UNCHANGED memoryFaults \/ MemoryFault)
  <2>1. /\ task' \in [Compressors -> Steps]
        /\ \A c \in Compressors : AtModel(c)' => task'[c] = task[c]
    BY <1>2, <1>3, IdleTask DEF AtModel
  <2>2. memoryFaults' \in 0 .. MaxMemoryFaults /\ (memoryFaults' = 0 => memoryFaults = 0)
    BY <1>0, <1>3, FaultCounted, MemoryTypes
  <2>3. memoryCrashes' \in 0 .. MaxMemoryCrashes
    BY <1>0, <1>1, MemoryTypes
  <2> QED BY <1>1, <2>1, <2>2, <2>3, TaskEnds
<1>4. CASE /\ Len(journal) >= Threshold /\ UNCHANGED memoryFaults
           /\ task' = [task EXCEPT ![t] =
                [at |-> "llm", done |-> <<>>, left |-> older, recent |-> recent, since |-> {}]]
  <2>1. /\ older \in Seq(Lines) /\ recent \in Seq(Lines) /\ Len(recent) = KeepRecent
        /\ Told(journal) = Told(older) \cup Told(recent) /\ Suffix(recent, journal)
    <3>1. Len(journal) >= Threshold
      BY <1>4
    <3>2. /\ journal \in Seq(Lines)
          /\ older = SubSeq(journal, 1, SplitAt(journal)) /\ recent = Latest(journal, KeepRecent)
      BY <1>2
    <3> QED BY ONLY <3>1, <3>2, ReadInTwo
  <2>2. /\ task' \in [Compressors -> Steps]
        /\ task'[t].done = <<>> /\ task'[t].left = older /\ task'[t].recent = recent
        /\ task'[t].since = {} /\ \A c \in Compressors \ {t} : task'[c] = task[c]
    <3> PICK k : k = [at |-> "llm", done |-> <<>>, left |-> older, recent |-> recent, since |-> {}]
      OBVIOUS
    <3>1. k \in Steps
      BY <2>1, EmptyText DEF Steps
    <3> QED BY <1>2, <1>4, <3>1
  <2>3. MemoryTypeOK'
    BY <1>0, <1>1, <1>4, <2>2, MemoryTypes, TypedMemory
  <2>4. CopyTold(t)' = Told(journal)
    BY <2>1, <2>2, EmptyText DEF CopyTold
  <2>5. \A c \in Compressors \ {t} : AtModel(c)' => AtModel(c) /\ CopyTold(c)' = CopyTold(c)
    BY <2>2 DEF AtModel, CopyTold
  <2>6. Complete'
    <3>1. Explained' = Explained
      BY <1>1 DEF Explained
    <3>2. ASSUME NEW c \in Compressors, AtModel(c)'
          PROVE  1 .. noted \subseteq CopyTold(c)' \cup task'[c].since \cup Explained
      <4>1. CASE c = t
        BY <1>0, <2>4, <4>1 DEF Complete
      <4>2. CASE c # t
        BY <1>0, <2>2, <2>5, <3>2, <4>2 DEF Complete
      <4> QED BY <4>1, <4>2
    <3> QED BY <1>0, <1>1, <3>1, <3>2 DEF Complete
  <2>7. ASSUME memoryFaults' = 0 PROVE InOrder'
    <3>1. InOrder
      BY <1>0, <1>4, <2>7
    <3>2. Follows(recent, noted, overwritten)
      BY <1>2, <2>1, <3>1, FollowsSuffix DEF InOrder
    <3>3. Follows(recent, noted, overwritten \cup task'[t].since)
      BY <2>2, <3>2
    <3>4. ASSUME NEW c \in Compressors, AtModel(c)'
          PROVE  /\ Len(task'[c].recent) = KeepRecent
                 /\ Follows(task'[c].recent, noted, overwritten \cup task'[c].since)
      <4>1. CASE c = t
        BY <2>1, <2>2, <3>3, <4>1
      <4>2. CASE c # t
        BY <2>2, <2>5, <3>1, <3>4, <4>2 DEF InOrder
      <4> QED BY <4>1, <4>2
    <3> QED BY <1>1, <3>1, <3>4 DEF InOrder
  <2> QED BY <2>3, <2>6, <2>7 DEF MemoryInv
<1> QED BY <1>3, <1>4 DEF CompressRead

LEMMA CompressBatchStep == ASSUME MemoryInv, NEW t \in Compressors, CompressBatch(t) PROVE MemoryInv'
<1>0. MemoryTypeOK /\ Complete /\ (memoryFaults = 0 => InOrder)
  BY DEF MemoryInv
<1> PICK done, left, taken : /\ done = task[t].done /\ left = task[t].left
                             /\ taken = IF Len(left) < BatchSize THEN Len(left) ELSE BatchSize
  OBVIOUS
<1> PICK first : first = SubSeq(left, 1, taken)
  OBVIOUS
<1>1. PICK made \in {first, Summary(first)} :
        /\ task' = [task EXCEPT ![t].done = @ \o made, ![t].left = SubSeq(@, Len(first) + 1, Len(@))]
        /\ blurred' = IF made = first THEN blurred ELSE blurred \cup (Told(first) \ Shown(first))
  BY DEF CompressBatch
<1>2. /\ UNCHANGED <<journal, lines, noted, memoryFaults, memoryCrashes, overwritten, cut>>
      /\ AtModel(t) /\ left # <<>>
  BY DEF CompressBatch, AtModel
<1>3. /\ task \in [Compressors -> Steps] /\ task[t] \in Steps /\ done \in Seq(Lines) /\ left \in Seq(Lines)
  BY <1>0, MemoryTypes, TaskTypes
<1>4. taken \in 1 .. Len(left)
  <2>1. Len(left) \in Nat /\ Len(left) > 0 /\ BatchSize \in Nat /\ BatchSize > 0
    BY <1>2, <1>3, EmptySeq, LenProperties, MemoryConstants
  <2> QED BY <2>1
<1> PICK others : others = SubSeq(left, taken + 1, Len(left))
  OBVIOUS
<1>5. /\ first \in Seq(Lines) /\ Len(first) = taken /\ others \in Seq(Lines)
      /\ Told(left) = Told(first) \cup Told(others)
  <2>1. left \in Seq(Lines) /\ taken \in 1 .. Len(left)
    BY <1>3, <1>4
  <2>2. /\ SubSeq(left, 1, taken) \in Seq(Lines) /\ Len(SubSeq(left, 1, taken)) = taken
        /\ SubSeq(left, taken + 1, Len(left)) \in Seq(Lines)
        /\ Told(left) = Told(SubSeq(left, 1, taken)) \cup Told(SubSeq(left, taken + 1, Len(left)))
    BY ONLY <2>1, BatchTaken
  <2> QED BY <2>2
<1>6. /\ made \in Seq(Lines) /\ Told(first) \subseteq Told(made) \cup (Told(first) \ Shown(first))
      /\ made = first \/ Told(first) \ Shown(first) \subseteq blurred'
  <2>1. CASE made = first
    BY <1>5, <2>1
  <2>2. CASE made # first
    <3>1. made = Summary(first) /\ blurred' = blurred \cup (Told(first) \ Shown(first))
      BY <1>1, <2>2
    <3> QED BY <1>5, <3>1, SummaryIs
  <2> QED BY <2>1, <2>2
<1>7. blurred \subseteq blurred' /\ blurred' \subseteq Entries
  BY <1>0, <1>1, <1>5, MemoryTypes, ToldEntries
<1>8. done \o made \in Seq(Lines) /\ Told(done \o made) = Told(done) \cup Told(made)
  BY <1>3, <1>6, ToldJoin
<1>9. /\ task' \in [Compressors -> Steps]
      /\ task'[t].at = task[t].at /\ task'[t].done = done \o made /\ task'[t].left = others
      /\ task'[t].recent = task[t].recent /\ task'[t].since = task[t].since
      /\ \A c \in Compressors \ {t} : task'[c] = task[c]
  <2> PICK k, sofar : sofar = done \o made /\ k = [task[t] EXCEPT !.done = sofar, !.left = others]
    OBVIOUS
  <2>1. task' = [task EXCEPT ![t] = k]
    BY <1>1, <1>3, <1>5
  <2>2. k \in Steps
    BY <1>3, <1>5, <1>8 DEF Steps
  <2>3. task'[t] = k /\ task' \in [Compressors -> Steps] /\ \A c \in Compressors \ {t} : task'[c] = task[c]
    BY <1>3, <2>1, <2>2
  <2>4. /\ k.at = task[t].at /\ k.done = sofar /\ k.left = others
        /\ k.recent = task[t].recent /\ k.since = task[t].since
    BY <1>3 DEF Steps
  <2> QED BY <2>3, <2>4
<1>10. MemoryTypeOK'
  BY <1>0, <1>2, <1>7, <1>9, MemoryTypes, TypedMemory
<1>11. /\ Explained \subseteq Explained'
       /\ CopyTold(t) \subseteq CopyTold(t)' \cup Explained'
       /\ \A c \in Compressors \ {t} : AtModel(c)' => AtModel(c) /\ CopyTold(c)' = CopyTold(c)
  <2>1. Explained \subseteq Explained' /\ blurred' \subseteq Explained'
    BY <1>2, <1>7 DEF Explained
  <2>2. CopyTold(t) = Told(done) \cup Told(first) \cup Told(others) \cup Told(task[t].recent)
    BY <1>5 DEF CopyTold
  <2>3. CopyTold(t)' = Told(done) \cup Told(made) \cup Told(others) \cup Told(task[t].recent)
    BY <1>8, <1>9 DEF CopyTold
  <2>4. Told(first) \subseteq Told(made) \cup blurred'
    BY <1>6
  <2>5. \A c \in Compressors \ {t} : AtModel(c)' => AtModel(c) /\ CopyTold(c)' = CopyTold(c)
    BY <1>9 DEF AtModel, CopyTold
  <2> QED BY <2>1, <2>2, <2>3, <2>4, <2>5
<1>12. Complete'
  <2>1. 1 .. noted' \subseteq Told(journal') \cup Explained'
    BY <1>0, <1>2, <1>11 DEF Complete
  <2>2. ASSUME NEW c \in Compressors, AtModel(c)'
        PROVE  1 .. noted' \subseteq CopyTold(c)' \cup task'[c].since \cup Explained'
    <3>1. AtModel(c) /\ task'[c].since = task[c].since
      BY <1>2, <1>9, <1>11, <2>2
    <3>2. 1 .. noted \subseteq CopyTold(c) \cup task[c].since \cup Explained
      BY <1>0, <3>1 DEF Complete
    <3> QED BY <1>2, <1>11, <2>2, <3>1, <3>2
  <2> QED BY <2>1, <2>2 DEF Complete
<1>13. ASSUME memoryFaults' = 0 PROVE InOrder'
  <2>1. InOrder
    BY <1>0, <1>2, <1>13
  <2>2. \A c \in Compressors : AtModel(c)' =>
          AtModel(c) /\ task'[c].recent = task[c].recent /\ task'[c].since = task[c].since
    BY <1>2, <1>9, <1>11
  <2> QED BY <1>2, <2>1, <2>2 DEF InOrder
<1> QED BY <1>10, <1>12, <1>13 DEF MemoryInv

LEMMA CompressWriteStep == ASSUME MemoryInv, NEW t \in Compressors, CompressWrite(t) PROVE MemoryInv'
<1>0. MemoryTypeOK /\ Complete /\ (memoryFaults = 0 => InOrder)
  BY DEF MemoryInv
<1>1. /\ AtModel(t) /\ task[t].left = <<>> /\ task' = [task EXCEPT ![t] = NoTask]
      /\ UNCHANGED <<lines, noted, memoryCrashes, blurred>>
  BY DEF CompressWrite, AtModel
<1>2. /\ task \in [Compressors -> Steps] /\ journal \in Seq(Lines) /\ noted \in Nat
      /\ task[t].done \in Seq(Lines) /\ task[t].recent \in Seq(Lines) /\ task[t].since \subseteq Entries
      /\ overwritten \subseteq Entries
  BY <1>0, MemoryTypes, TaskTypes
<1>3. /\ task' \in [Compressors -> Steps]
      /\ \A c \in Compressors : AtModel(c)' => AtModel(c) /\ task'[c] = task[c] /\ CopyTold(c)' = CopyTold(c)
  BY <1>1, <1>2, IdleTask DEF AtModel, CopyTold
<1>4. CASE /\ journal' = task[t].done \o task[t].recent
           /\ overwritten' = overwritten \cup task[t].since /\ UNCHANGED <<memoryFaults, cut>>
  <2>1. journal' \in Seq(Lines) /\ Told(journal') = CopyTold(t)
    BY <1>1, <1>2, <1>4, ToldJoin, EmptyText DEF CopyTold
  <2>2. MemoryTypeOK'
    BY <1>0, <1>1, <1>2, <1>3, <1>4, <2>1, MemoryTypes, TypedMemory
  <2>3. Explained \cup task[t].since \subseteq Explained'
    BY <1>1, <1>4 DEF Explained
  <2>4. 1 .. noted \subseteq CopyTold(t) \cup task[t].since \cup Explained
    BY <1>0, <1>1 DEF Complete
  <2>5. Complete'
    BY <1>0, <1>1, <1>3, <2>1, <2>3, <2>4 DEF Complete
  <2>6. ASSUME memoryFaults' = 0 PROVE InOrder'
    <3>1. InOrder
      BY <1>0, <1>4, <2>6
    <3>2. /\ Len(task[t].recent) = KeepRecent
          /\ Follows(task[t].recent, noted, overwritten')
      BY <1>1, <1>4, <3>1 DEF InOrder
    <3>3. Follows(journal', noted, overwritten')
      <4>1. Len(task[t].recent) >= IndexMax
        BY <3>2, IndexNats
      <4> QED BY <1>2, <1>4, <3>2, <4>1, FollowsJoin
    <3>4. ASSUME NEW c \in Compressors, AtModel(c)'
          PROVE  /\ Len(task'[c].recent) = KeepRecent
                 /\ Follows(task'[c].recent, noted, overwritten' \cup task'[c].since)
      <4>1. AtModel(c) /\ task'[c] = task[c] /\ task[c].recent \in Seq(Lines)
        BY <1>0, <1>3, <3>4, TaskTypes
      <4>2. /\ Len(task[c].recent) = KeepRecent
            /\ Follows(task[c].recent, noted, overwritten \cup task[c].since)
        BY <3>1, <4>1 DEF InOrder
      <4>3. overwritten \cup task[c].since \subseteq overwritten' \cup task[c].since
        BY <1>4
      <4>4. Follows(task[c].recent, noted, overwritten' \cup task[c].since)
        BY <1>2, <4>1, <4>2, <4>3, FollowsMore
      <4> QED BY <4>1, <4>2, <4>4
    <3>5. Newest(lines', noted')
      BY <1>1, <3>1 DEF InOrder
    <3> QED BY <1>1, <3>3, <3>4, <3>5 DEF InOrder
  <2> QED BY <2>2, <2>5, <2>6 DEF MemoryInv
<1>5. CASE /\ journal' \in {journal, <<>>} /\ MemoryFault
           /\ cut' = cut \cup (Told(journal) \ Told(journal')) /\ UNCHANGED overwritten
  <2>1. journal' \in Seq(Lines) /\ cut' \subseteq Entries /\ Told(journal) \subseteq Told(journal') \cup cut'
    BY <1>0, <1>2, <1>5, EmptyText, MemoryTypes, ToldEntries
  <2>2. memoryFaults' \in 0 .. MaxMemoryFaults /\ memoryFaults' # 0
    BY <1>0, <1>5, FaultCounted
  <2>3. MemoryTypeOK'
    BY <1>0, <1>1, <1>3, <1>5, <2>1, <2>2, MemoryTypes, TypedMemory
  <2>4. Explained \cup cut' \subseteq Explained'
    BY <1>1, <1>5 DEF Explained
  <2>5. Complete'
    BY <1>0, <1>1, <1>3, <2>1, <2>4 DEF Complete
  <2> QED BY <2>2, <2>3, <2>5 DEF MemoryInv
<1> QED BY <1>4, <1>5 DEF CompressWrite

LEMMA CrashStep == ASSUME MemoryInv, MemoryCrash PROVE MemoryInv'
<1>0. MemoryTypeOK
  BY DEF MemoryInv
<1>1. /\ task' = [t \in Compressors |-> NoTask]
      /\ UNCHANGED <<journal, lines, noted, memoryFaults, overwritten, blurred, cut>>
  BY DEF MemoryCrash
<1>2. task' \in [Compressors -> Steps] /\ \A t \in Compressors : ~AtModel(t)'
  BY <1>1, IdleTask DEF AtModel
<1>3. memoryCrashes' \in 0 .. MaxMemoryCrashes
  BY <1>0, MemoryConstants DEF MemoryCrash, MemoryTypeOK
<1>4. memoryFaults' \in 0 .. MaxMemoryFaults
  BY <1>0, <1>1, MemoryTypes
<1> QED BY <1>1, <1>2, <1>3, <1>4, TaskEnds

-----------------------------------------------------------------------------
(* The invariant                                                           *)

LEMMA MemoryStart == ASSUME MemoryInit PROVE MemoryInv
<1>1. /\ journal = <<>> /\ lines = <<>> /\ noted = 0 /\ task = [t \in Compressors |-> NoTask]
      /\ memoryFaults = 0 /\ memoryCrashes = 0 /\ overwritten = {} /\ blurred = {} /\ cut = {}
  BY DEF MemoryInit
<1>2. task \in [Compressors -> Steps] /\ \A t \in Compressors : ~AtModel(t)
  BY <1>1, IdleTask DEF AtModel
<1>3. journal \in Seq(Lines) /\ Len(journal) = 0 /\ lines \in Seq(Entries) /\ Len(lines) = 0
  BY <1>1
<1>4. MemoryTypeOK
  BY <1>1, <1>2, <1>3, MemoryConstants DEF MemoryTypeOK, Steps
<1>5. Complete
  BY <1>1, <1>2 DEF Complete
<1>6. InOrder
  BY <1>1, <1>2, <1>3, IndexNats DEF InOrder, Newest, Follows
<1> QED BY <1>4, <1>5, <1>6 DEF MemoryInv

LEMMA MemoryStep == ASSUME MemoryInv, [MemoryNext]_memoryVars PROVE MemoryInv'
<1>1. CASE Note
  BY <1>1, NoteStep
<1>2. CASE Diary
  BY <1>2, DiaryStep
<1>3. CASE MemoryCrash
  BY <1>3, CrashStep
<1>4. ASSUME NEW t \in Compressors, CompressRead(t) PROVE MemoryInv'
  BY <1>4, CompressReadStep
<1>5. ASSUME NEW t \in Compressors, CompressBatch(t) PROVE MemoryInv'
  BY <1>5, CompressBatchStep
<1>6. ASSUME NEW t \in Compressors, CompressWrite(t) PROVE MemoryInv'
  BY <1>6, CompressWriteStep
<1>7. CASE UNCHANGED memoryVars
  BY <1>7 DEF memoryVars, MemoryInv, MemoryTypeOK, Complete, Explained, CopyTold, AtModel, InOrder
<1> QED BY <1>1, <1>2, <1>3, <1>4, <1>5, <1>6, <1>7 DEF MemoryNext

\* The invariant holds of every run of the memory, for any number of compressions,
\* entries, mishaps and deaths.
THEOREM MemoryInvariant == MemorySpec => []MemoryInv
<1>1. MemoryInit => MemoryInv
  BY MemoryStart
<1>2. MemoryInv /\ [MemoryNext]_memoryVars => MemoryInv'
  BY MemoryStep
<1> QED BY <1>1, <1>2, PTL DEF MemorySpec

\* What follows an entry in the journal bounds how far it is from the end of the index.
LEMMA InvIndexCovers == ASSUME MemoryInv PROVE IndexCovers
<1> SUFFICES ASSUME memoryFaults = 0, NEW i \in DOMAIN journal,
                    Len(journal) - i + Cardinality(overwritten) < IndexMax, ~journal[i].summary
             PROVE  journal[i].of \subseteq {lines[k] : k \in DOMAIN lines}
  BY DEF IndexCovers
<1>1. /\ journal \in Seq(Lines) /\ lines \in Seq(Entries) /\ noted \in Nat /\ overwritten \subseteq Entries
      /\ InOrder
  BY MemoryTypes DEF MemoryInv
<1>2. Len(journal) \in Nat /\ i \in 1 .. Len(journal) /\ DOMAIN lines = 1 .. Len(lines) /\ Len(lines) \in Nat
  BY <1>1, LenProperties
<1>3. Cardinality(overwritten) \in Nat
  <2>1. IsFiniteSet(Entries)
    BY MemoryConstants, FS_Interval DEF Entries
  <2> QED BY <1>1, <2>1, FS_Subset, FS_CardinalityType
<1>4. PICK e \in 1 .. noted : journal[i].of = {e} /\ Behind(journal, i, e, noted, overwritten)
  <2>1. Len(journal) - i < IndexMax
    BY <1>2, <1>3, IndexNats
  <2> QED BY <1>1, <1>2, <2>1 DEF InOrder, Follows
<1>5. noted - e < IndexMax
  <2>1. noted - e <= Len(journal) - i + Cardinality(overwritten)
    BY <1>1, <1>2, <1>4, Counted
  <2> QED BY <1>1, <1>2, <1>3, <2>1, IndexNats
<1>6. /\ Len(lines) = IF noted <= IndexMax THEN noted ELSE IndexMax
      /\ \A k \in 1 .. Len(lines) : lines[k] = noted - Len(lines) + k
  BY <1>1 DEF InOrder, Newest
<1> PICK k : k = e - noted + Len(lines)
  OBVIOUS
<1>7. k \in 1 .. Len(lines) /\ noted - Len(lines) + k = e
  BY <1>1, <1>2, <1>5, <1>6, IndexNats
<1>8. lines[k] = e
  BY <1>6, <1>7
<1> QED BY <1>2, <1>4, <1>7, <1>8

\* The memory of a tenant is whole, however diaries, notes and compressions overlap,
\* whichever Redis command fails and whenever the process dies (memory.py:87-105,
\* :1667-1752, memory_store.py:103-218): what is not told was overwritten by a
\* compression that had read the journal before, summarised twice, or cut.
THEOREM MemoryIsSound == MemorySpec => []MemorySound
<1>1. MemoryInv => MemorySound
  <2> SUFFICES ASSUME MemoryInv PROVE MemorySound
    OBVIOUS
  <2>1. NothingForgotten
    BY DEF MemoryInv, Complete, Explained, NothingForgotten
  <2> QED BY <2>1, InvIndexCovers DEF MemorySound
<1> QED BY <1>1, MemoryInvariant, PTL

-----------------------------------------------------------------------------
(* ChatHistory                                                             *)

\* In the order of time, and of the past.
Timely(s, time) ==
  \A i \in 1 .. Len(s) : s[i].at \in Nat /\ s[i].at <= time /\ \A j \in 1 .. i : s[j].at <= s[i].at

\* The last messages of s are the last of what was said, p, and what else was said
\* is too old, or too long ago for the length of the history.
Stale(m, time) == m.at + ChatTtl <= time
Tracking(s, p, time, k) ==
  /\ k <= Len(s) /\ \A i \in 0 .. k - 1 : s[Len(s) - i] = p[Len(p) - i]
  /\ \A j \in 1 .. Len(p) - k : j <= Len(p) - 2 * ChatRounds \/ Stale(p[j], time)
Tracks(s, p, time) == \E k \in 0 .. Len(p) : Tracking(s, p, time, k)

\* What the router said is not from before a clear.
SaidIn(s, p) ==
  \A i \in 1 .. Len(s) : s[i].by = "router" => \E j \in 1 .. Len(p) : s[i] = p[j]

\* The key lives as long as what it has to tell.
KeyTracks(key, p, time) ==
  Tracks(key.msgs, p, time) /\ \A j \in 1 .. Len(p) : p[j].at + ChatTtl <= key.until

Messages == Said \cup Remembered
Histories == [mem: Seq(Messages), loaded: BOOLEAN, saved: [msgs: Seq(Messages), until: Nat]]

\* A history, whatever commands of Redis failed.
Shaped(h, time) ==
  /\ h \in Histories
  /\ Len(h.mem) <= 2 * ChatRounds /\ Len(h.saved.msgs) <= 2 * ChatRounds
  /\ Timely(h.mem, time) /\ Timely(h.saved.msgs, time)

\* One that agrees with what was said, p; stale: except for its key.
Agrees(h, p, time, stale) ==
  /\ SaidIn(h.mem, p) /\ SaidIn(h.saved.msgs, p)
  /\ h.loaded => Tracks(h.mem, p, time)
  /\ ~stale => KeyTracks(h.saved, p, time)

HistoryInv ==
  /\ ChatTypeOK
  /\ \A t \in Turns : turns[t].at # "idle" => turns[t].id \in ChatIds
  /\ Shaped(chat, chatClock) /\ Timely(archive, chatClock) /\ Timely(spoken, chatClock)
  /\ ~chat.loaded => ~unsaved
  /\ ~amiss => Agrees(chat, spoken, chatClock, unsaved)
\* Induction up to a number.
LEMMA UpTo ==
  ASSUME NEW n \in Nat, NEW good, 0 \in good, \A i \in 1 .. n : i - 1 \in good => i \in good
  PROVE  0 .. n \subseteq good
<1> PICK bad : bad = {i \in 0 .. n : i \notin good}
  OBVIOUS
<1>1. SUFFICES ASSUME bad # {} PROVE FALSE
  OBVIOUS
<1>2. PICK i \in bad : \A j \in bad : ~(j < i)
  <2>1. bad \subseteq Nat
    OBVIOUS
  <2>2. PICK i \in bad : \A j \in bad : <<j, i>> \notin OpToRel(<, Nat)
    BY <1>1, <2>1, NatLessThanWellFounded, WFMin
  <2> QED BY <2>1, <2>2 DEF OpToRel
<1>3. i # 0 /\ i - 1 \in 0 .. n /\ i \in 1 .. n
  OBVIOUS
<1>4. i - 1 \in good
  BY <1>2, <1>3
<1> QED BY <1>3, <1>4

\* What is kept of the first n messages of s is the end of them, and not stale; the
\* others are.
KeptOf(r, s, n, time) ==
  /\ Len(r) <= n
  /\ \A i \in 1 .. Len(r) : r[i] = s[n - Len(r) + i] /\ ~Stale(r[i], time)
  /\ \A i \in 1 .. n - Len(r) : Stale(s[i], time)

\* _cleanup, message by message.
Kept1(r, m, time) == IF time - m.at < ChatTtl THEN Append(r, m) ELSE r
Sweep(f, n, s, time) == f = [i \in 0 .. n |-> IF i = 0 THEN <<>> ELSE Kept1(f[i - 1], s[i], time)]

LEMMA SweepExists ==
  ASSUME NEW n \in Nat, NEW s, NEW time
  PROVE  \E f : Sweep(f, n, s, time)
<1> PICK good : good = {k \in 0 .. n : \E f : Sweep(f, k, s, time)}
  OBVIOUS
<1>1. 0 \in good
  <2> PICK f : f = [i \in 0 .. 0 |-> <<>>]
    OBVIOUS
  <2>1. f = [i \in 0 .. 0 |-> IF i = 0 THEN <<>> ELSE Kept1(f[i - 1], s[i], time)]
    OBVIOUS
  <2> QED BY <2>1 DEF Sweep
<1>2. ASSUME NEW k \in 1 .. n, k - 1 \in good PROVE k \in good
  <2>1. PICK f : f = [i \in 0 .. k - 1 |-> IF i = 0 THEN <<>> ELSE Kept1(f[i - 1], s[i], time)]
    BY <1>2 DEF Sweep
  <2> PICK last : last = Kept1(f[k - 1], s[k], time)
    OBVIOUS
  <2> PICK g : g = [i \in 0 .. k |-> IF i = k THEN last ELSE f[i]]
    OBVIOUS
  <2>2. ASSUME NEW i \in 0 .. k PROVE g[i] = IF i = 0 THEN <<>> ELSE Kept1(g[i - 1], s[i], time)
    <3>1. CASE i = k
      <4>1. g[i] = last /\ g[i - 1] = f[k - 1]
        BY <3>1
      <4> QED BY <3>1, <4>1
    <3>2. CASE i # k
      <4>1. i \in 0 .. k - 1 /\ g[i] = f[i] /\ (i # 0 => g[i - 1] = f[i - 1])
        BY <3>2
      <4> QED BY <2>1, <4>1
    <3> QED BY <3>1, <3>2
  <2>3. g = [i \in 0 .. k |-> IF i = 0 THEN <<>> ELSE Kept1(g[i - 1], s[i], time)]
    BY <2>2
  <2> QED BY <2>3 DEF Sweep
<1>3. \A i \in 1 .. n : i - 1 \in good => i \in good
  BY <1>2
<1>4. 0 .. n \subseteq good
  BY ONLY n \in Nat, <1>1, <1>3, UpTo
<1>5. n \in good
  BY ONLY n \in Nat, <1>4
<1> QED BY <1>5

\* One message more.
LEMMA KeptOne ==
  ASSUME NEW S, NEW s \in Seq(S), NEW time \in Nat, Timely(s, time), NEW n \in 1 .. Len(s),
         NEW r \in Seq(S), KeptOf(r, s, n - 1, time)
  PROVE  Kept1(r, s[n], time) \in Seq(S) /\ KeptOf(Kept1(r, s[n], time), s, n, time)
<1> PICK k : k = Len(r)
  OBVIOUS
<1>1. /\ k \in Nat /\ k <= n - 1 /\ s[n] \in S /\ s[n].at \in Nat /\ s[n].at <= time
      /\ \A i \in 1 .. n : s[i].at \in Nat /\ s[i].at <= s[n].at
      /\ \A i \in 1 .. k : r[i] = s[(n - 1) - k + i] /\ ~Stale(r[i], time)
      /\ \A i \in 1 .. (n - 1) - k : Stale(s[i], time)
      /\ n \in Nat /\ ChatTtl \in Nat
  BY ChatConstants DEF Timely, KeptOf
<1>2. time - s[n].at < ChatTtl <=> ~Stale(s[n], time)
  BY <1>1 DEF Stale
<1>3. CASE ~Stale(s[n], time)
  <2> PICK q : q = Append(r, s[n])
    OBVIOUS
  <2>1. q = Kept1(r, s[n], time)
    BY <1>2, <1>3 DEF Kept1
  <2>2. q \in Seq(S) /\ Len(q) = k + 1 /\ q[k + 1] = s[n] /\ \A i \in 1 .. k : q[i] = r[i]
    BY <1>1
  <2>3. ASSUME NEW i \in 1 .. k + 1 PROVE q[i] = s[n - (k + 1) + i] /\ ~Stale(q[i], time)
    <3>1. CASE i = k + 1
      <4>1. n - (k + 1) + i = n
        BY <1>1, <3>1
      <4> QED BY <1>3, <2>2, <3>1, <4>1
    <3>2. CASE i # k + 1
      <4>1. i \in 1 .. k /\ n - (k + 1) + i = (n - 1) - k + i
        BY <1>1, <3>2
      <4> QED BY <1>1, <2>2, <4>1
    <3> QED BY <3>1, <3>2
  <2>4. \A i \in 1 .. n - (k + 1) : Stale(s[i], time)
    <3>1. \A i \in 1 .. n - (k + 1) : i \in 1 .. (n - 1) - k
      BY <1>1
    <3> QED BY <1>1, <3>1
  <2>5. k + 1 <= n
    BY <1>1
  <2>6. KeptOf(q, s, n, time)
    BY <2>2, <2>3, <2>4, <2>5 DEF KeptOf
  <2> QED BY <2>1, <2>2, <2>6
<1>4. CASE Stale(s[n], time)
  <2>1. Kept1(r, s[n], time) = r
    BY <1>2, <1>4 DEF Kept1
  <2>2. ASSUME NEW i \in 1 .. n PROVE Stale(s[i], time)
    <3>1. s[i].at \in Nat /\ s[n].at \in Nat /\ s[i].at <= s[n].at /\ s[n].at + ChatTtl <= time /\ ChatTtl \in Nat
      BY <1>1, <1>4 DEF Stale
    <3> QED BY ONLY time \in Nat, <3>1 DEF Stale
  <2>3. k = 0
    <3> SUFFICES ASSUME k # 0 PROVE FALSE
      OBVIOUS
    <3>1. 1 \in 1 .. k /\ (n - 1) - k + 1 \in 1 .. n
      BY <1>1
    <3>2. r[1] = s[(n - 1) - k + 1] /\ ~Stale(r[1], time)
      BY <1>1, <3>1
    <3> QED BY <2>2, <3>1, <3>2
  <2>4. KeptOf(r, s, n, time)
    BY <1>1, <2>2, <2>3 DEF KeptOf
  <2> QED BY <2>1, <2>4
<1> QED BY <1>3, <1>4

LEMMA UnexpiredIs ==
  ASSUME NEW S, NEW s \in Seq(S), chatClock \in Nat, Timely(s, chatClock)
  PROVE  Unexpired(s) \in Seq(S) /\ KeptOf(Unexpired(s), s, Len(s), chatClock)
<1> PICK time, n : time = chatClock /\ n = Len(s)
  OBVIOUS
<1>1. n \in Nat /\ time \in Nat /\ Timely(s, time) /\ \E f : Sweep(f, n, s, time)
  BY SweepExists
<1> DEFINE g == CHOOSE f : f = [i \in 0 .. n |->
                  IF i = 0 THEN <<>>
                  ELSE IF time - s[i].at < ChatTtl THEN Append(f[i - 1], s[i]) ELSE f[i - 1]]
<1>2. Unexpired(s) = g[n]
  BY DEF Unexpired
<1>3. g = [i \in 0 .. n |->
             IF i = 0 THEN <<>>
             ELSE IF time - s[i].at < ChatTtl THEN Append(g[i - 1], s[i]) ELSE g[i - 1]]
  BY <1>1 DEF Sweep, Kept1
<1> HIDE DEF g
<1>4. g[0] = <<>> /\ \A i \in 1 .. n : g[i] = Kept1(g[i - 1], s[i], time)
  <2>1. g[0] = <<>>
    BY <1>1, <1>3
  <2>2. ASSUME NEW i \in 1 .. n PROVE g[i] = Kept1(g[i - 1], s[i], time)
    <3>1. i \in 0 .. n /\ i # 0
      BY <1>1
    <3>2. g[i] = IF time - s[i].at < ChatTtl THEN Append(g[i - 1], s[i]) ELSE g[i - 1]
      BY ONLY <1>3, <3>1
    <3> QED BY ONLY <3>2 DEF Kept1
  <2> QED BY <2>1, <2>2
<1> PICK good : good = {i \in 0 .. n : g[i] \in Seq(S) /\ KeptOf(g[i], s, i, time)}
  OBVIOUS
<1>5. 0 \in good
  <2> PICK nil : nil = <<>>
    OBVIOUS
  <2>1. nil \in Seq(S) /\ Len(nil) = 0
    OBVIOUS
  <2>2. KeptOf(nil, s, 0, time)
    BY <2>1 DEF KeptOf
  <2>3. g[0] = nil /\ 0 \in 0 .. n
    BY <1>1, <1>4
  <2> QED BY ONLY good = {i \in 0 .. n : g[i] \in Seq(S) /\ KeptOf(g[i], s, i, time)}, <2>1, <2>2, <2>3
<1>6. ASSUME NEW i \in 1 .. n, i - 1 \in good PROVE i \in good
  <2>1. g[i - 1] \in Seq(S) /\ KeptOf(g[i - 1], s, i - 1, time) /\ i \in 0 .. n /\ i \in 1 .. Len(s)
    BY <1>1, <1>6
  <2>2. Kept1(g[i - 1], s[i], time) \in Seq(S) /\ KeptOf(Kept1(g[i - 1], s[i], time), s, i, time)
    BY <1>1, <2>1, KeptOne
  <2> QED BY <1>4, <2>1, <2>2
<1>7. \A i \in 1 .. n : i - 1 \in good => i \in good
  BY <1>6
<1>8. 0 .. n \subseteq good
  BY ONLY <1>1, <1>5, <1>7, UpTo
<1>9. n \in good
  BY ONLY <1>1, <1>8
<1> QED BY <1>2, <1>9

\* What a sweep leaves is the end of the list.
LEMMA KeptSuffix ==
  ASSUME NEW S, NEW s \in Seq(S), NEW r \in Seq(S), NEW time, KeptOf(r, s, Len(s), time)
  PROVE  Suffix(r, s)
BY DEF KeptOf, Suffix

\* The last n messages.
LEMMA LastOfIs ==
  ASSUME NEW S, NEW s \in Seq(S), NEW n \in Nat
  PROVE  /\ LastOf(s, n) \in Seq(S) /\ Suffix(LastOf(s, n), s)
         /\ Len(LastOf(s, n)) = IF Len(s) > n THEN n ELSE Len(s)
<1> PICK a, b : a = (IF Len(s) > n THEN Len(s) - n + 1 ELSE 1) /\ b = Len(s)
  OBVIOUS
<1> PICK r : r = SubSeq(s, a, b)
  OBVIOUS
<1>1. r = LastOf(s, n) /\ a \in Nat /\ b \in Nat /\ a >= 1 /\ a <= b + 1
  BY LenProperties DEF LastOf
<1>2. \A i \in a .. b : s[i] \in S
  BY <1>1, LenProperties
<1>3. /\ r \in Seq(S) /\ Len(r) = IF a <= b THEN b - a + 1 ELSE 0
      /\ \A i \in 1 .. b - a + 1 : r[i] = s[a + i - 1]
  BY <1>1, <1>2, SubSeqProperties
<1> PICK c : c = Len(r)
  OBVIOUS
<1>4. c \in Nat /\ c = b - a + 1
  BY ONLY <1>1, <1>3, c = Len(r)
<1>5. c = (IF b > n THEN n ELSE b) /\ c <= b
  BY ONLY <1>1, <1>4, n \in Nat, a = (IF Len(s) > n THEN Len(s) - n + 1 ELSE 1), b = Len(s)
<1>6. Suffix(r, s)
  <2>1. ASSUME NEW i \in 1 .. c PROVE r[i] = s[b - c + i]
    <3>1. i \in 1 .. b - a + 1 /\ b - c + i = a + i - 1
      BY ONLY <1>1, <1>4, i \in 1 .. c
    <3> QED BY <1>3, <3>1
  <2> QED BY <1>5, <2>1 DEF Suffix
<1> QED BY <1>1, <1>3, <1>5, <1>6

LEMMA SuffixTimely ==
  ASSUME NEW S, NEW s \in Seq(S), NEW r \in Seq(S), NEW time \in Nat, Suffix(r, s), Timely(s, time)
  PROVE  Timely(r, time)
<1> PICK d : d = Len(s) - Len(r)
  OBVIOUS
<1>1. d \in Nat /\ Len(r) \in Nat /\ Len(s) = Len(r) + d /\ \A i \in 1 .. Len(r) : r[i] = s[d + i]
  BY LenProperties DEF Suffix
<1> SUFFICES ASSUME NEW i \in 1 .. Len(r)
             PROVE  r[i].at \in Nat /\ r[i].at <= time /\ \A j \in 1 .. i : r[j].at <= r[i].at
  BY DEF Timely
<1>2. d + i \in 1 .. Len(s) /\ \A j \in 1 .. i : j \in 1 .. Len(r) /\ d + j \in 1 .. d + i
  BY <1>1
<1> QED BY <1>1, <1>2 DEF Timely

LEMMA SuffixSaid ==
  ASSUME NEW S, NEW s \in Seq(S), NEW r \in Seq(S), Suffix(r, s), NEW p, SaidIn(s, p)
  PROVE  SaidIn(r, p)
<1> SUFFICES ASSUME NEW i \in 1 .. Len(r), r[i].by = "router" PROVE \E j \in 1 .. Len(p) : r[i] = p[j]
  BY DEF SaidIn
<1>1. Len(s) - Len(r) + i \in 1 .. Len(s) /\ r[i] = s[Len(s) - Len(r) + i]
  BY LenProperties DEF Suffix
<1> QED BY <1>1 DEF SaidIn

LEMMA AppendTimely ==
  ASSUME NEW S, NEW s \in Seq(S), NEW m \in S, NEW time \in Nat, Timely(s, time), m.at = time
  PROVE  Timely(Append(s, m), time)
<1> PICK q, n : q = Append(s, m) /\ n = Len(s)
  OBVIOUS
<1>1. n \in Nat /\ Len(q) = n + 1 /\ q[n + 1] = m /\ \A i \in 1 .. n : q[i] = s[i]
  BY AppendProperties
<1>2. \A i \in 1 .. n : q[i].at \in Nat /\ q[i].at <= time
  BY <1>1 DEF Timely
<1>3. ASSUME NEW i \in 1 .. n + 1
      PROVE  q[i].at \in Nat /\ q[i].at <= time /\ \A j \in 1 .. i : q[j].at <= q[i].at
  <2>1. CASE i = n + 1
    <3>1. \A j \in 1 .. i : j \in 1 .. n \/ j = n + 1
      BY <1>1, <2>1
    <3> QED BY <1>1, <1>2, <2>1, <3>1
  <2>2. CASE i # n + 1
    <3>1. i \in 1 .. n /\ \A j \in 1 .. i : j \in 1 .. n
      BY <1>1, <2>2
    <3> QED BY <1>1, <1>2, <3>1 DEF Timely
  <2> QED BY <2>1, <2>2
<1> QED BY <1>1, <1>3 DEF Timely

\* One message more is said, and put down.
LEMMA AppendSaid ==
  ASSUME NEW s \in Seq(Messages), NEW p \in Seq(Said), NEW m \in Said, SaidIn(s, p)
  PROVE  SaidIn(s, Append(p, m)) /\ SaidIn(Append(s, m), Append(p, m))
<1> PICK q : q = Append(p, m)
  OBVIOUS
<1>1. Len(p) \in Nat /\ Len(q) = Len(p) + 1 /\ q[Len(p) + 1] = m /\ \A j \in 1 .. Len(p) : q[j] = p[j]
  BY AppendProperties
<1>2. SaidIn(s, q)
  <2>1. \A j \in 1 .. Len(p) : j \in 1 .. Len(q)
    BY <1>1
  <2> QED BY <1>1, <2>1 DEF SaidIn
<1>3. SaidIn(Append(s, m), q)
  <2> PICK r : r = Append(s, m)
    OBVIOUS
  <2>1. /\ Len(s) \in Nat /\ Len(r) = Len(s) + 1 /\ r[Len(s) + 1] = m
        /\ \A i \in 1 .. Len(s) : r[i] = s[i]
    BY AppendProperties DEF Messages
  <2>2. ASSUME NEW i \in 1 .. Len(s) + 1, r[i].by = "router" PROVE \E j \in 1 .. Len(q) : r[i] = q[j]
    <3>1. CASE i = Len(s) + 1
      <4>1. Len(p) + 1 \in 1 .. Len(q)
        BY <1>1
      <4> QED BY <1>1, <2>1, <3>1, <4>1
    <3>2. CASE i # Len(s) + 1
      <4>1. i \in 1 .. Len(s)
        BY <2>1, <3>2
      <4> QED BY <1>2, <2>1, <2>2, <4>1 DEF SaidIn
    <3> QED BY <3>1, <3>2
  <2> QED BY <2>1, <2>2 DEF SaidIn
<1> QED BY <1>2, <1>3

\* A sweep takes away only what is stale.
LEMMA SweptTracks ==
  ASSUME NEW s \in Seq(Messages), NEW r \in Seq(Messages), NEW p \in Seq(Said), NEW time,
         KeptOf(r, s, Len(s), time), Tracks(s, p, time)
  PROVE  Tracks(r, p, time)
<1> PICK k \in 0 .. Len(p) : Tracking(s, p, time, k)
  BY DEF Tracks
<1> PICK n, l, c : n = Len(s) /\ l = Len(p) /\ c = Len(r)
  OBVIOUS
<1>1. /\ n \in Nat /\ l \in Nat /\ c \in Nat /\ c <= n /\ k \in Nat /\ k <= n /\ k <= l
      /\ \A i \in 0 .. k - 1 : s[n - i] = p[l - i]
      /\ \A j \in 1 .. l - k : j <= l - 2 * ChatRounds \/ Stale(p[j], time)
      /\ \A i \in 1 .. c : r[i] = s[n - c + i]
      /\ \A i \in 1 .. n - c : Stale(s[i], time)
  BY LenProperties DEF Tracking, KeptOf
<1>2. \A i \in 0 .. c - 1 : r[c - i] = s[n - i]
  <2>1. \A i \in 0 .. c - 1 : c - i \in 1 .. c /\ n - c + (c - i) = n - i
    BY <1>1
  <2> QED BY <1>1, <2>1
<1>3. CASE k <= c
  <2>1. \A i \in 0 .. k - 1 : i \in 0 .. c - 1
    BY <1>1, <1>3
  <2>2. \A i \in 0 .. k - 1 : r[c - i] = p[l - i]
    BY <1>1, <1>2, <2>1
  <2>3. Tracking(r, p, time, k)
    BY <1>1, <1>3, <2>2 DEF Tracking
  <2> QED BY <2>3 DEF Tracks
<1>4. CASE ~(k <= c)
  <2>1. c \in 0 .. l /\ \A i \in 0 .. c - 1 : i \in 0 .. k - 1
    BY <1>1, <1>4
  <2>2. \A i \in 0 .. c - 1 : r[c - i] = p[l - i]
    BY <1>1, <1>2, <2>1
  <2>3. ASSUME NEW j \in 1 .. l - c PROVE j <= l - 2 * ChatRounds \/ Stale(p[j], time)
    <3>1. CASE j <= l - k
      BY <1>1, <3>1
    <3>2. CASE ~(j <= l - k)
      <4>1. l - j \in 0 .. k - 1 /\ l - (l - j) = j /\ n - (l - j) \in 1 .. n - c
        BY <1>1, <3>2
      <4> QED BY <1>1, <4>1
    <3> QED BY <3>1, <3>2
  <2>4. Tracking(r, p, time, c)
    BY <1>1, <2>2, <2>3 DEF Tracking
  <2> QED BY <2>1, <2>4 DEF Tracks
<1> QED BY <1>3, <1>4

\* Who adds what is said to a history that tracks it goes on tracking it.
LEMMA AddedTracks ==
  ASSUME NEW s \in Seq(Messages), NEW p \in Seq(Said), NEW m \in Said, NEW time, Tracks(s, p, time)
  PROVE  Tracks(LastRounds(Append(s, m)), Append(p, m), time)
<1> PICK k \in 0 .. Len(p) : Tracking(s, p, time, k)
  BY DEF Tracks
<1>q. PICK q, w, two, r : q = Append(s, m) /\ w = Append(p, m) /\ two = 2 * ChatRounds /\ r = LastOf(q, two)
  OBVIOUS
<1>n. PICK n, l, c : n = Len(s) /\ l = Len(p) /\ c = Len(r)
  OBVIOUS
<1>1. /\ n \in Nat /\ l \in Nat /\ k \in Nat /\ k <= n /\ k <= l /\ two \in Nat /\ two > 0
      /\ \A i \in 0 .. k - 1 : s[n - i] = p[l - i]
      /\ \A j \in 1 .. l - k : j <= l - two \/ Stale(p[j], time)
  BY <1>q, <1>n, ChatConstants, LenProperties DEF Tracking
<1>2. /\ q \in Seq(Messages) /\ Len(q) = n + 1 /\ q[n + 1] = m /\ \A i \in 1 .. n : q[i] = s[i]
      /\ Len(w) = l + 1 /\ w[l + 1] = m /\ \A i \in 1 .. l : w[i] = p[i]
  <2>1. m \in Messages
    BY DEF Messages
  <2> QED BY <1>q, <1>n, <2>1, AppendProperties
<1>3. r \in Seq(Messages) /\ Suffix(r, q) /\ c = IF n + 1 > two THEN two ELSE n + 1
  <2>1. /\ r \in Seq(Messages) /\ Suffix(r, q)
        /\ Len(r) = IF Len(q) > two THEN two ELSE Len(q)
    BY ONLY <1>1, <1>2, <1>q, LastOfIs
  <2> QED BY ONLY <1>2, <1>n, <2>1
<1>4. c \in Nat /\ c <= n + 1 /\ c > 0 /\ \A i \in 0 .. c - 1 : r[c - i] = q[n + 1 - i]
  <2>1. c \in Nat /\ c <= n + 1 /\ c > 0 /\ \A i \in 1 .. c : r[i] = q[n + 1 - c + i]
    <3>1. c <= n + 1 /\ \A i \in 1 .. c : r[i] = q[n + 1 - c + i]
      <4>1. Len(r) <= Len(q) /\ \A i \in 1 .. Len(r) : r[i] = q[Len(q) - Len(r) + i]
        BY ONLY <1>3 DEF Suffix
      <4>2. Len(r) = c /\ Len(q) = n + 1
        BY ONLY <1>2, <1>n
      <4>3. c \in Nat /\ n \in Nat
        BY ONLY <1>1, <1>3
      <4> QED BY ONLY <4>1, <4>2, <4>3
    <3>2. c \in Nat /\ c > 0
      BY ONLY <1>1, <1>3
    <3> QED BY <3>1, <3>2
  <2>2. \A i \in 0 .. c - 1 : c - i \in 1 .. c /\ n + 1 - c + (c - i) = n + 1 - i
    BY ONLY <1>1, <2>1
  <2> QED BY ONLY <2>1, <2>2
<1>5. ASSUME NEW i \in 0 .. k, i <= c - 1 PROVE r[c - i] = w[l + 1 - i]
  <2>1. i \in 0 .. c - 1 /\ r[c - i] = q[n + 1 - i]
    BY <1>1, <1>4, <1>5
  <2>2. CASE i = 0
    BY <1>1, <1>2, <2>1, <2>2
  <2>3. CASE i # 0
    <3>1. /\ i - 1 \in 0 .. k - 1 /\ n + 1 - i \in 1 .. n /\ l + 1 - i \in 1 .. l
          /\ n - (i - 1) = n + 1 - i /\ l - (i - 1) = l + 1 - i
      <4>1. n \in Nat /\ l \in Nat /\ k \in Nat /\ k <= n /\ k <= l /\ i \in Nat /\ i <= k /\ i # 0
        BY <1>1, <2>3
      <4>2. i - 1 \in 0 .. k - 1
        BY ONLY <4>1
      <4>3. n + 1 - i \in 1 .. n /\ l + 1 - i \in 1 .. l
        BY ONLY <4>1
      <4>4. n - (i - 1) = n + 1 - i /\ l - (i - 1) = l + 1 - i
        BY ONLY <4>1
      <4> QED BY <4>2, <4>3, <4>4
    <3>2. s[n + 1 - i] = p[l + 1 - i]
      BY <1>1, <3>1
    <3> QED BY <1>2, <2>1, <3>1, <3>2
  <2> QED BY <2>2, <2>3
<1>6. CASE k + 1 <= c
  <2>1. \A i \in 0 .. (k + 1) - 1 : i \in 0 .. k /\ i <= c - 1
    BY <1>1, <1>4, <1>6
  <2>2. \A i \in 0 .. (k + 1) - 1 : r[c - i] = w[l + 1 - i]
    BY <1>5, <2>1
  <2>3. ASSUME NEW j \in 1 .. (l + 1) - (k + 1) PROVE j <= (l + 1) - two \/ Stale(w[j], time)
    <3>1. j \in 1 .. l - k /\ j \in 1 .. l
      BY <1>1
    <3>2. j <= l - two \/ Stale(p[j], time)
      BY <1>1, <3>1
    <3> QED BY <1>1, <1>2, <3>1, <3>2
  <2>4. Tracking(r, w, time, k + 1) /\ k + 1 \in 0 .. Len(w)
    <3>1. Len(w) = l + 1 /\ Len(r) = c /\ two = 2 * ChatRounds /\ k + 1 <= c
      BY <1>1, <1>2, <1>4, <1>n, <1>q, <1>6
    <3>2. k + 1 <= Len(r) /\ \A i \in 0 .. (k + 1) - 1 : r[Len(r) - i] = w[Len(w) - i]
      <4>1. k + 1 <= Len(r)
        BY ONLY <3>1
      <4>2. ASSUME NEW i \in 0 .. (k + 1) - 1 PROVE r[Len(r) - i] = w[Len(w) - i]
        <5>1. r[c - i] = w[l + 1 - i]
          BY ONLY <2>2, i \in 0 .. (k + 1) - 1
        <5>2. Len(r) = c /\ Len(w) = l + 1
          BY ONLY <3>1
        <5>3. c \in Nat /\ l \in Nat /\ k \in Nat /\ i \in Nat
          BY <1>1, <1>4
        <5> QED BY ONLY <5>1, <5>2, <5>3
      <4> QED BY ONLY <4>1, <4>2
    <3>3. \A j \in 1 .. Len(w) - (k + 1) : j <= Len(w) - 2 * ChatRounds \/ Stale(w[j], time)
      BY ONLY <2>3, <3>1
    <3>4. k + 1 \in 0 .. Len(w)
      BY ONLY <1>1, <3>1
    <3> QED BY ONLY <3>2, <3>3, <3>4 DEF Tracking
  <2>5. Tracks(r, w, time)
    BY <2>4 DEF Tracks
  <2> QED BY <1>q, <2>5 DEF LastRounds
<1>7. CASE ~(k + 1 <= c)
  <2>1. c = two /\ c \in 0 .. l + 1 /\ \A i \in 0 .. c - 1 : i \in 0 .. k /\ i <= c - 1
    BY <1>1, <1>3, <1>4, <1>7
  <2>2. \A i \in 0 .. c - 1 : r[c - i] = w[l + 1 - i]
    BY <1>5, <2>1
  <2>3. \A j \in 1 .. (l + 1) - c : j <= (l + 1) - two
    BY <1>1, <2>1
  <2>4. Tracking(r, w, time, c)
    <3>1. Len(w) = l + 1 /\ Len(r) = c /\ two = 2 * ChatRounds /\ c <= c
      BY <1>1, <1>2, <1>4, <1>n, <1>q
    <3>2. c <= Len(r) /\ \A i \in 0 .. c - 1 : r[Len(r) - i] = w[Len(w) - i]
      <4>1. c <= Len(r)
        BY ONLY <1>4, <3>1
      <4>2. ASSUME NEW i \in 0 .. c - 1 PROVE r[Len(r) - i] = w[Len(w) - i]
        <5>1. r[c - i] = w[l + 1 - i]
          BY ONLY <2>2, i \in 0 .. c - 1
        <5>2. Len(r) = c /\ Len(w) = l + 1
          BY ONLY <3>1
        <5>3. c \in Nat /\ l \in Nat /\ k \in Nat /\ i \in Nat
          BY <1>1, <1>4
        <5> QED BY ONLY <5>1, <5>2, <5>3
      <4> QED BY ONLY <4>1, <4>2
    <3>3. \A j \in 1 .. Len(w) - c : j <= Len(w) - 2 * ChatRounds \/ Stale(w[j], time)
      BY ONLY <2>3, <3>1
    <3> QED BY ONLY <3>2, <3>3 DEF Tracking
  <2>5. Tracks(r, w, time)
    BY <1>2, <2>1, <2>4 DEF Tracks
  <2> QED BY <1>q, <2>5 DEF LastRounds
<1> QED BY <1>6, <1>7

\* Time only makes more stale.
LEMMA TimeTracks ==
  ASSUME NEW s, NEW p \in Seq(Said), NEW time \in Nat, Tracks(s, p, time)
  PROVE  Tracks(s, p, time + 1)
<1> PICK k \in 0 .. Len(p) : Tracking(s, p, time, k)
  BY DEF Tracks
<1>1. \A j \in 1 .. Len(p) - k : Stale(p[j], time) => Stale(p[j], time + 1)
  <2> SUFFICES ASSUME NEW j \in 1 .. Len(p) - k, Stale(p[j], time) PROVE Stale(p[j], time + 1)
    OBVIOUS
  <2>1. p[j].at \in Nat /\ ChatTtl \in Nat
    <3>1. j \in 1 .. Len(p)
      BY LenProperties
    <3>2. p[j] \in Said
      BY <3>1, LenProperties
    <3> QED BY <3>2, ChatConstants DEF Said
  <2> QED BY <2>1 DEF Stale
<1>2. Tracking(s, p, time + 1, k)
  BY <1>1 DEF Tracking
<1> QED BY <1>2 DEF Tracks

LEMMA TimeTimely ==
  ASSUME NEW s, NEW time \in Nat, Timely(s, time)
  PROVE  Timely(s, time + 1)
BY DEF Timely

\* Of what is all stale, nothing is missing.
LEMMA StaleTracks ==
  ASSUME NEW s \in Seq(Messages), NEW p \in Seq(Said), NEW time, \A j \in 1 .. Len(p) : Stale(p[j], time)
  PROVE  Tracks(s, p, time)
<1>1. Len(s) \in Nat /\ Len(p) \in Nat
  BY LenProperties
<1>2. Tracking(s, p, time, 0)
  BY <1>1 DEF Tracking
<1> QED BY <1>1, <1>2 DEF Tracks

\* What of the last rounds is not stale is the end of a list that tracks them.
LEMMA HistoryGiven ==
  ASSUME chatClock \in Nat, NEW s \in Seq(Messages), NEW p \in Seq(Said),
         Timely(s, chatClock), Timely(p, chatClock), Tracks(s, p, chatClock)
  PROVE  LastOf(Unexpired(s), Len(Unexpired(LastRounds(p)))) = Unexpired(LastRounds(p))
<1>q. PICK time, two, q, due, u : /\ time = chatClock /\ two = 2 * ChatRounds /\ q = LastOf(p, two)
                               /\ due = Unexpired(q) /\ u = Unexpired(s)
  OBVIOUS
<1>1. time \in Nat /\ two \in Nat /\ q = LastRounds(p)
  BY <1>q, ChatConstants DEF LastRounds
<1>k. PICK k \in 0 .. Len(p) : Tracking(s, p, time, k)
  BY <1>q DEF Tracks
<1>2. q \in Seq(Said) /\ Suffix(q, p) /\ Len(q) = IF Len(p) > two THEN two ELSE Len(p)
  BY ONLY <1>1, <1>q, p \in Seq(Said), LastOfIs
<1>3. due \in Seq(Said) /\ KeptOf(due, q, Len(q), time)
  <2>1. Timely(q, chatClock)
    BY <1>2, SuffixTimely
  <2> QED BY <1>q, <1>2, <2>1, UnexpiredIs
<1>4. u \in Seq(Messages) /\ KeptOf(u, s, Len(s), time)
  BY <1>q, UnexpiredIs
<1>n. PICK n, l, c, d, v : n = Len(s) /\ l = Len(p) /\ c = Len(u) /\ d = Len(due) /\ v = Len(q)
  OBVIOUS
<1>5. /\ n \in Nat /\ l \in Nat /\ k \in Nat /\ k <= n /\ k <= l
      /\ \A i \in 0 .. k - 1 : s[n - i] = p[l - i]
      /\ \A j \in 1 .. l - k : j <= l - two \/ Stale(p[j], time)
  BY LenProperties, <1>1, <1>k, <1>q, <1>n DEF Tracking
<1>6. /\ c \in Nat /\ c <= n /\ \A i \in 1 .. n - c : Stale(s[i], time)
      /\ \A i \in 1 .. c : u[i] = s[n - c + i]
  BY <1>4, <1>n, LenProperties DEF KeptOf
<1>7. /\ d \in Nat /\ d <= l /\ d <= two
      /\ \A i \in 1 .. d : due[i] = p[l - d + i] /\ ~Stale(p[l - d + i], time)
  <2>1. v \in Nat /\ v <= l /\ v <= two /\ \A i \in 1 .. v : q[i] = p[l - v + i]
    <3>1. Len(q) <= Len(p) /\ \A i \in 1 .. Len(q) : q[i] = p[Len(p) - Len(q) + i]
      BY ONLY <1>2 DEF Suffix
    <3>2. Len(q) = v /\ Len(p) = l /\ v = IF l > two THEN two ELSE l
      BY ONLY <1>2, <1>n
    <3>3. v <= l /\ \A i \in 1 .. v : q[i] = p[l - v + i]
      BY ONLY <3>1, <3>2
    <3>4. v \in Nat /\ v <= two
      BY ONLY <1>1, <1>5, <3>2
    <3> QED BY <3>3, <3>4
  <2>2. d \in Nat /\ d <= v /\ \A i \in 1 .. d : due[i] = q[v - d + i] /\ ~Stale(due[i], time)
    BY <1>3, <1>n, LenProperties DEF KeptOf
  <2>3. \A i \in 1 .. d : v - d + i \in 1 .. v /\ l - v + (v - d + i) = l - d + i
    BY ONLY <1>5, <2>1, <2>2
  <2>4. d <= l /\ d <= two
    BY ONLY <1>1, <1>5, <2>1, <2>2
  <2>5. \A i \in 1 .. d : due[i] = p[l - d + i] /\ ~Stale(p[l - d + i], time)
    BY ONLY <2>1, <2>2, <2>3
  <2> QED BY <2>2, <2>4, <2>5
<1>8. d <= k
  <2> SUFFICES ASSUME ~(d <= k) PROVE FALSE
    OBVIOUS
  <2>1. l - k \in 1 .. l - k /\ ~(l - k <= l - two) /\ d - k \in 1 .. d /\ l - d + (d - k) = l - k
    BY <1>1, <1>5, <1>7
  <2>2. Stale(p[l - k], time)
    BY <1>5, <2>1
  <2>3. ~Stale(p[l - k], time)
    BY <1>7, <2>1
  <2> QED BY <2>2, <2>3
<1>9. d <= c
  <2> SUFFICES ASSUME ~(d <= c) PROVE FALSE
    OBVIOUS
  <2>1. c \in 0 .. k - 1 /\ n - c \in 1 .. n - c /\ d - c \in 1 .. d /\ l - d + (d - c) = l - c
    BY <1>5, <1>6, <1>7, <1>8
  <2>2. Stale(s[n - c], time) /\ s[n - c] = p[l - c]
    BY <1>5, <1>6, <2>1
  <2>3. ~Stale(p[l - c], time)
    BY <1>7, <2>1
  <2> QED BY <2>2, <2>3
<1>g. PICK g : g = LastOf(u, d)
  OBVIOUS
<1>10. g \in Seq(Messages) /\ Len(g) = d /\ \A i \in 1 .. d : g[i] = u[c - d + i]
  <2>1. g \in Seq(Messages) /\ Suffix(g, u) /\ Len(g) = IF c > d THEN d ELSE c
    <3>1. g \in Seq(Messages) /\ Suffix(g, u) /\ Len(g) = IF Len(u) > d THEN d ELSE Len(u)
      BY ONLY <1>4, <1>7, <1>g, LastOfIs
    <3> QED BY ONLY <1>n, <3>1
  <2>2. Len(g) = d
    BY ONLY <1>6, <1>7, <1>9, <2>1
  <2> QED BY ONLY <1>n, <2>1, <2>2 DEF Suffix
<1>11. ASSUME NEW i \in 1 .. d PROVE g[i] = due[i]
  <2>1. /\ c - d + i \in 1 .. c /\ n - c + (c - d + i) = n - (d - i) /\ d - i \in 0 .. k - 1
        /\ l - (d - i) = l - d + i
    BY <1>5, <1>6, <1>7, <1>8, <1>9
  <2>2. g[i] = s[n - (d - i)]
    BY ONLY <1>6, <1>10, <2>1, i \in 1 .. d
  <2>3. s[n - (d - i)] = p[l - (d - i)]
    BY <1>5, <2>1
  <2> QED BY <1>7, <2>1, <2>2, <2>3
<1>12. g = due
  <2>1. due \in Seq(Messages) /\ Len(due) = d
    BY <1>3, <1>n DEF Messages
  <2> QED BY ONLY <1>10, <1>11, <2>1, SeqEqual
<1> QED BY <1>1, <1>12, <1>q, <1>n, <1>g
\* What the platform gives back of its memory; nothing of it is the router's.
LEMMA RefillIs ==
  ASSUME chatClock \in Nat, archive \in Seq(Remembered), Timely(archive, chatClock), NEW back
  PROVE  /\ Refill(back) \in Seq(Messages) /\ Len(Refill(back)) <= 2 * ChatRounds
         /\ Timely(Refill(back), chatClock) /\ \A p : SaidIn(Refill(back), p)
<1> PICK two, r, q : two = 2 * ChatRounds /\ r = LastOf(archive, two) /\ q = Refill(back)
  OBVIOUS
<1>1. two \in Nat
  BY ChatConstants
<1>2. CASE back
  <2>1. q = r
    BY <1>2 DEF Refill, LastRounds
  <2>2. r \in Seq(Remembered) /\ Suffix(r, archive) /\ Len(r) = IF Len(archive) > two THEN two ELSE Len(archive)
    BY ONLY <1>1, r = LastOf(archive, two), archive \in Seq(Remembered), LastOfIs
  <2>3. Timely(r, chatClock)
    BY <2>2, SuffixTimely
  <2>4. Len(r) <= two /\ r \in Seq(Messages)
    BY <1>1, <2>2, LenProperties DEF Messages
  <2>5. \A i \in 1 .. Len(r) : r[i].by # "router"
    <3>1. \A i \in 1 .. Len(r) : r[i] \in Remembered
      BY <2>2, LenProperties
    <3> QED BY <3>1 DEF Remembered
  <2>6. \A p : SaidIn(r, p)
    BY <2>5 DEF SaidIn
  <2> QED BY <2>1, <2>3, <2>4, <2>6
<1>3. CASE ~back
  <2>1. q = <<>>
    BY <1>3 DEF Refill
  <2>2. q \in Seq(Messages) /\ Len(q) = 0
    BY <2>1
  <2>3. Timely(q, chatClock) /\ \A p : SaidIn(q, p)
    BY <2>2 DEF Timely, SaidIn
  <2> QED BY <1>1, <2>2, <2>3
<1> QED BY <1>2, <1>3

\* A history is told by its memory, whether it was read, and its key.
LEMMA HistoryOf ==
  ASSUME NEW h \in Histories, NEW s \in Seq(Messages)
  PROVE  /\ [h EXCEPT !.loaded = TRUE, !.mem = s] = [mem |-> s, loaded |-> TRUE, saved |-> h.saved]
         /\ [h EXCEPT !.mem = s] = [mem |-> s, loaded |-> h.loaded, saved |-> h.saved]
<1> PICK S, K : S = Seq(Messages) /\ K = [msgs: S, until: Nat]
  OBVIOUS
<1>1. h \in [mem: S, loaded: BOOLEAN, saved: K]
  BY DEF Histories
<1>2. [h EXCEPT !.loaded = TRUE, !.mem = s] = [mem |-> s, loaded |-> TRUE, saved |-> h.saved]
  <2>1. PICK g : g = [h EXCEPT !.loaded = TRUE]
    OBVIOUS
  <2>2. g = [mem |-> h.mem, loaded |-> TRUE, saved |-> h.saved]
    BY ONLY <1>1, <2>1
  <2>3. [g EXCEPT !.mem = s] = [mem |-> s, loaded |-> TRUE, saved |-> h.saved]
    <3>1. g \in [mem: S, loaded: BOOLEAN, saved: K] /\ g.loaded = TRUE /\ g.saved = h.saved
      BY ONLY <1>1, <2>2
    <3>2. [g EXCEPT !.mem = s] = [mem |-> s, loaded |-> g.loaded, saved |-> g.saved]
      BY ONLY <3>1
    <3> QED BY <3>1, <3>2
  <2>4. [h EXCEPT !.loaded = TRUE, !.mem = s] = [g EXCEPT !.mem = s]
    BY ONLY <2>1
  <2> QED BY <2>3, <2>4
<1>3. [h EXCEPT !.mem = s] = [mem |-> s, loaded |-> h.loaded, saved |-> h.saved]
  BY ONLY <1>1
<1> QED BY <1>2, <1>3

LEMMA SavedIs ==
  ASSUME NEW h \in Histories, NEW lost
  PROVE  SavedAs(h, lost) = [mem |-> h.mem, loaded |-> h.loaded,
                             saved |-> IF "SET" \in lost THEN h.saved
                                       ELSE [msgs |-> h.mem, until |-> chatClock + ChatTtl]]
<1>k. PICK S, K, key : /\ S = Seq(Messages) /\ K = [msgs: S, until: Nat]
                      /\ key = [msgs |-> h.mem, until |-> chatClock + ChatTtl]
  OBVIOUS
<1>1. h \in [mem: S, loaded: BOOLEAN, saved: K]
  BY <1>k DEF Histories
<1>2. [h EXCEPT !.saved = key] = [mem |-> h.mem, loaded |-> h.loaded, saved |-> key]
  BY ONLY <1>1
<1>3. h = [mem |-> h.mem, loaded |-> h.loaded, saved |-> h.saved]
  BY ONLY <1>1
<1>4. SavedAs(h, lost) = IF "SET" \in lost THEN h ELSE [h EXCEPT !.saved = key]
  BY <1>k DEF SavedAs
<1>5. CASE "SET" \in lost
  BY <1>3, <1>4, <1>5
<1>6. CASE "SET" \notin lost
  BY <1>2, <1>4, <1>6, <1>k
<1> QED BY <1>5, <1>6

\* A save, whether it succeeds or not, is of the memory.
LEMMA SavedShaped ==
  ASSUME NEW h, NEW lost, chatClock \in Nat, Shaped(h, chatClock)
  PROVE  Shaped(SavedAs(h, lost), chatClock) /\ SavedAs(h, lost).loaded = h.loaded /\ SavedAs(h, lost).mem = h.mem
<1> PICK g : g = SavedAs(h, lost)
  OBVIOUS
<1>1. h \in Histories /\ ChatTtl \in Nat
  BY ChatConstants DEF Shaped
<1>2. g = [mem |-> h.mem, loaded |-> h.loaded,
           saved |-> IF "SET" \in lost THEN h.saved ELSE [msgs |-> h.mem, until |-> chatClock + ChatTtl]]
  BY <1>1, SavedIs
<1>3. CASE "SET" \in lost
  BY <1>1, <1>2, <1>3 DEF Shaped, Histories
<1>4. CASE "SET" \notin lost
  <2>1. g.mem = h.mem /\ g.loaded = h.loaded /\ g.saved.msgs = h.mem /\ g \in Histories
    BY <1>1, <1>2, <1>4 DEF Histories
  <2> QED BY <2>1 DEF Shaped
<1> QED BY <1>3, <1>4

LEMMA SavedAgrees ==
  ASSUME NEW h, NEW lost, NEW p \in Seq(Said), NEW stale, chatClock \in Nat, Shaped(h, chatClock),
         Timely(p, chatClock), SaidIn(h.mem, p), SaidIn(h.saved.msgs, p), h.loaded, Tracks(h.mem, p, chatClock),
         ~stale => "SET" \notin lost \/ KeyTracks(h.saved, p, chatClock)
  PROVE  Agrees(SavedAs(h, lost), p, chatClock, stale)
<1> PICK g : g = SavedAs(h, lost)
  OBVIOUS
<1>1. h \in Histories /\ ChatTtl \in Nat
  BY ChatConstants DEF Shaped
<1>2. g = [mem |-> h.mem, loaded |-> h.loaded,
           saved |-> IF "SET" \in lost THEN h.saved ELSE [msgs |-> h.mem, until |-> chatClock + ChatTtl]]
  BY <1>1, SavedIs
<1>3. CASE "SET" \in lost
  <2>1. g.mem = h.mem /\ g.loaded = h.loaded /\ g.saved = h.saved
    BY <1>2, <1>3
  <2> QED BY <1>3, <2>1 DEF Agrees
<1>4. CASE "SET" \notin lost
  <2>1. /\ g.mem = h.mem /\ g.loaded = h.loaded /\ g.saved.msgs = h.mem
        /\ g.saved.until = chatClock + ChatTtl
    BY <1>2, <1>4
  <2>2. ASSUME NEW j \in 1 .. Len(p) PROVE p[j].at + ChatTtl <= chatClock + ChatTtl
    <3>1. p[j].at \in Nat /\ p[j].at <= chatClock
      BY DEF Timely
    <3> QED BY <1>1, <3>1
  <2>3. KeyTracks(g.saved, p, chatClock)
    BY <2>1, <2>2 DEF KeyTracks
  <2> QED BY <2>1, <2>3 DEF Agrees
<1> QED BY <1>3, <1>4

\* _ensure_loaded
LEMMA EnsureLoadedShaped ==
  ASSUME chatClock \in Nat, archive \in Seq(Remembered), Timely(archive, chatClock),
         NEW h, NEW back, NEW lost, Shaped(h, chatClock)
  PROVE  Shaped(EnsureLoaded(h, back, lost), chatClock) /\ EnsureLoaded(h, back, lost).loaded
<1> PICK r, g : r = Refill(back) /\ g = EnsureLoaded(h, back, lost)
  OBVIOUS
<1>1. r \in Seq(Messages) /\ Len(r) <= 2 * ChatRounds /\ Timely(r, chatClock)
  BY RefillIs
<1>2. h \in Histories /\ h.saved.msgs \in Seq(Messages) /\ h.loaded \in BOOLEAN
  BY DEF Shaped, Histories
<1>f. PICK filled, found : /\ filled = [h EXCEPT !.loaded = TRUE, !.mem = r]
                           /\ found = [h EXCEPT !.loaded = TRUE, !.mem = h.saved.msgs]
  OBVIOUS
<1>3. /\ filled = [mem |-> r, loaded |-> TRUE, saved |-> h.saved]
      /\ found = [mem |-> h.saved.msgs, loaded |-> TRUE, saved |-> h.saved]
  BY <1>1, <1>2, <1>f, HistoryOf
<1>4. Shaped(filled, chatClock) /\ filled.loaded /\ Shaped(found, chatClock) /\ found.loaded
  BY <1>1, <1>2, <1>3 DEF Shaped, Histories
<1>5. Shaped(SavedAs(filled, lost), chatClock) /\ SavedAs(filled, lost).loaded
  BY <1>4, SavedShaped
<1>6. (g = h /\ h.loaded) \/ g = found \/ g = filled \/ g = SavedAs(filled, lost)
  BY <1>2, <1>f DEF EnsureLoaded
<1> QED BY <1>4, <1>5, <1>6

LEMMA EnsureLoadedAgrees ==
  ASSUME chatClock \in Nat, archive \in Seq(Remembered), Timely(archive, chatClock),
         NEW h, NEW back, NEW lost, Shaped(h, chatClock), "GET" \notin lost \/ h.loaded,
         NEW p \in Seq(Said), Timely(p, chatClock), NEW stale \in BOOLEAN,
         ~h.loaded => ~stale, Agrees(h, p, chatClock, stale)
  PROVE  Agrees(EnsureLoaded(h, back, lost), p, chatClock, stale)
<1> PICK r, g : r = Refill(back) /\ g = EnsureLoaded(h, back, lost)
  OBVIOUS
<1>1. r \in Seq(Messages) /\ Len(r) <= 2 * ChatRounds /\ Timely(r, chatClock) /\ SaidIn(r, p)
  BY RefillIs
<1>2. /\ h \in Histories /\ h.saved.msgs \in Seq(Messages) /\ h.loaded \in BOOLEAN
      /\ h.saved.until \in Nat
  BY DEF Shaped, Histories
<1>f. PICK filled, found : /\ filled = [h EXCEPT !.loaded = TRUE, !.mem = r]
                           /\ found = [h EXCEPT !.loaded = TRUE, !.mem = h.saved.msgs]
  OBVIOUS
<1>3. /\ filled = [mem |-> r, loaded |-> TRUE, saved |-> h.saved]
      /\ found = [mem |-> h.saved.msgs, loaded |-> TRUE, saved |-> h.saved]
  BY <1>1, <1>2, <1>f, HistoryOf
<1>4. CASE h.loaded
  BY <1>4 DEF EnsureLoaded
<1>5. CASE ~h.loaded /\ Lives(h.saved)
  <2>1. g = found
    BY <1>5, <1>f DEF EnsureLoaded
  <2>2. Agrees(found, p, chatClock, stale)
    BY <1>3, <1>5 DEF Agrees, KeyTracks
  <2> QED BY <2>1, <2>2
<1>6. CASE ~h.loaded /\ ~Lives(h.saved)
  <2>1. g = filled \/ g = SavedAs(filled, lost)
    BY <1>6, <1>f DEF EnsureLoaded
  <2>2. KeyTracks(h.saved, p, chatClock)
    BY <1>6 DEF Agrees
  <2>3. ASSUME NEW j \in 1 .. Len(p) PROVE Stale(p[j], chatClock)
    <3>1. p[j].at \in Nat /\ ChatTtl \in Nat /\ p[j].at + ChatTtl <= h.saved.until /\ h.saved.until <= chatClock
      BY <1>2, <1>6, <2>2, ChatConstants DEF KeyTracks, Timely, Lives
    <3> QED BY ONLY <1>2, <3>1, chatClock \in Nat DEF Stale
  <2>4. Tracks(r, p, chatClock)
    BY <1>1, <2>3, StaleTracks
  <2>5. /\ filled.mem = r /\ filled.loaded /\ filled.saved = h.saved /\ SaidIn(h.saved.msgs, p)
        /\ Shaped(filled, chatClock)
    BY <1>1, <1>2, <1>3 DEF Shaped, Histories, Agrees
  <2>6. Agrees(filled, p, chatClock, stale)
    BY <1>1, <2>2, <2>4, <2>5 DEF Agrees
  <2>7. Agrees(SavedAs(filled, lost), p, chatClock, stale)
    BY <1>1, <2>2, <2>4, <2>5, SavedAgrees
  <2> QED BY <2>1, <2>6, <2>7
<1> QED BY <1>2, <1>4, <1>5, <1>6
\* get: what it leaves is all that is not stale.
LEMMA GottenIs ==
  ASSUME chatClock \in Nat, archive \in Seq(Remembered), Timely(archive, chatClock),
         NEW h, NEW back, NEW lost, Shaped(h, chatClock)
  PROVE  Shaped(Gotten(h, back, lost), chatClock) /\ Gotten(h, back, lost).loaded
<1> PICK e, u, g : e = EnsureLoaded(h, back, lost) /\ u = Unexpired(e.mem) /\ g = Gotten(h, back, lost)
  OBVIOUS
<1>1. Shaped(e, chatClock) /\ e.loaded
  BY EnsureLoadedShaped
<1>2. e \in Histories /\ e.mem \in Seq(Messages) /\ Timely(e.mem, chatClock) /\ Len(e.mem) <= 2 * ChatRounds
  BY <1>1 DEF Shaped, Histories
<1>3. u \in Seq(Messages) /\ KeptOf(u, e.mem, Len(e.mem), chatClock)
  BY <1>2, UnexpiredIs
<1>4. Suffix(u, e.mem) /\ Timely(u, chatClock)
  BY <1>2, <1>3, KeptSuffix, SuffixTimely
<1>5. Len(u) <= 2 * ChatRounds
  <2>1. Len(u) \in Nat /\ Len(e.mem) \in Nat /\ ChatRounds \in Nat /\ Len(u) <= Len(e.mem)
    BY <1>2, <1>3, <1>4, LenProperties, ChatConstants DEF Suffix
  <2> QED BY ONLY <1>2, <2>1
<1>6. g = [mem |-> u, loaded |-> e.loaded, saved |-> e.saved]
  <2>1. g = [e EXCEPT !.mem = u]
    BY DEF Gotten
  <2> QED BY <1>2, <1>3, <2>1, HistoryOf
<1> QED BY <1>1, <1>2, <1>3, <1>4, <1>5, <1>6 DEF Shaped, Histories

LEMMA GottenAgrees ==
  ASSUME chatClock \in Nat, archive \in Seq(Remembered), Timely(archive, chatClock),
         NEW h, NEW back, NEW lost, Shaped(h, chatClock), "GET" \notin lost \/ h.loaded,
         NEW p \in Seq(Said), Timely(p, chatClock), NEW stale \in BOOLEAN,
         ~h.loaded => ~stale, Agrees(h, p, chatClock, stale)
  PROVE  Agrees(Gotten(h, back, lost), p, chatClock, stale)
<1> PICK e, u, g : e = EnsureLoaded(h, back, lost) /\ u = Unexpired(e.mem) /\ g = Gotten(h, back, lost)
  OBVIOUS
<1>1. Shaped(e, chatClock) /\ e.loaded
  BY EnsureLoadedShaped
<1>a. Agrees(e, p, chatClock, stale)
  BY EnsureLoadedAgrees
<1>2. e \in Histories /\ e.mem \in Seq(Messages) /\ Timely(e.mem, chatClock)
  BY <1>1 DEF Shaped, Histories
<1>3. u \in Seq(Messages) /\ KeptOf(u, e.mem, Len(e.mem), chatClock)
  BY <1>2, UnexpiredIs
<1>4. SaidIn(u, p) /\ Tracks(u, p, chatClock)
  <2>1. SaidIn(e.mem, p) /\ Tracks(e.mem, p, chatClock)
    BY <1>1, <1>a DEF Agrees
  <2>2. Suffix(u, e.mem)
    BY <1>2, <1>3, KeptSuffix
  <2>3. SaidIn(u, p)
    BY <1>2, <1>3, <2>1, <2>2, SuffixSaid
  <2>4. Tracks(u, p, chatClock)
    BY <1>2, <1>3, <2>1, SweptTracks
  <2> QED BY <2>3, <2>4
<1>6. g = [mem |-> u, loaded |-> e.loaded, saved |-> e.saved]
  <2>1. g = [e EXCEPT !.mem = u]
    BY DEF Gotten
  <2> QED BY <1>2, <1>3, <2>1, HistoryOf
<1> QED BY <1>a, <1>4, <1>6 DEF Agrees

\* add_user, add_assistant: with one message more in memory, before it is saved.
LEMMA AddedShaped ==
  ASSUME chatClock \in 0 .. ChatHorizon, archive \in Seq(Remembered), Timely(archive, chatClock),
         NEW h, NEW back, NEW lost, Shaped(h, chatClock), NEW id \in ChatIds
  PROVE  Shaped(Added(h, id, back, lost), chatClock) /\ Added(h, id, back, lost).loaded
<1>q. PICK e, m, all, r, f : /\ e = EnsureLoaded(h, back, lost)
                             /\ m = [id |-> id, at |-> chatClock, by |-> "router"]
                             /\ all = Append(e.mem, m) /\ r = LastRounds(all) /\ f = [e EXCEPT !.mem = r]
  OBVIOUS
<1>0. chatClock \in Nat /\ ChatRounds \in Nat
  BY ChatConstants
<1>1. Shaped(e, chatClock) /\ e.loaded
  BY <1>0, <1>q, EnsureLoadedShaped
<1>2. e \in Histories /\ e.mem \in Seq(Messages) /\ Timely(e.mem, chatClock)
  BY <1>1 DEF Shaped, Histories
<1>3. m \in Messages /\ m.at = chatClock
  BY <1>q DEF Messages, Said
<1>4. all \in Seq(Messages) /\ Timely(all, chatClock)
  BY <1>0, <1>2, <1>3, <1>q, AppendTimely, AppendProperties
<1>5. r \in Seq(Messages) /\ Suffix(r, all) /\ Len(r) <= 2 * ChatRounds
  <2>1. r = LastOf(all, 2 * ChatRounds) /\ 2 * ChatRounds \in Nat
    BY <1>0, <1>q DEF LastRounds
  <2>2. /\ r \in Seq(Messages) /\ Suffix(r, all)
        /\ Len(r) = IF Len(all) > 2 * ChatRounds THEN 2 * ChatRounds ELSE Len(all)
    BY ONLY <1>4, <2>1, LastOfIs
  <2> QED BY <1>4, <2>1, <2>2, LenProperties
<1>6. Timely(r, chatClock)
  BY <1>0, <1>4, <1>5, SuffixTimely
<1>7. f = [mem |-> r, loaded |-> e.loaded, saved |-> e.saved]
  BY <1>0, <1>2, <1>5, <1>q, HistoryOf
<1>8. Shaped(f, chatClock) /\ f.loaded
  BY <1>1, <1>2, <1>5, <1>6, <1>7 DEF Shaped, Histories
<1>9. Added(h, id, back, lost) = SavedAs(f, lost)
  BY <1>q DEF Added
<1> QED BY <1>0, <1>8, <1>9, SavedShaped

\* With what is said now the history agrees, whether it is saved or not.
LEMMA AddedAgrees ==
  ASSUME chatClock \in 0 .. ChatHorizon, archive \in Seq(Remembered), Timely(archive, chatClock),
         NEW h, NEW back, NEW lost, Shaped(h, chatClock), "GET" \notin lost \/ h.loaded,
         NEW id \in ChatIds, NEW p \in Seq(Said), Timely(p, chatClock), NEW stale \in BOOLEAN,
         ~h.loaded => ~stale, Agrees(h, p, chatClock, stale)
  PROVE  Agrees(Added(h, id, back, lost), Append(p, [id |-> id, at |-> chatClock, by |-> "router"]),
                chatClock, "SET" \in lost)
<1>q. PICK e, m, all, r, f, w : /\ e = EnsureLoaded(h, back, lost)
                                /\ m = [id |-> id, at |-> chatClock, by |-> "router"]
                                /\ all = Append(e.mem, m) /\ r = LastRounds(all)
                                /\ f = [e EXCEPT !.mem = r] /\ w = Append(p, m)
  OBVIOUS
<1>0. chatClock \in Nat /\ ChatRounds \in Nat
  BY ChatConstants
<1>1. Shaped(e, chatClock) /\ e.loaded
  BY <1>0, <1>q, EnsureLoadedShaped
<1>a. Agrees(e, p, chatClock, stale)
  BY <1>0, <1>q, EnsureLoadedAgrees
<1>2. /\ e \in Histories /\ e.mem \in Seq(Messages) /\ e.saved.msgs \in Seq(Messages)
      /\ Timely(e.mem, chatClock) /\ Timely(e.saved.msgs, chatClock) /\ Len(e.saved.msgs) <= 2 * ChatRounds
  BY <1>1 DEF Shaped, Histories
<1>3. m \in Said /\ m \in Messages /\ m.at = chatClock
  BY <1>q DEF Messages, Said
<1>4. /\ all \in Seq(Messages) /\ w \in Seq(Said)
      /\ Timely(all, chatClock) /\ Timely(w, chatClock)
  <2>1. all \in Seq(Messages) /\ w \in Seq(Said)
    BY <1>2, <1>3, <1>q, AppendProperties
  <2>2. Timely(all, chatClock)
    BY <1>0, <1>2, <1>3, <1>q, AppendTimely
  <2>3. Timely(w, chatClock)
    BY <1>0, <1>3, <1>q, AppendTimely
  <2> QED BY <2>1, <2>2, <2>3
<1>5. r \in Seq(Messages) /\ Suffix(r, all) /\ Len(r) <= 2 * ChatRounds
  <2>1. r = LastOf(all, 2 * ChatRounds) /\ 2 * ChatRounds \in Nat
    BY <1>0, <1>q DEF LastRounds
  <2>2. /\ r \in Seq(Messages) /\ Suffix(r, all)
        /\ Len(r) = IF Len(all) > 2 * ChatRounds THEN 2 * ChatRounds ELSE Len(all)
    BY ONLY <1>4, <2>1, LastOfIs
  <2> QED BY <1>4, <2>1, <2>2, LenProperties
<1>6. Timely(r, chatClock)
  BY <1>0, <1>4, <1>5, SuffixTimely
<1>7. f = [mem |-> r, loaded |-> e.loaded, saved |-> e.saved]
  BY <1>0, <1>2, <1>5, <1>q, HistoryOf
<1>8. Shaped(f, chatClock) /\ f.loaded /\ f.mem = r /\ f.saved = e.saved
  BY <1>1, <1>2, <1>5, <1>6, <1>7 DEF Shaped, Histories
<1>b. SaidIn(e.mem, p) /\ SaidIn(e.saved.msgs, p) /\ Tracks(e.mem, p, chatClock)
  BY <1>1, <1>a DEF Agrees
<1>c. SaidIn(all, w) /\ SaidIn(e.saved.msgs, w)
  BY <1>2, <1>3, <1>b, <1>q, AppendSaid
<1>d. SaidIn(r, w)
  BY <1>4, <1>5, <1>c, SuffixSaid
<1>e. Tracks(r, w, chatClock)
  BY <1>2, <1>3, <1>b, <1>q, AddedTracks
<1>f. Agrees(SavedAs(f, lost), w, chatClock, "SET" \in lost)
  BY <1>0, <1>4, <1>8, <1>c, <1>d, <1>e, SavedAgrees
<1>9. Added(h, id, back, lost) = SavedAs(f, lost)
  BY <1>q DEF Added
<1> QED BY <1>9, <1>f, <1>q

\* clear
LEMMA ClearIs ==
  ASSUME NEW h, NEW lost, chatClock \in Nat, Shaped(h, chatClock)
  PROVE  /\ Shaped(ClearAll(h, lost), chatClock) /\ ~ClearAll(h, lost).loaded
         /\ "DEL" \notin lost => Agrees(ClearAll(h, lost), <<>>, chatClock, FALSE)
<1> PICK g, nil : g = ClearAll(h, lost) /\ nil = <<>>
  OBVIOUS
<1>1. /\ nil \in Seq(Messages) /\ nil \in Seq(Said) /\ Len(nil) = 0 /\ Timely(nil, chatClock)
      /\ SaidIn(nil, nil) /\ 2 * ChatRounds \in Nat /\ 0 <= 2 * ChatRounds
  BY ChatConstants DEF Timely, SaidIn
<1>2. /\ g = [mem |-> nil, loaded |-> FALSE, saved |-> IF "DEL" \in lost THEN h.saved ELSE [msgs |-> nil, until |-> 0]]
      /\ h \in Histories
  BY DEF ClearAll, NoKey, Shaped
<1>3. Shaped(g, chatClock) /\ ~g.loaded
  <2>1. CASE "DEL" \in lost
    BY <1>1, <1>2, <2>1 DEF Shaped, Histories
  <2>2. CASE "DEL" \notin lost
    BY <1>1, <1>2, <2>2 DEF Shaped, Histories
  <2> QED BY <2>1, <2>2
<1>4. ASSUME "DEL" \notin lost PROVE Agrees(g, nil, chatClock, FALSE)
  <2>1. Tracks(nil, nil, chatClock)
    <3>1. \A j \in 1 .. Len(nil) : Stale(nil[j], chatClock)
      BY <1>1
    <3> QED BY <1>1, <3>1, StaleTracks
  <2>2. g.mem = nil /\ ~g.loaded /\ g.saved = [msgs |-> nil, until |-> 0]
    BY <1>2, <1>4
  <2>3. KeyTracks(g.saved, nil, chatClock)
    BY <1>1, <2>1, <2>2 DEF KeyTracks
  <2> QED BY <1>1, <2>2, <2>3 DEF Agrees
<1> QED BY <1>3, <1>4
\* What the type invariant adds to the shape of the history.
LEMMA HistoryTyped ==
  ASSUME NEW h, NEW time, Shaped(h, time)
  PROVE  /\ h.mem \in Seq(Said \cup Remembered) /\ Len(h.mem) <= 2 * ChatRounds
         /\ h.loaded \in BOOLEAN
         /\ h.saved.msgs \in Seq(Said \cup Remembered) /\ h.saved.until \in Nat
BY DEF Shaped, Histories, Messages

LEMMA HistoryStart ==
  ASSUME ChatInit
  PROVE  HistoryInv
<1> PICK nil : nil = <<>>
  OBVIOUS
<1>1. /\ nil \in Seq(Messages) /\ nil \in Seq(Said) /\ nil \in Seq(Remembered) /\ Len(nil) = 0
      /\ Timely(nil, 0) /\ SaidIn(nil, nil) /\ 2 * ChatRounds \in Nat /\ 0 <= 2 * ChatRounds
  BY ChatConstants DEF Timely, SaidIn
<1>2. /\ chat = [mem |-> nil, loaded |-> FALSE, saved |-> [msgs |-> nil, until |-> 0]]
      /\ archive = nil /\ spoken = nil /\ chatClock = 0 /\ ~unsaved /\ ~amiss
  BY DEF ChatInit, NoKey
<1>3. Shaped(chat, chatClock)
  BY <1>1, <1>2 DEF Shaped, Histories
<1>4. ChatTypeOK
  <2>1. turns \in [Turns -> [at: {"idle", "heard", "answering", "sending"}, id: ChatIds \cup {0}]]
    BY DEF ChatInit, NoTurn
  <2>2. /\ chatClock \in 0 .. ChatHorizon /\ lastId \in 0 .. MaxSaid /\ chatCrashes \in 0 .. MaxChatCrashes
        /\ chatMishaps \in 0 .. MaxChatMishaps /\ unsaved \in BOOLEAN /\ amiss \in BOOLEAN
    <3>1. /\ chatClock \in 0 .. ChatHorizon /\ lastId \in 0 .. MaxSaid
          /\ chatCrashes \in 0 .. MaxChatCrashes /\ chatMishaps \in 0 .. MaxChatMishaps
      BY ChatConstants DEF ChatInit
    <3>2. unsaved \in BOOLEAN /\ amiss \in BOOLEAN
      BY DEF ChatInit
    <3> QED BY <3>1, <3>2
  <2> QED BY <1>1, <1>2, <1>3, <2>1, <2>2, HistoryTyped DEF ChatTypeOK
<1>5. \A t \in Turns : turns[t].at # "idle" => turns[t].id \in ChatIds
  BY DEF ChatInit, NoTurn
<1>6. Agrees(chat, spoken, chatClock, unsaved)
  <2>1. \A j \in 1 .. Len(nil) : Stale(nil[j], chatClock)
    BY <1>1
  <2>2. Tracks(nil, nil, chatClock)
    BY <1>1, <2>1, StaleTracks
  <2>3. chat.mem = nil /\ ~chat.loaded /\ chat.saved.msgs = nil
    BY <1>2
  <2>4. KeyTracks(chat.saved, nil, chatClock)
    BY <1>1, <2>2, <2>3 DEF KeyTracks
  <2> QED BY <1>1, <1>2, <2>3, <2>4 DEF Agrees
<1> QED BY <1>1, <1>2, <1>3, <1>4, <1>5, <1>6 DEF HistoryInv

\* What the steps have in common of the invariant.
LEMMA HistoryKnown ==
  ASSUME HistoryInv
  PROVE  /\ chatClock \in 0 .. ChatHorizon /\ chatClock \in Nat /\ ChatHorizon \in Nat /\ ChatTtl \in Nat
         /\ archive \in Seq(Remembered) /\ spoken \in Seq(Said)
         /\ lastId \in 0 .. MaxSaid /\ MaxSaid \in Nat
         /\ unsaved \in BOOLEAN /\ amiss \in BOOLEAN
         /\ turns \in [Turns -> [at: {"idle", "heard", "answering", "sending"}, id: ChatIds \cup {0}]]
         /\ Shaped(chat, chatClock) /\ Timely(archive, chatClock) /\ Timely(spoken, chatClock)
         /\ chat \in Histories
BY ChatConstants DEF HistoryInv, ChatTypeOK, Shaped

\* A message the platform remembers.
LEMMA ArchivedIs ==
  ASSUME HistoryInv, NEW id \in ChatIds, InArchive(id)
  PROVE  archive' \in Seq(Remembered) /\ Timely(archive', chatClock)
<1> PICK m : m = [id |-> id, at |-> chatClock, by |-> "platform"]
  OBVIOUS
<1>1. m \in Remembered /\ m.at = chatClock
  BY HistoryKnown DEF Remembered
<1>2. archive' = Append(archive, m)
  BY DEF InArchive
<1>3. archive' \in Seq(Remembered)
  BY <1>1, <1>2, HistoryKnown, AppendProperties
<1>4. Timely(archive', chatClock)
  BY <1>1, <1>2, HistoryKnown, AppendTimely
<1> QED BY <1>3, <1>4

LEMMA HearStep ==
  ASSUME HistoryInv, NEW t \in Turns, Hear(t)
  PROVE  HistoryInv'
<1>1. lastId + 1 \in ChatIds /\ lastId' \in 0 .. MaxSaid /\ lastId' = lastId + 1
  BY HistoryKnown DEF Hear, ChatIds
<1>2. archive' \in Seq(Remembered) /\ Timely(archive', chatClock)
  BY <1>1, ArchivedIs DEF Hear
<1>3. UNCHANGED <<chatClock, chat, chatCrashes, chatMishaps, spoken, unsaved, amiss>>
  BY DEF Hear
<1>4. turns' = [turns EXCEPT ![t] = [at |-> "heard", id |-> lastId + 1]]
  BY DEF Hear
<1>5. ChatTypeOK'
  <2>1. turns' \in [Turns -> [at: {"idle", "heard", "answering", "sending"}, id: ChatIds \cup {0}]]
    BY <1>1, <1>4, HistoryKnown
  <2> QED BY <1>1, <1>2, <1>3, <2>1 DEF HistoryInv, ChatTypeOK
<1>6. (\A u \in Turns : turns[u].at # "idle" => turns[u].id \in ChatIds)'
  BY <1>1, <1>4, HistoryKnown DEF HistoryInv
<1> QED BY <1>2, <1>3, <1>5, <1>6 DEF HistoryInv

\* One message more is said.
LEMMA SpokenIs ==
  ASSUME HistoryInv, NEW p \in Seq(Said), Timely(p, chatClock), NEW id \in ChatIds
  PROVE  /\ Append(p, [id |-> id, at |-> chatClock, by |-> "router"]) \in Seq(Said)
         /\ Timely(Append(p, [id |-> id, at |-> chatClock, by |-> "router"]), chatClock)
<1> PICK m : m = [id |-> id, at |-> chatClock, by |-> "router"]
  OBVIOUS
<1>1. m \in Said /\ m.at = chatClock
  BY HistoryKnown DEF Said
<1>2. Append(p, m) \in Seq(Said)
  BY <1>1, AppendProperties
<1>3. Timely(Append(p, m), chatClock)
  BY <1>1, HistoryKnown, AppendTimely
<1> QED BY <1>2, <1>3

LEMMA NoticedIs ==
  ASSUME HistoryInv, NEW lost, NEW was \in BOOLEAN, Noticed(lost, was)
  PROVE  /\ chatMishaps' \in 0 .. MaxChatMishaps /\ unsaved' \in BOOLEAN /\ amiss' \in BOOLEAN
         /\ unsaved' = ("SET" \in lost)
         /\ ~amiss' => ~was /\ "GET" \notin lost /\ "DEL" \notin lost
<1>1. chatMishaps' \in 0 .. MaxChatMishaps
  <2>1. chatMishaps \in 0 .. MaxChatMishaps /\ MaxChatMishaps \in Nat
    BY ChatConstants DEF HistoryInv, ChatTypeOK
  <2>2. chatMishaps' = chatMishaps \/ (chatMishaps < MaxChatMishaps /\ chatMishaps' = chatMishaps + 1)
    BY DEF Noticed
  <2> QED BY ONLY <2>1, <2>2
<1>2. unsaved' = ("SET" \in lost) /\ amiss' = (was \/ lost \cap {"GET", "DEL"} # {})
  BY DEF Noticed
<1>3. lost \cap {"GET", "DEL"} = {} => "GET" \notin lost /\ "DEL" \notin lost
  OBVIOUS
<1>4. unsaved' \in BOOLEAN /\ amiss' \in BOOLEAN
  BY <1>2
<1>5. ~amiss' => ~was /\ "GET" \notin lost /\ "DEL" \notin lost
  BY <1>2, <1>3
<1> QED BY <1>1, <1>2, <1>4, <1>5

LEMMA BeginTurnStep ==
  ASSUME HistoryInv, NEW t \in Turns, NEW restart \in BOOLEAN, BeginTurn(t, restart)
  PROVE  HistoryInv'
<1>1. PICK back \in BOOLEAN, lost \in SUBSET {"GET", "SET", "DEL"} :
        /\ Noticed(lost, amiss /\ ~restart)
        /\ chat' = Added(Gotten(IF restart THEN ClearAll(chat, lost) ELSE chat, back, lost), turns[t].id, back, lost)
  BY DEF BeginTurn
<1>q. PICK h, g, p, old, id : /\ h = IF restart THEN ClearAll(chat, lost) ELSE chat
                              /\ g = Gotten(h, back, lost) /\ id = turns[t].id
                              /\ p = (IF restart THEN <<>> ELSE spoken)
                              /\ old = IF restart THEN FALSE ELSE unsaved
  OBVIOUS
<1>2. id \in ChatIds
  BY <1>q DEF HistoryInv, BeginTurn
<1>3. p \in Seq(Said) /\ Timely(p, chatClock) /\ old \in BOOLEAN
  <2>1. CASE restart
    <3> PICK nil : nil = <<>>
      OBVIOUS
    <3>1. nil \in Seq(Said) /\ Len(nil) = 0
      OBVIOUS
    <3>2. Timely(nil, chatClock)
      BY <3>1 DEF Timely
    <3> QED BY <1>q, <2>1, <3>1, <3>2
  <2>2. CASE ~restart
    BY <1>q, <2>2, HistoryKnown
  <2> QED BY <2>1, <2>2
<1>4. Shaped(h, chatClock) /\ (~h.loaded => ~old)
  <2>1. CASE restart
    BY <1>q, <2>1, HistoryKnown, ClearIs
  <2>2. CASE ~restart
    BY <1>q, <2>2, HistoryKnown DEF HistoryInv
  <2> QED BY <2>1, <2>2
<1>5. Shaped(g, chatClock) /\ g.loaded
  BY <1>4, <1>q, HistoryKnown, GottenIs
<1>6. chat' = Added(g, id, back, lost)
  BY <1>1, <1>q
<1>7. Shaped(chat', chatClock) /\ chat'.loaded
  BY <1>2, <1>5, <1>6, HistoryKnown, AddedShaped
<1>8. spoken' = Append(p, [id |-> id, at |-> chatClock, by |-> "router"])
  BY <1>q DEF BeginTurn
<1>9. spoken' \in Seq(Said) /\ Timely(spoken', chatClock)
  BY <1>2, <1>3, <1>8, SpokenIs
<1>10. /\ chatMishaps' \in 0 .. MaxChatMishaps /\ unsaved' \in BOOLEAN /\ amiss' \in BOOLEAN
       /\ unsaved' = ("SET" \in lost)
       /\ ~amiss' => ~(amiss /\ ~restart) /\ "GET" \notin lost /\ "DEL" \notin lost
  <2>1. (amiss /\ ~restart) \in BOOLEAN
    OBVIOUS
  <2> QED BY <1>1, <2>1, NoticedIs
<1>11. ASSUME ~amiss' PROVE Agrees(chat', spoken', chatClock, unsaved')
  <2>1. ~(amiss /\ ~restart) /\ "GET" \notin lost /\ "DEL" \notin lost
    BY <1>10, <1>11
  <2>2. Agrees(h, p, chatClock, old)
    <3>1. CASE restart
      BY <1>q, <2>1, <3>1, HistoryKnown, ClearIs
    <3>2. CASE ~restart
      BY <1>q, <2>1, <3>2 DEF HistoryInv
    <3> QED BY <3>1, <3>2
  <2>3. Agrees(g, p, chatClock, old)
    <3>1. "GET" \notin lost \/ h.loaded
      BY <2>1
    <3>2. chatClock \in Nat /\ archive \in Seq(Remembered) /\ Timely(archive, chatClock)
      BY HistoryKnown
    <3>3. Agrees(Gotten(h, back, lost), p, chatClock, old)
      BY ONLY <1>3, <1>4, <2>2, <3>1, <3>2, GottenAgrees
    <3> QED BY <1>q, <3>3
  <2>4. Agrees(chat', spoken', chatClock, "SET" \in lost)
    BY <1>2, <1>3, <1>5, <1>6, <1>8, <2>1, <2>3, HistoryKnown, AddedAgrees
  <2> QED BY <1>10, <2>4
<1>12. /\ UNCHANGED <<chatClock, archive, lastId, chatCrashes>>
       /\ turns' = [turns EXCEPT ![t].at = "answering"] /\ turns[t].at = "heard"
  BY DEF BeginTurn
<1>13. ChatTypeOK'
  <2>1. turns' \in [Turns -> [at: {"idle", "heard", "answering", "sending"}, id: ChatIds \cup {0}]]
    BY <1>12, HistoryKnown
  <2>2. /\ chat'.mem \in Seq(Said \cup Remembered) /\ Len(chat'.mem) <= 2 * ChatRounds
        /\ chat'.loaded \in BOOLEAN
        /\ chat'.saved.msgs \in Seq(Said \cup Remembered) /\ chat'.saved.until \in Nat
    BY <1>7, HistoryTyped
  <2> QED BY <1>9, <1>10, <1>12, <2>1, <2>2 DEF HistoryInv, ChatTypeOK
<1>14. (\A u \in Turns : turns[u].at # "idle" => turns[u].id \in ChatIds)'
  BY <1>12, HistoryKnown DEF HistoryInv
<1> QED BY <1>7, <1>9, <1>11, <1>12, <1>13, <1>14 DEF HistoryInv

LEMMA EndTurnStep ==
  ASSUME HistoryInv, NEW t \in Turns, EndTurn(t)
  PROVE  HistoryInv'
<1>1. UNCHANGED <<chatClock, archive, chatCrashes>> /\ turns[t].at = "answering"
  BY DEF EndTurn
<1>2. CASE /\ turns' = [turns EXCEPT ![t] = NoTurn]
           /\ UNCHANGED <<lastId, chat, chatMishaps, spoken, unsaved, amiss>>
  <2>1. turns' \in [Turns -> [at: {"idle", "heard", "answering", "sending"}, id: ChatIds \cup {0}]]
    BY <1>2, HistoryKnown DEF NoTurn
  <2>2. ChatTypeOK'
    BY <1>1, <1>2, <2>1 DEF HistoryInv, ChatTypeOK
  <2>3. (\A u \in Turns : turns[u].at # "idle" => turns[u].id \in ChatIds)'
    BY <1>2, HistoryKnown DEF HistoryInv, NoTurn
  <2> QED BY <1>1, <1>2, <2>2, <2>3 DEF HistoryInv
<1>3. CASE /\ lastId < MaxSaid /\ lastId' = lastId + 1
           /\ turns' = [turns EXCEPT ![t] = [at |-> "sending", id |-> lastId + 1]]
           /\ \E back \in BOOLEAN, lost \in SUBSET {"GET", "SET"} :
                /\ ("GET" \in lost => ~chat.loaded) /\ Noticed(lost, amiss)
                /\ chat' = Added(chat, lastId + 1, back, lost)
           /\ spoken' = Append(spoken, [id |-> lastId + 1, at |-> chatClock, by |-> "router"])
  <2>1. PICK back \in BOOLEAN, lost \in SUBSET {"GET", "SET"} :
          Noticed(lost, amiss) /\ chat' = Added(chat, lastId + 1, back, lost)
    BY <1>3
  <2>2. lastId + 1 \in ChatIds /\ lastId' \in 0 .. MaxSaid
    BY <1>3, HistoryKnown DEF ChatIds
  <2>3. Shaped(chat', chatClock) /\ chat'.loaded
    BY <2>1, <2>2, HistoryKnown, AddedShaped
  <2>4. spoken' \in Seq(Said) /\ Timely(spoken', chatClock)
    BY <1>3, <2>2, HistoryKnown, SpokenIs
  <2>5. /\ chatMishaps' \in 0 .. MaxChatMishaps /\ unsaved' \in BOOLEAN /\ amiss' \in BOOLEAN
        /\ unsaved' = ("SET" \in lost)
        /\ ~amiss' => ~amiss /\ "GET" \notin lost /\ "DEL" \notin lost
    BY <2>1, HistoryKnown, NoticedIs
  <2>6. ASSUME ~amiss' PROVE Agrees(chat', spoken', chatClock, unsaved')
    <3>1. Agrees(chat, spoken, chatClock, unsaved) /\ (~chat.loaded => ~unsaved) /\ "GET" \notin lost
      BY <2>5, <2>6 DEF HistoryInv
    <3>2. Agrees(chat', spoken', chatClock, "SET" \in lost)
      BY <1>3, <2>1, <2>2, <3>1, HistoryKnown, AddedAgrees
    <3> QED BY <2>5, <3>2
  <2>7. ChatTypeOK'
    <3>1. turns' \in [Turns -> [at: {"idle", "heard", "answering", "sending"}, id: ChatIds \cup {0}]]
      BY <1>3, <2>2, HistoryKnown
    <3>2. /\ chat'.mem \in Seq(Said \cup Remembered) /\ Len(chat'.mem) <= 2 * ChatRounds
          /\ chat'.loaded \in BOOLEAN
          /\ chat'.saved.msgs \in Seq(Said \cup Remembered) /\ chat'.saved.until \in Nat
      BY <2>3, HistoryTyped
    <3> QED BY <1>1, <2>2, <2>4, <2>5, <3>1, <3>2 DEF HistoryInv, ChatTypeOK
  <2>8. (\A u \in Turns : turns[u].at # "idle" => turns[u].id \in ChatIds)'
    BY <1>3, <2>2, HistoryKnown DEF HistoryInv
  <2> QED BY <1>1, <2>3, <2>4, <2>6, <2>7, <2>8 DEF HistoryInv
<1> QED BY <1>2, <1>3 DEF EndTurn

LEMMA SendReplyStep ==
  ASSUME HistoryInv, NEW t \in Turns, SendReply(t)
  PROVE  HistoryInv'
<1>1. /\ UNCHANGED <<chatClock, chat, lastId, chatCrashes, chatMishaps, spoken, unsaved, amiss>>
      /\ turns' = [turns EXCEPT ![t] = NoTurn] /\ turns[t].at = "sending"
  BY DEF SendReply
<1>2. archive' \in Seq(Remembered) /\ Timely(archive', chatClock)
  <2>1. turns[t].id \in ChatIds
    BY <1>1 DEF HistoryInv
  <2>2. CASE InArchive(turns[t].id)
    BY <2>1, <2>2, ArchivedIs
  <2>3. CASE UNCHANGED archive
    BY <2>3, HistoryKnown
  <2> QED BY <2>2, <2>3 DEF SendReply
<1>3. ChatTypeOK'
  <2>1. turns' \in [Turns -> [at: {"idle", "heard", "answering", "sending"}, id: ChatIds \cup {0}]]
    BY <1>1, HistoryKnown DEF NoTurn
  <2> QED BY <1>1, <1>2, <2>1 DEF HistoryInv, ChatTypeOK
<1>4. (\A u \in Turns : turns[u].at # "idle" => turns[u].id \in ChatIds)'
  BY <1>1, HistoryKnown DEF HistoryInv, NoTurn
<1> QED BY <1>1, <1>2, <1>3, <1>4 DEF HistoryInv

\* Time passes: what is tracked stays tracked, and the key's end stays where it was.
LEMMA ChatTickStep ==
  ASSUME HistoryInv, ChatTick
  PROVE  HistoryInv'
<1>1. /\ UNCHANGED <<chat, archive, turns, lastId, chatCrashes, chatMishaps, spoken, unsaved, amiss>>
      /\ chatClock' = chatClock + 1 /\ chatClock < ChatHorizon
  BY DEF ChatTick
<1>2. Timely(archive, chatClock + 1) /\ Timely(spoken, chatClock + 1) /\ Shaped(chat, chatClock + 1)
  BY HistoryKnown, TimeTimely DEF Shaped
<1>3. ASSUME ~amiss PROVE Agrees(chat, spoken, chatClock + 1, unsaved)
  <2>1. Agrees(chat, spoken, chatClock, unsaved)
    BY <1>3 DEF HistoryInv
  <2>2. \A s : Tracks(s, spoken, chatClock) => Tracks(s, spoken, chatClock + 1)
    BY HistoryKnown, TimeTracks
  <2>3. KeyTracks(chat.saved, spoken, chatClock) => KeyTracks(chat.saved, spoken, chatClock + 1)
    BY <2>2 DEF KeyTracks
  <2> QED BY <2>1, <2>2, <2>3 DEF Agrees
<1>4. ChatTypeOK'
  <2>1. chatClock' \in 0 .. ChatHorizon
    BY <1>1, HistoryKnown
  <2> QED BY <1>1, <2>1 DEF HistoryInv, ChatTypeOK
<1> QED BY <1>1, <1>2, <1>3, <1>4 DEF HistoryInv

\* A restart leaves the key; a history that was not saved is amiss from here on.
LEMMA ChatCrashStep ==
  ASSUME HistoryInv, ChatCrash
  PROVE  HistoryInv'
<1> PICK nil, g : nil = <<>> /\ g = chat'
  OBVIOUS
<1>1. /\ UNCHANGED <<chatClock, archive, lastId, chatMishaps, spoken>>
      /\ turns' = [t \in Turns |-> NoTurn]
      /\ amiss' = (amiss \/ unsaved) /\ unsaved' = FALSE
      /\ chatCrashes < MaxChatCrashes /\ chatCrashes' = chatCrashes + 1
      /\ g = [chat EXCEPT !.mem = nil, !.loaded = FALSE]
  BY DEF ChatCrash
<1>2. /\ nil \in Seq(Messages) /\ Len(nil) = 0 /\ Timely(nil, chatClock) /\ SaidIn(nil, spoken)
      /\ 2 * ChatRounds \in Nat /\ 0 <= 2 * ChatRounds
  BY ChatConstants DEF Timely, SaidIn
<1>3. g.mem = nil /\ ~g.loaded /\ g.saved = chat.saved /\ g \in Histories
  <2> PICK S, K : S = Seq(Messages) /\ K = [msgs: S, until: Nat]
    OBVIOUS
  <2>1. chat \in [mem: S, loaded: BOOLEAN, saved: K] /\ nil \in S
    BY <1>2, HistoryKnown DEF Histories
  <2>2. g.mem = nil /\ g.loaded = FALSE /\ g.saved = chat.saved /\ g \in [mem: S, loaded: BOOLEAN, saved: K]
    BY ONLY <1>1, <2>1
  <2> QED BY <2>2 DEF Histories
<1>4. Shaped(g, chatClock)
  BY <1>2, <1>3, HistoryKnown DEF Shaped
<1>5. ASSUME ~amiss' PROVE Agrees(g, spoken, chatClock, FALSE)
  <2>1. ~amiss /\ ~unsaved
    BY <1>1, <1>5
  <2> QED BY <1>2, <1>3, <2>1 DEF HistoryInv, Agrees
<1>6. ChatTypeOK'
  <2>1. turns' \in [Turns -> [at: {"idle", "heard", "answering", "sending"}, id: ChatIds \cup {0}]]
    BY <1>1 DEF NoTurn
  <2>2. /\ g.mem \in Seq(Said \cup Remembered) /\ Len(g.mem) <= 2 * ChatRounds
        /\ g.loaded \in BOOLEAN
        /\ g.saved.msgs \in Seq(Said \cup Remembered) /\ g.saved.until \in Nat
    BY <1>4, HistoryTyped
  <2>3. chatCrashes' \in 0 .. MaxChatCrashes /\ unsaved' \in BOOLEAN /\ amiss' \in BOOLEAN
    <3>1. chatCrashes' \in 0 .. MaxChatCrashes
      <4>1. chatCrashes \in 0 .. MaxChatCrashes
        BY DEF HistoryInv, ChatTypeOK
      <4>2. MaxChatCrashes \in Nat /\ chatCrashes < MaxChatCrashes /\ chatCrashes' = chatCrashes + 1
        BY <1>1, ChatConstants
      <4> QED BY ONLY <4>1, <4>2
    <3>2. unsaved' \in BOOLEAN /\ amiss' \in BOOLEAN
      BY <1>1
    <3> QED BY <3>1, <3>2
  <2> QED BY <1>1, <2>1, <2>2, <2>3 DEF HistoryInv, ChatTypeOK
<1>7. (\A t \in Turns : turns[t].at # "idle" => turns[t].id \in ChatIds)'
  BY <1>1 DEF NoTurn
<1> QED BY <1>1, <1>4, <1>5, <1>6, <1>7, HistoryKnown DEF HistoryInv

LEMMA HistoryStep ==
  ASSUME HistoryInv, [ChatNext]_historyVars
  PROVE  HistoryInv'
<1>1. ASSUME NEW t \in Turns, Hear(t) PROVE HistoryInv'
  BY <1>1, HearStep
<1>2. ASSUME NEW t \in Turns, NEW restart \in BOOLEAN, BeginTurn(t, restart) PROVE HistoryInv'
  BY <1>2, BeginTurnStep
<1>3. ASSUME NEW t \in Turns, EndTurn(t) PROVE HistoryInv'
  BY <1>3, EndTurnStep
<1>4. ASSUME NEW t \in Turns, SendReply(t) PROVE HistoryInv'
  BY <1>4, SendReplyStep
<1>5. CASE ChatTick
  BY <1>5, ChatTickStep
<1>6. CASE ChatCrash
  BY <1>6, ChatCrashStep
<1>7. CASE UNCHANGED historyVars
  BY <1>7 DEF historyVars, HistoryInv, ChatTypeOK
<1> QED BY <1>1, <1>2, <1>3, <1>4, <1>5, <1>6, <1>7 DEF ChatNext

\* The history of a conversation, its key and what was said go together, whatever
\* the turns, the time, the restarts and the failures of Redis (history.py:66-210,
\* 394-496; intent.py).
THEOREM HistoryInvariant == ChatSpec => []HistoryInv
<1>1. ChatInit => HistoryInv
  BY HistoryStart
<1>2. HistoryInv /\ [ChatNext]_historyVars => HistoryInv'
  BY HistoryStep
<1> QED BY <1>1, <1>2, PTL DEF ChatSpec

\* What was said lately is what a turn is given last, and nothing of the router's
\* from before a clear comes back.
THEOREM HistoryIsKept == ChatSpec => []HistoryKept
<1>1. HistoryInv => HistoryKept
  <2> SUFFICES ASSUME HistoryInv, ~amiss
               PROVE  /\ chat.loaded => LastOf(Unexpired(chat.mem), Len(Unexpired(LastRounds(spoken))))
                                          = Unexpired(LastRounds(spoken))
                      /\ \A i \in 1 .. Len(chat.mem) :
                           chat.mem[i].by = "router" => \E j \in 1 .. Len(spoken) : chat.mem[i] = spoken[j]
    BY DEF HistoryKept
  <2>1. Agrees(chat, spoken, chatClock, unsaved)
    BY DEF HistoryInv
  <2>2. chat.mem \in Seq(Messages) /\ Timely(chat.mem, chatClock)
    BY HistoryKnown DEF Shaped, Histories
  <2>3. ASSUME chat.loaded
        PROVE  LastOf(Unexpired(chat.mem), Len(Unexpired(LastRounds(spoken)))) = Unexpired(LastRounds(spoken))
    <3>1. Tracks(chat.mem, spoken, chatClock)
      BY <2>1, <2>3 DEF Agrees
    <3> QED BY <2>2, <3>1, HistoryKnown, HistoryGiven
  <2>4. SaidIn(chat.mem, spoken)
    BY <2>1 DEF Agrees
  <2> QED BY <2>3, <2>4 DEF SaidIn
<1>2. ChatSpec => []HistoryInv
  BY HistoryInvariant
<1> QED BY <1>1, <1>2, PTL
=============================================================================
