---------------------------- MODULE InstallProofs ----------------------------
(***************************************************************************)
(* Theorems about Install: what `lat init` writes over.                    *)
(*                                                                         *)
(* UsersTextSurvives: no step of a run takes the user's text out of a file *)
(* but in the ways that EditsSurvive lists.  SetupStaysSound: what         *)
(* SetupIsSound promises of files, hashes and questions holds after every  *)
(* step.  RerunsAreQuiet: a run for agents that a complete run has set up  *)
(* leaves every file as it is.  All three for any agents, versions and     *)
(* numbers of runs, cuts and edits.                                        *)
(*                                                                         *)
(* The proofs go from the data to the runs: the user's pieces of a text    *)
(* and the first theorem; the gate of a tree; the plan of a run and its    *)
(* list of steps; what a section makes of a text, place by place; the      *)
(* account of every text that lat wrote, by the hashes it recorded; the    *)
(* steps that a settled setup has done; and the two other theorems.        *)
(***************************************************************************)
EXTENDS Install, FiniteSetTheorems, SequenceTheorems, WellFoundedInduction, NaturalsInduction, TLAPS

(***************************************************************************)
(* How many pieces of a text are the user's.                               *)
(***************************************************************************)
Channels == {"lat", "fork"}
Pieces == {"begin", "end"} \X Channels \cup Channels \X Nat \cup {User, Mixed}
Texts == Seq(Pieces)

UserPlaces(text) == {i \in DOMAIN text : IsUsers(text[i])}

\* The user's pieces of a text are finitely many, and UsersIn counts them.
LEMMA UsersAreCounted ==
  ASSUME NEW text \in Texts
  PROVE  IsFiniteSet(UserPlaces(text)) /\ UsersIn(text) = Cardinality(UserPlaces(text)) /\ UsersIn(text) \in Nat
<1>1. DOMAIN text = 1..Len(text) /\ Len(text) \in Nat
  BY DEF Texts
<1>2. IsFiniteSet(UserPlaces(text))
  <2>1. IsFiniteSet(1..Len(text)) /\ UserPlaces(text) \in SUBSET (1..Len(text))
    BY <1>1, FS_Interval DEF UserPlaces
  <2> QED  BY <2>1, FS_Subset
<1> QED  BY <1>2, FS_CardinalityType DEF UsersIn, UserPlaces

\* Joining two texts adds up the user's pieces.
LEMMA UsersAddUp ==
  ASSUME NEW s \in Texts, NEW t \in Texts
  PROVE  s \o t \in Texts /\ UsersIn(s \o t) = UsersIn(s) + UsersIn(t)
<1> DEFINE n == Len(s)
           moved == {i + n : i \in UserPlaces(t)}
           f == [i \in UserPlaces(t) |-> i + n]
<1>1. /\ n \in Nat /\ Len(t) \in Nat /\ s \o t \in Texts /\ Len(s \o t) = n + Len(t)
      /\ DOMAIN s = 1..n /\ DOMAIN t = 1..Len(t) /\ DOMAIN (s \o t) = 1..(n + Len(t))
      /\ \A i \in 1..n : (s \o t)[i] = s[i]
      /\ \A i \in 1..Len(t) : (s \o t)[i + n] = t[i]
  BY DEF Texts
<1>2. UserPlaces(s \o t) = UserPlaces(s) \cup moved
  <2>1. ASSUME NEW i \in UserPlaces(s \o t), i \notin UserPlaces(s)
        PROVE  i \in moved
    <3>1. i \in 1..(n + Len(t)) /\ IsUsers((s \o t)[i])
      BY <1>1 DEF UserPlaces
    <3>2. i \notin 1..n
      BY <1>1, <2>1, <3>1 DEF UserPlaces
    <3>3. i - n \in 1..Len(t) /\ (i - n) + n = i
      BY <1>1, <3>1, <3>2
    <3>4. i - n \in UserPlaces(t)
      BY <1>1, <3>1, <3>3 DEF UserPlaces
    <3> QED  BY <3>3, <3>4
  <2>2. ASSUME NEW i \in UserPlaces(t)
        PROVE  i + n \in UserPlaces(s \o t)
    BY <1>1 DEF UserPlaces
  <2>3. UserPlaces(s) \subseteq UserPlaces(s \o t)
    BY <1>1 DEF UserPlaces
  <2> QED  BY <2>1, <2>2, <2>3
<1>3. UserPlaces(s) \cap moved = {}
  BY <1>1 DEF UserPlaces
<1>4. f \in Bijection(UserPlaces(t), moved)
  <2>1. \A i, j \in UserPlaces(t) : f[i] = f[j] => i = j
    BY <1>1 DEF UserPlaces
  <2>2. f \in [UserPlaces(t) -> moved] /\ \A y \in moved : \E i \in UserPlaces(t) : f[i] = y
    OBVIOUS
  <2> QED  BY <2>1, <2>2 DEF Bijection, Injection, Surjection, IsInjective
<1>5. IsFiniteSet(moved) /\ Cardinality(moved) = Cardinality(UserPlaces(t))
  BY <1>4, UsersAreCounted, FS_Bijection DEF ExistsBijection
<1> HIDE DEF moved, n, f
<1>6. Cardinality(UserPlaces(s) \cup moved) = Cardinality(UserPlaces(s)) + Cardinality(moved)
  <2>1. Cardinality(UserPlaces(s) \cup moved)
          = Cardinality(UserPlaces(s)) + Cardinality(moved) - Cardinality(UserPlaces(s) \cap moved)
    BY <1>5, UsersAreCounted, FS_Union
  <2>2. /\ Cardinality(UserPlaces(s) \cap moved) = 0
        /\ Cardinality(UserPlaces(s)) \in Nat /\ Cardinality(moved) \in Nat
    BY <1>3, <1>5, UsersAreCounted, FS_EmptySet, FS_CardinalityType
  <2> QED  BY <2>1, <2>2
<1> QED  BY <1>1, <1>2, <1>5, <1>6, UsersAreCounted

\* A text without a piece of the user's counts none.
LEMMA NoUsers ==
  ASSUME NEW text \in Texts, \A i \in DOMAIN text : ~IsUsers(text[i])
  PROVE  UsersIn(text) = 0
<1>1. UserPlaces(text) = {}
  BY DEF UserPlaces
<1> QED  BY <1>1, UsersAreCounted, FS_EmptySet

\* Markers and templates are pieces, tell themselves apart, and are not the user's.
LEMMA PiecesAre ==
  ASSUME NEW c \in Channels, NEW v \in Nat
  PROVE  /\ {Begin(c), End(c), Template(c, v)} \subseteq Pieces
         /\ Begin(c) # End(c) /\ Template(c, v) \notin {Begin(c), End(c)}
         /\ \A p \in {Begin(c), End(c), Template(c, v)} : ~IsUsers(p)
         /\ <<Begin(c)>> \in Texts /\ <<End(c)>> \in Texts /\ <<Template(c, v)>> \in Texts
         /\ UsersIn(<<Begin(c)>>) = 0 /\ UsersIn(<<End(c)>>) = 0 /\ UsersIn(<<Template(c, v)>>) = 0
<1>1. /\ {Begin(c), End(c), Template(c, v)} \subseteq Pieces
      /\ Begin(c) # End(c) /\ Template(c, v) \notin {Begin(c), End(c)}
      /\ \A p \in {Begin(c), End(c), Template(c, v)} : ~IsUsers(p)
  BY DEF Begin, End, Template, Pieces, Channels, IsUsers, User, Mixed
<1>2. ASSUME NEW p \in {Begin(c), End(c), Template(c, v)}
      PROVE  <<p>> \in Texts /\ UsersIn(<<p>>) = 0
  <2>1. <<p>> \in Texts /\ DOMAIN <<p>> = {1} /\ <<p>>[1] = p
    BY <1>1 DEF Texts
  <2> QED  BY <1>1, <2>1, NoUsers
<1> QED  BY <1>1, <1>2

\* Putting markers around a text leaves the user's pieces as many.
LEMMA WrapAddsNoUsers ==
  ASSUME NEW body \in Texts, NEW c \in Channels
  PROVE  Wrap(body, c) \in Texts /\ UsersIn(Wrap(body, c)) = UsersIn(body)
<1>1. 0 \in Nat
  OBVIOUS
<1>2. <<Begin(c)>> \in Texts /\ <<End(c)>> \in Texts /\ UsersIn(<<Begin(c)>>) = 0 /\ UsersIn(<<End(c)>>) = 0
  BY <1>1, PiecesAre
<1>3. /\ <<Begin(c)>> \o body \in Texts
      /\ UsersIn(<<Begin(c)>> \o body) = UsersIn(<<Begin(c)>>) + UsersIn(body)
  BY <1>2, UsersAddUp
<1>4. /\ (<<Begin(c)>> \o body) \o <<End(c)>> \in Texts
      /\ UsersIn((<<Begin(c)>> \o body) \o <<End(c)>>) = UsersIn(<<Begin(c)>> \o body) + UsersIn(<<End(c)>>)
  BY <1>2, <1>3, UsersAddUp
<1> QED  BY <1>2, <1>3, <1>4, UsersAreCounted DEF Wrap

\* What a text that is put together holds, place by place.
LEMMA Joined ==
  ASSUME NEW s \in Texts, NEW t \in Texts
  PROVE  /\ s \o t \in Texts /\ Len(s) \in Nat /\ Len(t) \in Nat
         /\ Len(s \o t) = Len(s) + Len(t)
         /\ \A i \in 1..(Len(s) + Len(t)) :
              (s \o t)[i] = IF i <= Len(s) THEN s[i] ELSE t[i - Len(s)]
<1>1. s \in Seq(Pieces) /\ t \in Seq(Pieces)
  BY DEF Texts
<1> QED  BY <1>1 DEF Texts

\* Induction on a set of numbers.
LEMMA SmallestNumber ==
  ASSUME NEW S \in SUBSET Nat, S # {}
  PROVE  \E m \in S : \A k \in S : m <= k
<1>1. PICK m \in S : \A k \in S : <<k, m>> \notin OpToRel(<, Nat)
  BY NatLessThanWellFounded, WFMin, Zenon
<1>2. \A k \in S : ~(k < m)
  BY <1>1 DEF OpToRel
<1> QED
  BY <1>2

\* At is the first place of a piece in a text, and 0 when the text has none.
LEMMA FirstPlace ==
  ASSUME NEW text \in Texts, NEW piece
  PROVE  /\ At(text, piece) \in 0..Len(text)
         /\ At(text, piece) = 0 => \A i \in 1..Len(text) : text[i] # piece
         /\ At(text, piece) > 0 =>
              /\ text[At(text, piece)] = piece
              /\ \A i \in 1..Len(text) : text[i] = piece => At(text, piece) <= i
<1> DEFINE places == {i \in 1..Len(text) : text[i] = piece}
<1>1. At(text, piece) = IF places # {} THEN Min(places) ELSE 0
  BY DEF At, SelectInSeq
<1>2. Len(text) \in Nat
  BY DEF Texts
<1>3. places # {} => Min(places) \in places /\ \A i \in places : Min(places) <= i
  <2>1. places \in SUBSET Nat
    BY <1>2
  <2> HIDE DEF places
  <2>2. places # {} => \E m \in places : \A i \in places : m <= i
    BY <2>1, SmallestNumber
  <2> QED  BY <2>2 DEF Min
<1> QED  BY <1>1, <1>2, <1>3

\* A place before which its piece does not occur is the place that At finds.
LEMMA FirstPlaceIs ==
  ASSUME NEW text \in Texts, NEW k \in 1..Len(text), \A i \in 1..(k - 1) : text[i] # text[k]
  PROVE  At(text, text[k]) = k
<1>1. Len(text) \in Nat
  BY DEF Texts
<1>2. At(text, text[k]) > 0 /\ At(text, text[k]) <= k /\ At(text, text[k]) \in 1..Len(text)
  BY <1>1, FirstPlace
<1>3. text[At(text, text[k])] = text[k]
  BY <1>2, FirstPlace
<1> QED  BY <1>1, <1>2, <1>3

\* The parts of a text that has a section.
Before(text, c) == SubSeq(text, 1, At(text, Begin(c)) - 1)
After(text, c) == SubSeq(text, At(text, End(c)) + 1, Len(text))

\* What a part of a text holds, place by place.
LEMMA PartIs ==
  ASSUME NEW text \in Texts, NEW i \in Nat \ {0}, NEW j \in Nat, j <= Len(text), i <= j + 1
  PROVE  /\ SubSeq(text, i, j) \in Texts /\ Len(SubSeq(text, i, j)) = j - i + 1
         /\ \A k \in 1..(j - i + 1) : SubSeq(text, i, j)[k] = text[i + k - 1]
<1>1. text \in Seq(Pieces) /\ Len(text) \in Nat
  BY DEF Texts
<1> QED  BY <1>1 DEF Texts

\* A text with a section is what is before it, the section in its markers and what is after it.
LEMMA PartsOfText ==
  ASSUME NEW text \in Texts, NEW c \in Channels, HasSection(text, c)
  PROVE  /\ Before(text, c) \in Texts /\ Section(text, c) \in Texts /\ After(text, c) \in Texts
         /\ text = Before(text, c) \o (Wrap(Section(text, c), c) \o After(text, c))
         /\ \A i \in DOMAIN Before(text, c) : Before(text, c)[i] \notin {Begin(c), End(c)}
<1> DEFINE b == At(text, Begin(c))
           e == At(text, End(c))
           n == Len(text)
<1>1. /\ n \in Nat /\ b \in 1..n /\ e \in 1..n /\ b < e
      /\ text[b] = Begin(c) /\ text[e] = End(c)
      /\ \A i \in 1..n : (text[i] = Begin(c) => b <= i) /\ (text[i] = End(c) => e <= i)
  BY FirstPlace DEF HasSection, Texts
<1>2. /\ Before(text, c) = SubSeq(text, 1, b - 1)
      /\ Section(text, c) = SubSeq(text, b + 1, e - 1)
      /\ After(text, c) = SubSeq(text, e + 1, n)
  BY DEF Before, Section, After
<1> HIDE DEF b, e, n
<1> DEFINE before == Before(text, c)
           body == Section(text, c)
           after == After(text, c)
<1>3. /\ before \in Texts /\ Len(before) = b - 1
      /\ \A i \in 1..(b - 1) : before[i] = text[i]
  <2>1. 1 \in Nat \ {0} /\ b - 1 \in Nat /\ b - 1 <= Len(text) /\ 1 <= (b - 1) + 1 /\ (b - 1) - 1 + 1 = b - 1
    BY <1>1 DEF n
  <2>2. /\ before \in Texts /\ Len(before) = (b - 1) - 1 + 1
        /\ \A k \in 1..((b - 1) - 1 + 1) : before[k] = text[1 + k - 1]
    BY <1>2, <2>1, PartIs
  <2>3. \A k \in 1..(b - 1) : 1 + k - 1 = k
    BY <1>1
  <2> HIDE DEF before
  <2> QED  BY <2>1, <2>2, <2>3
<1>4. /\ body \in Texts /\ Len(body) = e - b - 1
      /\ \A i \in 1..(e - b - 1) : body[i] = text[b + i]
  <2>1. b + 1 \in Nat \ {0} /\ e - 1 \in Nat /\ e - 1 <= Len(text) /\ b + 1 <= (e - 1) + 1
        /\ (e - 1) - (b + 1) + 1 = e - b - 1
    BY <1>1 DEF n
  <2>2. /\ body \in Texts /\ Len(body) = (e - 1) - (b + 1) + 1
        /\ \A k \in 1..((e - 1) - (b + 1) + 1) : body[k] = text[(b + 1) + k - 1]
    BY <1>2, <2>1, PartIs
  <2>3. \A k \in 1..(e - b - 1) : (b + 1) + k - 1 = b + k
    BY <1>1
  <2> HIDE DEF body
  <2> QED  BY <2>1, <2>2, <2>3
<1>5. /\ after \in Texts /\ Len(after) = n - e
      /\ \A i \in 1..(n - e) : after[i] = text[e + i]
  <2>1. e + 1 \in Nat \ {0} /\ n \in Nat /\ n <= Len(text) /\ e + 1 <= n + 1 /\ n - (e + 1) + 1 = n - e
    BY <1>1 DEF n
  <2>2. /\ after \in Texts /\ Len(after) = n - (e + 1) + 1
        /\ \A k \in 1..(n - (e + 1) + 1) : after[k] = text[(e + 1) + k - 1]
    BY <1>2, <2>1, PartIs
  <2>3. \A k \in 1..(n - e) : (e + 1) + k - 1 = e + k
    BY <1>1
  <2> HIDE DEF after
  <2> QED  BY <2>1, <2>2, <2>3
<1> DEFINE opening == <<Begin(c)>>
           closing == <<End(c)>>
           front == opening \o body
           section == front \o closing
           rest == section \o after
           all == before \o rest
<1>6. /\ opening \in Texts /\ closing \in Texts /\ Len(opening) = 1 /\ Len(closing) = 1
      /\ opening[1] = text[b] /\ closing[1] = text[e]
  BY <1>1, PiecesAre, 0 \in Nat
<1>7. /\ before \in Texts /\ Len(before) = b - 1 /\ \A i \in 1..(b - 1) : before[i] = text[i]
      /\ body \in Texts /\ Len(body) = e - b - 1 /\ \A i \in 1..(e - b - 1) : body[i] = text[b + i]
      /\ after \in Texts /\ Len(after) = n - e /\ \A i \in 1..(n - e) : after[i] = text[e + i]
  BY <1>3, <1>4, <1>5
<1> HIDE DEF opening, closing, before, body, after
<1>8. front \in Texts /\ Len(front) = e - b /\ \A i \in 1..(e - b) : front[i] = text[b - 1 + i]
  <2>1. /\ front \in Texts /\ Len(front) = Len(opening) + Len(body)
        /\ \A i \in 1..(Len(opening) + Len(body)) :
             front[i] = IF i <= Len(opening) THEN opening[i] ELSE body[i - Len(opening)]
    BY <1>6, <1>7, Joined
  <2> HIDE DEF front
  <2>2. ASSUME NEW i \in 1..(e - b)
        PROVE  front[i] = text[b - 1 + i]
    <3>1. CASE i = 1
      BY <1>1, <1>6, <1>7, <2>1, <3>1
    <3>2. CASE i # 1
      <4>1. i - 1 \in 1..(e - b - 1) /\ b + (i - 1) = b - 1 + i /\ ~(i <= 1)
        BY <1>1, <3>2
      <4> QED  BY <1>1, <1>6, <1>7, <2>1, <4>1
    <3> QED  BY <3>1, <3>2
  <2> QED  BY <1>1, <1>6, <1>7, <2>1, <2>2
<1> HIDE DEF front
<1>9. section \in Texts /\ Len(section) = e - b + 1 /\ \A i \in 1..(e - b + 1) : section[i] = text[b - 1 + i]
  <2>1. /\ section \in Texts /\ Len(section) = Len(front) + Len(closing)
        /\ \A i \in 1..(Len(front) + Len(closing)) :
             section[i] = IF i <= Len(front) THEN front[i] ELSE closing[i - Len(front)]
    BY <1>6, <1>8, Joined
  <2> HIDE DEF section
  <2>2. ASSUME NEW i \in 1..(e - b + 1)
        PROVE  section[i] = text[b - 1 + i]
    <3>1. CASE i <= e - b
      BY <1>1, <1>6, <1>8, <2>1, <3>1
    <3>2. CASE ~(i <= e - b)
      <4>1. i - (e - b) = 1 /\ b - 1 + i = e
        BY <1>1, <3>2
      <4>2. section[i] = closing[1]
        BY <1>1, <1>6, <1>8, <2>1, <3>2, <4>1
      <4> QED  BY <1>6, <4>1, <4>2
    <3> QED  BY <3>1, <3>2
  <2> QED  BY <1>1, <1>6, <1>8, <2>1, <2>2
<1> HIDE DEF section
<1>10. rest \in Texts /\ Len(rest) = n - b + 1 /\ \A i \in 1..(n - b + 1) : rest[i] = text[b - 1 + i]
  <2>1. /\ rest \in Texts /\ Len(rest) = Len(section) + Len(after)
        /\ \A i \in 1..(Len(section) + Len(after)) :
             rest[i] = IF i <= Len(section) THEN section[i] ELSE after[i - Len(section)]
    BY <1>7, <1>9, Joined
  <2> HIDE DEF rest
  <2>2. ASSUME NEW i \in 1..(n - b + 1)
        PROVE  rest[i] = text[b - 1 + i]
    <3>1. CASE i <= e - b + 1
      BY <1>1, <1>7, <1>9, <2>1, <3>1
    <3>2. CASE ~(i <= e - b + 1)
      <4>1. i - (e - b + 1) \in 1..(n - e) /\ e + (i - (e - b + 1)) = b - 1 + i
        BY <1>1, <3>2
      <4>2. rest[i] = after[i - (e - b + 1)]
        BY <1>1, <1>7, <1>9, <2>1, <3>2
      <4> QED  BY <1>7, <4>1, <4>2
    <3> QED  BY <3>1, <3>2
  <2> QED  BY <1>1, <1>7, <1>9, <2>1, <2>2
<1> HIDE DEF rest
<1>11. all \in Texts /\ Len(all) = n /\ \A i \in 1..n : all[i] = text[i]
  <2>1. /\ all \in Texts /\ Len(all) = Len(before) + Len(rest)
        /\ \A i \in 1..(Len(before) + Len(rest)) :
             all[i] = IF i <= Len(before) THEN before[i] ELSE rest[i - Len(before)]
    BY <1>7, <1>10, Joined
  <2> HIDE DEF all
  <2>2. ASSUME NEW i \in 1..n
        PROVE  all[i] = text[i]
    <3>1. CASE i <= b - 1
      BY <1>1, <1>7, <1>10, <2>1, <3>1
    <3>2. CASE ~(i <= b - 1)
      <4>1. i - (b - 1) \in 1..(n - b + 1) /\ b - 1 + (i - (b - 1)) = i
        BY <1>1, <3>2
      <4>2. all[i] = rest[i - (b - 1)]
        BY <1>1, <1>7, <1>10, <2>1, <3>2
      <4> QED  BY <1>10, <4>1, <4>2
    <3> QED  BY <3>1, <3>2
  <2> QED  BY <1>1, <1>7, <1>10, <2>1, <2>2
<1> HIDE DEF all
<1>12. text = all
  <2>1. all \in Seq(Pieces) /\ text \in Seq(Pieces) /\ Len(text) = n
    BY <1>11 DEF Texts, n
  <2> QED  BY <1>11, <2>1, SeqEqual
<1>13. text = Before(text, c) \o (Wrap(Section(text, c), c) \o After(text, c))
  BY <1>12 DEF all, rest, section, front, opening, closing, before, body, after, Wrap
<1>14. \A i \in DOMAIN Before(text, c) : Before(text, c)[i] \notin {Begin(c), End(c)}
  BY <1>1, <1>3 DEF Texts, before
<1> QED  BY <1>3, <1>4, <1>5, <1>13, <1>14 DEF before, body, after

\* What a section is replaced by stands where it stood; no more is lost than stood in it.
LEMMA SplicedKeepsTheRest ==
  ASSUME NEW text \in Texts, NEW c \in Channels, NEW v \in Nat, HasSection(text, c),
         NEW new, new = Spliced(text, <<Template(c, v)>>, c)
  PROVE  /\ new \in Texts
         /\ UsersIn(Section(text, c)) \in Nat
         /\ UsersIn(new) = UsersIn(text) - UsersIn(Section(text, c))
         /\ UsersOutside(new, c) = UsersOutside(text, c)
<1> DEFINE b == Before(text, c)
           a == After(text, c)
           body == <<Template(c, v)>>
           wrapped == Wrap(body, c)
<1>1. /\ b \in Texts /\ Section(text, c) \in Texts /\ a \in Texts
      /\ text = b \o (Wrap(Section(text, c), c) \o a)
      /\ \A i \in DOMAIN b : b[i] \notin {Begin(c), End(c)}
  BY PartsOfText
<1>2. body \in Texts /\ wrapped \in Texts /\ UsersIn(body) = 0 /\ UsersIn(wrapped) = 0
  BY PiecesAre, WrapAddsNoUsers
<1>3. new = (b \o wrapped) \o a
  BY DEF Spliced, Before, After
<1>4. /\ UsersIn(Wrap(Section(text, c), c)) = UsersIn(Section(text, c)) /\ Wrap(Section(text, c), c) \in Texts
  BY <1>1, WrapAddsNoUsers
<1> HIDE DEF a, b, wrapped
<1>5. /\ b \o wrapped \in Texts /\ new \in Texts
      /\ UsersIn(new) = UsersIn(b) + UsersIn(a)
  <2>1. b \o wrapped \in Texts /\ UsersIn(b \o wrapped) = UsersIn(b) + 0
    BY <1>1, <1>2, UsersAddUp
  <2>2. new \in Texts /\ UsersIn(new) = UsersIn(b \o wrapped) + UsersIn(a)
    BY <1>1, <1>3, <2>1, UsersAddUp
  <2>3. UsersIn(b) \in Nat
    BY <1>1, UsersAreCounted
  <2> QED  BY <2>1, <2>2, <2>3
<1>6. UsersIn(text) = UsersIn(b) + (UsersIn(Section(text, c)) + UsersIn(a))
  <2>1. /\ Wrap(Section(text, c), c) \o a \in Texts
        /\ UsersIn(Wrap(Section(text, c), c) \o a) = UsersIn(Section(text, c)) + UsersIn(a)
    BY <1>1, <1>4, UsersAddUp
  <2> DEFINE r == Wrap(Section(text, c), c) \o a
  <2>2. r \in Texts /\ UsersIn(b \o r) = UsersIn(b) + UsersIn(r)
    <3> HIDE DEF r
    <3>1. r \in Texts
      BY <2>1 DEF r
    <3> QED  BY <1>1, <3>1, UsersAddUp
  <2> QED  BY <1>1, <2>1, <2>2
<1>7. UsersIn(b) \in Nat /\ UsersIn(a) \in Nat /\ UsersIn(Section(text, c)) \in Nat
  BY <1>1, UsersAreCounted
<1>8. HasSection(new, c) /\ Section(new, c) = body
  <2> DEFINE n == Len(b)
  <2>1. n \in Nat /\ DOMAIN b = 1..n
    BY <1>1 DEF Texts
  <2>2. Len(wrapped) = 3 /\ wrapped[1] = Begin(c) /\ wrapped[2] = Template(c, v) /\ wrapped[3] = End(c)
    BY DEF Wrap, wrapped
  <2> DEFINE front == b \o wrapped
  <2> HIDE DEF n
  <2>3. /\ front \in Texts /\ Len(front) = n + 3
        /\ \A i \in 1..(n + 3) : front[i] = IF i <= n THEN b[i] ELSE wrapped[i - n]
    <3>1. /\ front \in Texts /\ Len(front) = Len(b) + Len(wrapped)
          /\ \A i \in 1..(Len(b) + Len(wrapped)) :
               front[i] = IF i <= Len(b) THEN b[i] ELSE wrapped[i - Len(b)]
      BY <1>1, <1>2, Joined
    <3> QED  BY <2>2, <3>1 DEF n
  <2> HIDE DEF front
  <2>4. /\ new \in Texts /\ Len(a) \in Nat /\ Len(new) = (n + 3) + Len(a)
        /\ \A i \in 1..((n + 3) + Len(a)) : new[i] = IF i <= n + 3 THEN front[i] ELSE a[i - (n + 3)]
    <3> DEFINE both == front \o a
    <3>1. new = both
      BY <1>3 DEF front
    <3>2. /\ both \in Texts /\ Len(a) \in Nat /\ Len(both) = Len(front) + Len(a)
          /\ \A i \in 1..(Len(front) + Len(a)) :
               both[i] = IF i <= Len(front) THEN front[i] ELSE a[i - Len(front)]
      BY <1>1, <2>3, Joined
    <3> HIDE DEF both
    <3> QED  BY <2>3, <3>1, <3>2
  <2>5. Len(new) \in Nat /\ Len(new) >= n + 3 /\ \A i \in 1..(n + 3) : new[i] = front[i]
    <3>1. Len(new) \in Nat /\ Len(new) >= n + 3
      BY <2>1, <2>4
    <3>2. \A i \in 1..(n + 3) : i \in 1..((n + 3) + Len(a)) /\ i <= n + 3
      BY <2>1, <2>4
    <3> QED  BY <2>4, <3>1, <3>2
  <2>6. /\ new[n + 1] = Begin(c) /\ new[n + 2] = Template(c, v) /\ new[n + 3] = End(c)
        /\ \A i \in 1..n : new[i] \notin {Begin(c), End(c)}
    <3>1. /\ n + 1 \in 1..(n + 3) /\ n + 2 \in 1..(n + 3) /\ n + 3 \in 1..(n + 3)
          /\ (n + 1) - n = 1 /\ (n + 2) - n = 2 /\ (n + 3) - n = 3
          /\ ~(n + 1 <= n) /\ ~(n + 2 <= n) /\ ~(n + 3 <= n)
      BY <2>1
    <3>2. \A i \in 1..n : i \in 1..(n + 3) /\ i <= n
      BY <2>1
    <3>3. \A i \in 1..n : new[i] = b[i]
      BY <2>3, <2>5, <3>2
    <3> QED  BY <1>1, <2>1, <2>2, <2>3, <2>5, <3>1, <3>3
  <2>7. Begin(c) # End(c) /\ Template(c, v) \notin {Begin(c), End(c)}
    BY PiecesAre
  <2>8. At(new, Begin(c)) = n + 1
    <3>1. n + 1 \in 1..Len(new) /\ \A i \in 1..((n + 1) - 1) : i \in 1..n
      BY <2>1, <2>5
    <3>2. \A i \in 1..((n + 1) - 1) : new[i] # new[n + 1]
      BY <2>6, <3>1
    <3> QED  BY <1>5, <2>6, <3>1, <3>2, FirstPlaceIs
  <2>9. At(new, End(c)) = n + 3
    <3>1. n + 3 \in 1..Len(new)
      BY <2>1, <2>5
    <3>3. \A i \in 1..((n + 3) - 1) : i \in 1..n \/ i = n + 1 \/ i = n + 2
      <4>1. n \in Nat
        BY <2>1
      <4> QED  BY <4>1
    <3>2. \A i \in 1..((n + 3) - 1) : new[i] # new[n + 3]
      BY <2>6, <2>7, <3>3
    <3> QED  BY <1>5, <2>6, <3>1, <3>2, FirstPlaceIs
  <2>10. HasSection(new, c)
    BY <2>1, <2>8, <2>9 DEF HasSection
  <2>11. Section(new, c) = SubSeq(new, n + 2, n + 2)
    BY <2>1, <2>8, <2>9 DEF Section
  <2>12. SubSeq(new, n + 2, n + 2) = <<new[n + 2]>>
    <3>1. /\ new \in Seq(Pieces) /\ n + 2 \in 1..Len(new) /\ n + 2 \in Nat
          /\ (n + 2) - (n + 2) + 1 = 1
      BY <1>5, <2>1, <2>5 DEF Texts
    <3> DEFINE m == n + 2
    <3> HIDE DEF m
    <3>2. new \in Seq(Pieces) /\ m \in 1..Len(new) /\ m \in Nat /\ m - m + 1 = 1
      BY <3>1 DEF m
    <3>3. SubSeq(new, m, m) = <<new[m]>>
      <4>1. SubSeq(new, m, m) \in Seq(Pieces) /\ Len(SubSeq(new, m, m)) = 1 /\ SubSeq(new, m, m)[1] = new[m]
        BY <3>2
      <4>2. <<new[m]>> \in Seq(Pieces) /\ Len(<<new[m]>>) = 1 /\ <<new[m]>>[1] = new[m]
        BY <3>2
      <4>3. \A s, t \in Seq(Pieces) : Len(s) = 1 /\ Len(t) = 1 /\ s[1] = t[1] => s = t
        BY SeqEqual
      <4> QED  BY <4>1, <4>2, <4>3
    <3> QED  BY <3>3 DEF m
  <2> QED  BY <2>6, <2>10, <2>11, <2>12
<1>9. UsersOutside(new, c) = (UsersIn(b) + UsersIn(a)) - 0
  BY <1>2, <1>5, <1>8 DEF UsersOutside
<1>10. UsersOutside(text, c) = UsersIn(text) - UsersIn(Section(text, c))
  BY DEF UsersOutside
<1> QED  BY <1>5, <1>6, <1>7, <1>9, <1>10

\* Appending a section keeps all that the user has in a text.
LEMMA AppendedKeepsAll ==
  ASSUME NEW text \in Texts, NEW c \in Channels, NEW v \in Nat, ~HasSection(text, c),
         NEW new, new = Spliced(text, <<Template(c, v)>>, c)
  PROVE  new \in Texts /\ UsersIn(new) = UsersIn(text)
<1>1. new = text \o Wrap(<<Template(c, v)>>, c)
  BY DEF Spliced
<1>2. <<Template(c, v)>> \in Texts /\ UsersIn(<<Template(c, v)>>) = 0
  BY PiecesAre
<1>3. Wrap(<<Template(c, v)>>, c) \in Texts /\ UsersIn(Wrap(<<Template(c, v)>>, c)) = 0
  BY <1>2, WrapAddsNoUsers
<1>4. UsersIn(text) \in Nat
  BY UsersAreCounted
<1> DEFINE w == Wrap(<<Template(c, v)>>, c)
<1> HIDE DEF w
<1>5. w \in Texts /\ UsersIn(w) = 0 /\ new = text \o w
  BY <1>1, <1>3 DEF w
<1>6. new \in Texts /\ UsersIn(new) = UsersIn(text) + UsersIn(w)
  BY <1>5, UsersAddUp
<1> QED  BY <1>4, <1>5, <1>6

\* Keep leaves the given pieces only, and all of the user's when they are among them.
LEMMA KeptAreThose ==
  ASSUME NEW text \in Texts, NEW pieces
  PROVE  /\ Keep(text, pieces) \in Texts
         /\ \A i \in DOMAIN Keep(text, pieces) : Keep(text, pieces)[i] \in pieces
         /\ pieces \subseteq {User, Mixed} /\ (\A i \in DOMAIN text : IsUsers(text[i]) => text[i] \in pieces)
              => UsersIn(Keep(text, pieces)) = UsersIn(text)
<1> DEFINE found == {i \in DOMAIN text : text[i] \in pieces}
           rank(i) == Cardinality({j \in found : j <= i})
           f == [i \in found |-> rank(i)]
           n == Cardinality(found)
<1>1. IsFiniteSet(found) /\ found \in SUBSET Nat /\ n \in Nat /\ IsFiniteSet(1..n) /\ Cardinality(1..n) = n
  <2>1. DOMAIN text = 1..Len(text) /\ Len(text) \in Nat
    BY DEF Texts
  <2>2. IsFiniteSet(1..Len(text)) /\ found \in SUBSET (1..Len(text))
    BY <2>1, FS_Interval
  <2>3. IsFiniteSet(found) /\ n \in Nat
    <3> HIDE DEF found
    <3> QED  BY <2>2, FS_Subset, FS_CardinalityType DEF n
  <2> HIDE DEF n
  <2>4. IsFiniteSet(1..n) /\ Cardinality(1..n) = n
    BY <2>3, FS_Interval
  <2> QED  BY <2>1, <2>2, <2>3, <2>4 DEF n
<1>2. ASSUME NEW i \in found
      PROVE  rank(i) \in 1..n /\ IsFiniteSet({j \in found : j <= i})
  <2>1. {j \in found : j <= i} \in SUBSET found /\ i \in {j \in found : j <= i}
    BY <1>1
  <2> DEFINE low == {j \in found : j <= i}
  <2> HIDE DEF low, found
  <2>2. IsFiniteSet(low) /\ Cardinality(low) <= Cardinality(found) /\ Cardinality(low) \in Nat /\ Cardinality(low) # 0
    BY <1>1, <2>1, FS_Subset, FS_CardinalityType, FS_EmptySet DEF low
  <2> QED  BY <1>1, <2>2 DEF low
<1>3. ASSUME NEW i \in found, NEW j \in found, i < j
      PROVE  rank(i) # rank(j)
  <2>1. i \in Nat /\ j \in Nat /\ \A k \in found : k \in Nat
    BY <1>1
  <2>2. {k \in found : k <= i} \in SUBSET {k \in found : k <= j}
    BY <1>3, <2>1
  <2>3. j \in {k \in found : k <= j} /\ j \notin {k \in found : k <= i}
    BY <1>3, <2>1
  <2> DEFINE low == {k \in found : k <= i}
             high == {k \in found : k <= j}
  <2>4. IsFiniteSet(high)
    BY <1>2
  <2>5. low \in SUBSET high /\ j \in high /\ j \notin low
    BY <2>2, <2>3
  <2> HIDE DEF low, high
  <2>6. Cardinality(low) # Cardinality(high)
    BY <2>4, <2>5, FS_Subset
  <2> QED  BY <2>6 DEF low, high
<1>4. f \in Injection(found, 1..n)
  <2>1. \A i, j \in found : f[i] = f[j] => i = j
    <3>1. \A i, j \in found : i < j \/ j < i \/ i = j
      BY <1>1
    <3> HIDE DEF found, rank
    <3> QED  BY <1>3, <3>1
  <2>2. f \in [found -> 1..n]
    BY <1>2
  <2> HIDE DEF f, found
  <2> QED  BY <2>1, <2>2 DEF Injection, IsInjective
<1>5. \A k \in 1..n : \E i \in found : rank(i) = k
  <2>1. f \in Surjection(found, 1..n)
    <3> HIDE DEF f, found, n
    <3>1. Cardinality(found) = Cardinality(1..n)
      BY <1>1 DEF n
    <3> QED  BY <1>1, <1>4, <3>1, FS_Injection
  <2> HIDE DEF found, rank, n
  <2> QED  BY <2>1 DEF Surjection, f
<1> DEFINE new == Keep(text, pieces)
<1>6. new = [k \in 1..n |-> text[CHOOSE i \in found : rank(i) = k]]
  BY DEF Keep
<1>7. ASSUME NEW k \in 1..n
      PROVE  new[k] \in Pieces /\ new[k] \in pieces
  <2>1. (CHOOSE i \in found : rank(i) = k) \in found
    BY <1>5, <1>7
  <2>2. \A i \in found : text[i] \in Pieces /\ text[i] \in pieces
    BY DEF Texts
  <2> HIDE DEF found, rank, new
  <2> QED  BY <1>6, <2>1, <2>2
<1>8. new \in Texts /\ Len(new) = n /\ DOMAIN new = 1..n
  <2> HIDE DEF found, rank, n
  <2>1. new = [k \in 1..n |-> new[k]]
    BY <1>6
  <2> HIDE DEF new
  <2> QED  BY <1>1, <1>7, <2>1 DEF Texts
<1>9. ASSUME pieces \subseteq {User, Mixed}, \A i \in DOMAIN text : IsUsers(text[i]) => text[i] \in pieces
      PROVE  UsersIn(new) = UsersIn(text)
  <2>1. found = UserPlaces(text)
    BY <1>9 DEF UserPlaces, IsUsers
  <2>2. UserPlaces(new) = 1..n
    <3> HIDE DEF new, n
    <3> QED  BY <1>7, <1>8, <1>9 DEF UserPlaces, IsUsers
  <2>3. UsersIn(new) = n /\ UsersIn(text) = n
    <3> HIDE DEF new
    <3> QED  BY <1>1, <1>8, <2>1, <2>2, UsersAreCounted
  <2> QED  BY <2>3
<1> QED  BY <1>7, <1>8, <1>9

\* So it is with lat's own entry appended.
LEMMA KeptWithTemplate ==
  ASSUME NEW text \in Texts, NEW pieces, NEW v \in Nat
  PROVE  /\ Keep(text, pieces) \o <<Template("lat", v)>> \in Texts
         /\ pieces \subseteq {User, Mixed} /\ (\A i \in DOMAIN text : IsUsers(text[i]) => text[i] \in pieces)
              => UsersIn(Keep(text, pieces) \o <<Template("lat", v)>>) = UsersIn(text)
<1> DEFINE new == Keep(text, pieces)
           body == <<Template("lat", v)>>
<1>1. body \in Texts /\ UsersIn(body) = 0
  BY PiecesAre, "lat" \in Channels DEF Channels
<1>2. /\ new \in Texts
      /\ pieces \subseteq {User, Mixed} /\ (\A i \in DOMAIN text : IsUsers(text[i]) => text[i] \in pieces)
           => UsersIn(new) = UsersIn(text)
  BY KeptAreThose
<1> HIDE DEF new, body
<1>3. new \o body \in Texts /\ UsersIn(new \o body) = UsersIn(new) + UsersIn(body)
  BY <1>1, <1>2, UsersAddUp
<1>4. UsersIn(new) \in Nat /\ UsersIn(text) \in Nat
  BY <1>2, UsersAreCounted
<1> QED  BY <1>1, <1>2, <1>3, <1>4 DEF new, body

\* What an edit of the user's makes of a text is a text.
LEMMA EditsAreTexts ==
  ASSUME NEW text \in Texts, NEW piece \in Pieces
  PROVE  /\ \A i \in 1..(Len(text) + 1) : InsertAt(text, i, piece) \in Texts
         /\ \A i \in 1..Len(text) : RemoveAt(text, i) \in Texts
         /\ Append(text, piece) \in Texts
<1>1. text \in Seq(Pieces) /\ Len(text) \in Nat
  BY DEF Texts
<1>2. \A i \in Nat, j \in 0..Len(text) : i >= 1 => SubSeq(text, i, j) \in Seq(Pieces)
  BY <1>1
<1>3. <<piece>> \in Seq(Pieces)
  OBVIOUS
<1>4. \A s, t \in Seq(Pieces) : s \o t \in Seq(Pieces)
  OBVIOUS
<1>5. ASSUME NEW i \in 1..(Len(text) + 1)
      PROVE  InsertAt(text, i, piece) \in Texts
  <2>1. SubSeq(text, 1, i - 1) \in Seq(Pieces) /\ SubSeq(text, i, Len(text)) \in Seq(Pieces)
    BY <1>1, <1>2
  <2> QED  BY <1>3, <1>4, <2>1 DEF InsertAt, Texts
<1>6. ASSUME NEW i \in 1..Len(text)
      PROVE  RemoveAt(text, i) \in Texts
  <2>1. SubSeq(text, 1, i - 1) \in Seq(Pieces) /\ SubSeq(text, i + 1, Len(text)) \in Seq(Pieces)
    BY <1>1, <1>2
  <2> QED  BY <1>4, <2>1 DEF RemoveAt, Texts
<1>7. Append(text, piece) \in Texts
  BY <1>1 DEF Texts
<1> QED  BY <1>5, <1>6, <1>7

(***************************************************************************)
(* The invariant.  The recorded hashes are of init's own text, but for the *)
(* one file it merges with the user's; that file is only merged; and the   *)
(* reason for a question stays until it is answered, since no run changes  *)
(* the recorded hashes while one is open.                                  *)
(***************************************************************************)
HooksKey == HashKey(".agents/hooks.json", "lat")
Ours(hashes) ==
  \A h \in DOMAIN hashes : hashes[h] \in Texts /\ (h # HooksKey => UsersIn(hashes[h]) = 0)

SkillRoots ==
  {".claude/skills/lat-md", ".pi/skills/lat-md", ".agents/skills/lat-md", ".codex/skills/lat-md"}
Ops ==
  {"mkdir", "copy", "modeDir", "listModes", "ignore", "embeddings", "agents", "offer", "meta",
   "section", "template", "merged", "block", "conventions", "hooks", "mcp"}
ProjectPaths ==
  {"", "config.local.yaml", ".lat-build", "AGENTS.md", "GEMINI.md", ".mcp.json", ".gemini",
   ".agents/hooks.json", ".agents/skills/lat-md", ".agents/skills/lat-md-conventions",
   ".claude", ".claude/settings.json", ".claude/skills/lat-md",
   ".codex", ".codex/hooks.json", ".codex/config.toml", ".codex/skills/lat-md",
   ".cursor", ".cursor/rules/lat.md", ".cursor/hooks.json", ".cursor/mcp.json",
   ".github/copilot-instructions.md", ".vscode/mcp.json",
   ".opencode", ".opencode/plugins/lat.ts", ".pi", ".pi/extensions/lat.ts", ".pi/skills/lat-md"}
Steps ==
  {step \in [op : Ops, path : ProjectPaths] :
     /\ step.op = "merged" <=> step.path = ".agents/hooks.json"
     /\ step.op = "conventions" => step.path \in SkillRoots}

AskedAbout ==
  /\ todo # <<>> /\ prompt[1] \in Texts /\ Path \in DOMAIN files
  /\ \/ /\ todo[1].op \in {"section", "block"}
        /\ HasSection(prompt[1], Channel)
        /\ ~Recorded(HashKey(Path, Channel), Section(prompt[1], Channel))
        /\ todo[1].op = "block" => Stored(HashKey(Path, "fork"))
     \/ /\ todo[1].op \in {"template", "merged"}
        /\ ~Recorded(HashKey(Path, "lat"), prompt[1])

TextsAreTexts == \A file \in DOMAIN files : files[file] \in Texts
IInv ==
  /\ version \in Nat /\ TextsAreTexts
  /\ Ours(meta.hashes) /\ Ours(fresh)
  /\ todo \in Seq(Steps)
  /\ prompt # NotAsked => AskedAbout

\* Adding a hash keeps them init's own.
LEMMA OneMoreHash ==
  ASSUME NEW hashes, Ours(hashes), NEW hash, NEW text \in Texts, hash # HooksKey => UsersIn(text) = 0
  PROVE  Ours(Override(hashes, Each({hash}, text)))
<1> DEFINE new == Each({hash}, text)
<1>1. DOMAIN new = {hash} /\ new[hash] = text
  BY DEF Each
<1> HIDE DEF new
<1> QED  BY <1>1 DEF Ours, Override, new

\* Hashes of lat's own texts, merged, are hashes of lat's own texts.
LEMMA HashesMerged ==
  ASSUME NEW hashes, Ours(hashes), NEW more, Ours(more)
  PROVE  Ours(Override(hashes, more))
BY DEF Ours, Override

\* Two lists of steps make a list of steps.
LEMMA StepsAppend ==
  ASSUME NEW s \in Seq(Steps), NEW t \in Seq(Steps)
  PROVE  s \o t \in Seq(Steps)
OBVIOUS

\* What makes a step of a plan.
LEMMA StepIsStep ==
  ASSUME NEW op \in Ops, NEW file \in ProjectPaths,
         op = "merged" <=> file = ".agents/hooks.json", op = "conventions" => file \in SkillRoots
  PROVE  Step(op, file) \in Steps /\ << Step(op, file) >> \in Seq(Steps)
<1>1. Step(op, file) \in Steps
  BY DEF Step, Steps
<1> QED  BY <1>1

\* A few steps make a list of steps.
LEMMA FewSteps ==
  ASSUME NEW a \in Steps, NEW b \in Steps, NEW c \in Steps, NEW d \in Steps
  PROVE  << a, b >> \in Seq(Steps) /\ << a, b, c, d >> \in Seq(Steps)
OBVIOUS

\* Steps under a condition are a list of steps.
LEMMA WhenSteps ==
  ASSUME NEW condition, NEW steps \in Seq(Steps)
  PROVE  When(condition, steps) \in Seq(Steps)
<1>1. << >> \in Seq(Steps)
  OBVIOUS
<1> QED  BY <1>1 DEF When

\* The steps of an agent are a list of steps.
LEMMA SetupIsSteps ==
  ASSUME NEW agent \in DOMAIN Setup
  PROVE  Setup[agent] \in Seq(Steps)
<1>1. SetupClaudeCode \in Seq(Steps)
  BY DEF SetupClaudeCode, Skill, Step, Steps, Ops, ProjectPaths
<1>2. SetupPi \in Seq(Steps)
  BY DEF SetupPi, Skill, Step, Steps, Ops, ProjectPaths
<1>3. SetupCursor \in Seq(Steps)
  BY DEF SetupCursor, Skill, Step, Steps, Ops, ProjectPaths
<1>4. SetupCopilot \in Seq(Steps)
  BY DEF SetupCopilot, Skill, Step, Steps, Ops, ProjectPaths
<1>5. SetupOpenCode \in Seq(Steps)
  BY DEF SetupOpenCode, Skill, Step, Steps, Ops, ProjectPaths
<1>6. SetupCodex \in Seq(Steps)
  BY DEF SetupCodex, Skill, Step, Steps, Ops, ProjectPaths
<1>7. SetupAntigravity \in Seq(Steps)
  BY DEF SetupAntigravity, Skill, Step, Steps, SkillFile, Ops, ProjectPaths
<1> QED  BY <1>1, <1>2, <1>3, <1>4, <1>5, <1>6, <1>7 DEF Setup

\* The fork's steps are a list of steps.
LEMMA ForkStepsAreSteps ==
  ASSUME NEW plan, NEW exist
  PROVE  ForkSteps(plan, exist) \in Seq(Steps)
<1>1. \A file \in {"AGENTS.md", "GEMINI.md", ".github/copilot-instructions.md"} : \A condition :
        When(condition, << Step("block", file) >>) \in Seq(Steps)
  BY StepIsStep, WhenSteps DEF Ops, ProjectPaths
<1>2. \A skill \in SkillRoots : \A condition : When(condition, << Step("conventions", skill) >>) \in Seq(Steps)
  BY StepIsStep, WhenSteps DEF SkillRoots, Ops, ProjectPaths
<1> QED  BY <1>1, <1>2, StepsAppend DEF ForkSteps, SkillRoots

\* A plan is a list of steps.
LEMMA AgentPlanIsSteps ==
  ASSUME NEW sel, NEW exist
  PROVE  AgentPlan(sel, exist) \in Seq(Steps)
<1> DEFINE Chosen(agent) == When(agent \in sel, Setup[agent])
           first == << Step("section", "AGENTS.md") >>
           plan == first \o Chosen("claude") \o Chosen("pi") \o Chosen("cursor") \o Chosen("copilot")
                     \o Chosen("opencode") \o Chosen("codex") \o Chosen("antigravity")
           forks == ForkSteps(plan, exist)
           last == << Step("meta", "") >>
<1>1. /\ Chosen("claude") \in Seq(Steps) /\ Chosen("pi") \in Seq(Steps) /\ Chosen("cursor") \in Seq(Steps)
      /\ Chosen("copilot") \in Seq(Steps) /\ Chosen("opencode") \in Seq(Steps)
      /\ Chosen("codex") \in Seq(Steps) /\ Chosen("antigravity") \in Seq(Steps)
  <2>1. {"claude", "pi", "cursor", "copilot", "opencode", "codex", "antigravity"} \subseteq DOMAIN Setup
    BY DEF Setup
  <2> QED  BY <2>1, SetupIsSteps, WhenSteps
<1>2. first \in Seq(Steps) /\ last \in Seq(Steps)
  BY StepIsStep DEF Ops, ProjectPaths
<1>3. plan \in Seq(Steps)
  <2> HIDE DEF Chosen, first
  <2> QED  BY <1>1, <1>2, StepsAppend
<1>4. AgentPlan(sel, exist) = plan \o forks \o last
  BY DEF AgentPlan
<1>5. forks \in Seq(Steps)
  BY ForkStepsAreSteps
<1> HIDE DEF plan, forks, last
<1> QED  BY <1>2, <1>3, <1>4, <1>5, StepsAppend

\* The steps before the choice of agents are a list of steps.
LEMMA ScaffoldIsSteps == ScaffoldSteps \in Seq(Steps)
<1>1. Step("modeDir", "") \in Steps
  BY StepIsStep DEF Ops, ProjectPaths
<1>2. [i \in 1..ModeCount |-> Step("modeDir", "")] \in Seq(Steps)
  <2> DEFINE step == Step("modeDir", "")
  <2> HIDE DEF step
  <2>1. step \in Steps /\ ModeCount \in Nat
    BY <1>1, BoundsAssumption DEF step
  <2>2. [i \in 1..ModeCount |-> step] \in Seq(Steps)
    BY <2>1
  <2> QED  BY <2>2 DEF step
<1>3. << Step("listModes", "") >> \in Seq(Steps)
  BY StepIsStep DEF Ops, ProjectPaths
<1> QED  BY <1>2, <1>3, StepsAppend DEF ScaffoldSteps

\* What a step that writes one file can lose.
LEMMA OneFileWritten ==
  ASSUME NEW file, NEW text \in Texts, files' = WithFile(file, text), TextsAreTexts
  PROVE  /\ TextsAreTexts'
         /\ \A p \in DOMAIN files : Lost(p) => p = file /\ UsersIn(files[file]) > UsersIn(text)
         /\ \A p \in DOMAIN files : p \in DOMAIN files' /\ (p # file => files'[p] = files[p])
         /\ files'[file] = text
<1>1. /\ DOMAIN files' = DOMAIN files \cup {file} /\ files'[file] = text
      /\ \A p \in DOMAIN files \ {file} : files'[p] = files[p]
  BY DEF WithFile
<1>2. \A p \in DOMAIN files : UsersIn(files[p]) \in Nat
  BY UsersAreCounted DEF TextsAreTexts
<1> QED  BY <1>1, <1>2 DEF TextsAreTexts, Lost

\* A template is a text with nothing of the user's in it.
LEMMA TemplatesAre ==
  ASSUME NEW c \in Channels, NEW v \in Nat
  PROVE  <<Template(c, v)>> \in Texts /\ UsersIn(<<Template(c, v)>>) = 0
BY PiecesAre

\* A finished setup holds texts, and its hashes are of lat's own.
LEMMA SetUpIsOurs ==
  ASSUME NEW sel
  PROVE  /\ \A file \in DOMAIN SetUp(sel).files : SetUp(sel).files[file] \in Texts
         /\ Ours(SetUp(sel).hashes)
<1> DEFINE plan == AgentPlan(sel, {})
           steps == {plan[i] : i \in DOMAIN plan}
           Left(op) == {step.path : step \in {s \in steps : s.op = op}}
           shared == Left("section")
           forks == {SkillFile(skill) : skill \in Left("conventions")}
           own == UNION {Left(op) : op \in {"template", "merged", "hooks", "mcp"}}
           mine == <<Template("lat", 0)>>
           theirs == <<Template("fork", 0)>>
           both == Wrap(mine, "lat") \o Wrap(theirs, "fork")
           alone == Override(Each(own, mine), Each(forks, theirs))
           texts == Override(alone, Each(shared, both))
           whole == [h \in {HashKey(p, "lat") : p \in DOMAIN texts \ shared} |-> texts[h[1]]]
           sections == Each({HashKey(p, "lat") : p \in shared}, mine)
           blocks == Each({HashKey(p, "fork") : p \in shared}, theirs)
<1>1. SetUp(sel).files = texts /\ SetUp(sel).hashes = Override(Override(whole, sections), blocks)
  BY DEF SetUp
<1>2. mine \in Texts /\ UsersIn(mine) = 0 /\ theirs \in Texts /\ UsersIn(theirs) = 0
  BY TemplatesAre, 0 \in Nat DEF Channels
<1> HIDE DEF shared, forks, own, mine, theirs
<1>3. both \in Texts
  <2> DEFINE upper == Wrap(mine, "lat")
             lower == Wrap(theirs, "fork")
  <2>1. upper \in Texts /\ lower \in Texts
    BY <1>2, WrapAddsNoUsers DEF Channels
  <2> HIDE DEF upper, lower
  <2> QED  BY <2>1, UsersAddUp DEF upper, lower
<1> HIDE DEF both
<1>4. \A p \in DOMAIN alone : alone[p] \in Texts /\ UsersIn(alone[p]) = 0
  BY <1>2 DEF Override, Each
<1> HIDE DEF alone
<1>5. /\ \A p \in DOMAIN texts : texts[p] \in Texts
      /\ \A p \in DOMAIN texts \ shared : UsersIn(texts[p]) = 0
  BY <1>3, <1>4 DEF Override, Each
<1> HIDE DEF texts
<1>6. Ours(whole)
  <2>1. ASSUME NEW p \in DOMAIN texts \ shared
        PROVE  HashKey(p, "lat")[1] = p
    BY DEF HashKey
  <2> QED  BY <1>5, <2>1 DEF Ours
<1>7. Ours(sections) /\ Ours(blocks)
  BY <1>2 DEF Ours, Each
<1> HIDE DEF whole, sections, blocks
<1> QED  BY <1>1, <1>5, <1>6, <1>7, HashesMerged

\* The invariant holds at first.
LEMMA InitIsSound == Init => IInv
<1> SUFFICES ASSUME Init PROVE IInv
  OBVIOUS
<1>1. version \in Nat /\ Ours(fresh) /\ todo \in Seq(Steps) /\ prompt = NotAsked
  BY DEF Init, Ours
<1>2. TextsAreTexts /\ Ours(meta.hashes)
  <2>1. CASE files = << >> /\ meta = [version |-> 0, hashes |-> << >>]
    BY <2>1 DEF TextsAreTexts, Ours
  <2>2. ASSUME NEW sel, files = SetUp(sel).files, meta = [version |-> 0, hashes |-> SetUp(sel).hashes]
        PROVE  TextsAreTexts /\ Ours(meta.hashes)
    BY <2>2, SetUpIsOurs DEF TextsAreTexts
  <2>3. CASE /\ files = Each({"AGENTS.md"}, <<Template("lat", 0)>>)
             /\ meta = [version |-> 0, hashes |-> Each({HashKey("AGENTS.md", "lat")}, files["AGENTS.md"])]
    <3>1. <<Template("lat", 0)>> \in Texts /\ UsersIn(<<Template("lat", 0)>>) = 0
      BY TemplatesAre, 0 \in Nat DEF Channels
    <3> QED  BY <2>3, <3>1 DEF TextsAreTexts, Ours, Each
  <2> QED  BY <2>1, <2>2, <2>3 DEF Init
<1> QED  BY <1>1, <1>2 DEF IInv

-----------------------------------------------------------------------------
LEMMA NothingIsLost ==
  ASSUME TextsAreTexts, files' = files
  PROVE  Spares
<1>1. \A file \in DOMAIN files : UsersIn(files[file]) \in Nat
  BY UsersAreCounted DEF TextsAreTexts
<1> QED  BY <1>1 DEF Spares, Lost

\* The first of the steps, and those after it.
LEMMA StepsLeft ==
  ASSUME todo \in Seq(Steps), todo # <<>>
  PROVE  todo[1] \in Steps /\ Tail(todo) \in Seq(Steps)
OBVIOUS

\* A step that leaves the files alone and is done.
LEMMA LeftAlone ==
  ASSUME IInv, todo # <<>>, StepDone, files' = files, Ours(fresh'), UNCHANGED <<version, meta>>
  PROVE  IInv' /\ Spares
<1>1. todo' \in Seq(Steps) /\ prompt' = NotAsked
  BY StepsLeft DEF IInv, StepDone
<1>2. Spares
  BY NothingIsLost DEF IInv
<1> QED  BY <1>1, <1>2 DEF IInv, TextsAreTexts

\* A step that writes one text and keeps the hash of what is init's own in it.
LEMMA Wrote ==
  ASSUME IInv, todo # <<>>, StepDone, UNCHANGED <<version, meta>>,
         NEW file, NEW text \in Texts, files' = WithFile(file, text), Ours(fresh')
  PROVE  /\ IInv'
         /\ \A p \in DOMAIN files : Lost(p) => p = file /\ UsersIn(files[file]) > UsersIn(text)
         /\ files'[file] = text
<1>1. todo' \in Seq(Steps) /\ prompt' = NotAsked
  BY StepsLeft DEF IInv, StepDone
<1>2. TextsAreTexts
  BY DEF IInv
<1>3. /\ TextsAreTexts' /\ files'[file] = text
      /\ \A p \in DOMAIN files : Lost(p) => p = file /\ UsersIn(files[file]) > UsersIn(text)
  BY <1>2, OneFileWritten
<1> QED  BY <1>1, <1>3 DEF IInv

\* Writing a text keeps the invariant, and spares the user's text when the new one holds as much of it.
LEMMA PutIsSound ==
  ASSUME IInv, todo # <<>>, UNCHANGED <<version, meta>>,
         NEW text \in Texts, NEW hash, NEW recorded \in Texts, hash # HooksKey => UsersIn(recorded) = 0,
         Put(text, hash, recorded)
  PROVE  /\ IInv'
         /\ (Path \in DOMAIN files => UsersIn(files[Path]) <= UsersIn(text)) => Spares
<1>1. StepDone /\ files' = WithFile(Path, text) /\ fresh' = Override(fresh, Each({hash}, recorded))
  BY DEF Put, Writes, KeepHash
<1>2. Ours(fresh')
  BY <1>1, OneMoreHash DEF IInv
<1>3. /\ IInv'
      /\ \A p \in DOMAIN files : Lost(p) => p = Path /\ UsersIn(files[Path]) > UsersIn(text)
  BY <1>1, <1>2, Wrote
<1>4. ASSUME Path \in DOMAIN files => UsersIn(files[Path]) <= UsersIn(text)
      PROVE  Spares
  <2>1. Path \in DOMAIN files => UsersIn(files[Path]) \in Nat /\ UsersIn(text) \in Nat
    BY UsersAreCounted DEF IInv, TextsAreTexts
  <2>2. \A p \in DOMAIN files : ~Lost(p)
    BY <1>3, <1>4, <2>1
  <2> QED  BY <2>2 DEF Spares
<1> QED  BY <1>3, <1>4

\* Leaving a file that is up to date keeps the invariant and spares the user's text.
LEMMA UpToDateIsSound ==
  ASSUME IInv, todo # <<>>, UNCHANGED <<version, meta>>,
         NEW hash, NEW text \in Texts, hash # HooksKey => UsersIn(text) = 0, UpToDate(hash, text)
  PROVE  IInv' /\ Spares
<1>1. StepDone /\ files' = files /\ fresh' = Override(fresh, Each({hash}, text))
  BY DEF UpToDate, Leaves, KeepHash
<1>2. Ours(fresh')
  BY <1>1, OneMoreHash DEF IInv
<1> QED  BY <1>1, <1>2, LeftAlone

\* An answer: what a yes writes is up to the question.
LEMMA AnswerIsSound ==
  ASSUME IInv, todo # <<>>, UNCHANGED <<version, meta>>, NEW text \in Texts, NEW hash, NEW recorded \in Texts,
         hash # HooksKey => UsersIn(recorded) = 0, Answer(text, hash, recorded),
         ASSUME answer' = "yes", files'[Path] = text, Path \in DOMAIN files
         PROVE  MayLose(Path)
  PROVE  IInv' /\ Spares
<1>1. CASE answer' = "yes" /\ Writes(text, hash) /\ KeepHash(hash, recorded)
  <2>1. StepDone /\ files' = WithFile(Path, text) /\ fresh' = Override(fresh, Each({hash}, recorded))
    BY <1>1 DEF Answer, Writes, KeepHash
  <2>2. Ours(fresh')
    BY <2>1, OneMoreHash DEF IInv
  <2>3. /\ IInv' /\ files'[Path] = text
        /\ \A p \in DOMAIN files : Lost(p) => p = Path
    BY <2>1, <2>2, Wrote
  <2> QED  BY <1>1, <2>3 DEF Spares
<1>2. CASE answer' = "no" /\ Leaves /\ UNCHANGED fresh
  <2>1. StepDone /\ files' = files /\ Ours(fresh')
    BY <1>2 DEF Answer, Leaves, IInv
  <2> QED  BY <2>1, LeftAlone
<1> QED  BY <1>1, <1>2 DEF Answer

\* So does asking about it.
LEMMA AskIsSound ==
  ASSUME IInv, todo # <<>>, UNCHANGED <<version, meta>>, Path \in DOMAIN files, Ask,
         prompt' = <<files[Path]>> => AskedAbout'
  PROVE  IInv' /\ Spares
<1>1. files' = files /\ todo' = todo /\ fresh' = fresh /\ AskedAbout'
  BY DEF Ask, Leaves
<1>2. Spares
  BY <1>1, NothingIsLost DEF IInv
<1> QED  BY <1>1, <1>2 DEF IInv, TextsAreTexts

\* The text that a step works on is the file's, or the one it showed when it asked.
LEMMA TextIsText ==
  ASSUME IInv, todo # <<>>, Path \in DOMAIN files
  PROVE  Text \in Texts /\ (prompt = NotAsked => Text = files[Path]) /\ (prompt # NotAsked => Text = prompt[1])
BY DEF IInv, TextsAreTexts, Text, AskedAbout

\* Only the merged file's hash may hold what the user wrote.
LEMMA OwnHash ==
  ASSUME IInv, todo # <<>>, todo[1].op # "merged"
  PROVE  /\ HashKey(Path, "lat") # HooksKey /\ HashKey(Path, "fork") # HooksKey
         /\ \A text : Recorded(HashKey(Path, "lat"), text) \/ Recorded(HashKey(Path, "fork"), text)
              => UsersIn(text) = 0
<1>1. todo[1] \in Steps
  BY StepsLeft DEF IInv
<1>2. Path # ".agents/hooks.json"
  BY <1>1 DEF Path, Steps
<1>3. HashKey(Path, "lat") # HooksKey /\ HashKey(Path, "fork") # HooksKey
  BY <1>2 DEF HashKey, HooksKey
<1> QED  BY <1>3 DEF IInv, Ours, Recorded, Stored

\* The steps, one handler each: the invariant stays, and the user's text is spared.
\* First the section of lat in a shared file.
LEMMA SectionStep ==
  ASSUME IInv, AppendTemplateSection
  PROVE  IInv' /\ Spares
<1> DEFINE body == <<Template("lat", version)>>
           hash == HashKey(Path, "lat")
           replaced == Spliced(Text, body, "lat")
<1>1. /\ todo # <<>> /\ todo[1].op = "section" /\ UNCHANGED <<version, meta>>
      /\ hash # HooksKey
  BY OwnHash DEF AppendTemplateSection, Untouched
<1>2. body \in Texts /\ UsersIn(body) = 0
  BY TemplatesAre DEF IInv, Channels
<1>3. CASE ~Exists(Path)
  <2>1. Put(Wrap(body, "lat"), hash, body) /\ Path \notin DOMAIN files
    BY <1>3 DEF AppendTemplateSection, Exists
  <2>2. Wrap(body, "lat") \in Texts
    BY <1>2, WrapAddsNoUsers DEF Channels
  <2> QED  BY <1>1, <1>2, <2>1, <2>2, PutIsSound
<1>4. CASE Exists(Path) /\ HasSection(Text, "lat")
  <2>1. /\ Path \in DOMAIN files /\ Text \in Texts
        /\ prompt = NotAsked => Text = files[Path]
        /\ prompt # NotAsked => Text = prompt[1]
    BY <1>1, <1>4, TextIsText DEF Exists
  <2>2. /\ replaced \in Texts /\ UsersIn(Section(Text, "lat")) \in Nat
        /\ UsersIn(replaced) = UsersIn(Text) - UsersIn(Section(Text, "lat"))
        /\ UsersOutside(replaced, "lat") = UsersOutside(Text, "lat")
    <3>1. "lat" \in Channels /\ version \in Nat
      BY DEF Channels, IInv
    <3> QED  BY <1>4, <2>1, <3>1, SplicedKeepsTheRest
  <2>3. CASE Section(Text, "lat") = body
    <3>1. UpToDate(hash, body)
      BY <1>4, <2>3 DEF AppendTemplateSection
    <3> QED  BY <1>1, <1>2, <3>1, UpToDateIsSound
  <2>4. CASE Section(Text, "lat") # body /\ Recorded(hash, Section(Text, "lat"))
    <3>1. Put(replaced, hash, body)
      BY <1>4, <2>4 DEF AppendTemplateSection
    <3>2. UsersIn(Section(Text, "lat")) = 0
      BY <1>1, <2>4, OwnHash
    <3>3. prompt = NotAsked
      BY <1>1, <2>1, <2>4 DEF IInv, AskedAbout, Channel
    <3>4. Text = files[Path]
      BY <2>1, <3>3
    <3>5. UsersIn(files[Path]) <= UsersIn(replaced)
      <4>1. UsersIn(Text) \in Nat
        BY <2>1, UsersAreCounted
      <4> QED  BY <2>2, <3>2, <3>4, <4>1
    <3> HIDE DEF replaced, body
    <3> QED  BY <1>1, <1>2, <2>2, <3>1, <3>5, PutIsSound
  <2>5. CASE Section(Text, "lat") # body /\ ~Recorded(hash, Section(Text, "lat"))
    <3>1. Ask \/ Answer(replaced, hash, body)
      BY <1>4, <2>5 DEF AppendTemplateSection
    <3>2. CASE Ask
      <4>1. prompt' = <<files[Path]>> => AskedAbout'
        <5>1. prompt = NotAsked /\ Text = files[Path] /\ todo' = todo /\ files' = files
          BY <2>1, <3>2 DEF Ask, Leaves
        <5>2. meta' = meta
          BY <1>1
        <5> SUFFICES ASSUME prompt' = <<files[Path]>>
                     PROVE  AskedAbout'
          OBVIOUS
        <5>3. prompt'[1] = Text
          BY <5>1
        <5>4. /\ todo' # <<>> /\ prompt'[1] \in Texts /\ Path' \in DOMAIN files' /\ Path' = Path
              /\ todo'[1].op = "section" /\ Channel' = "lat"
          BY <1>1, <2>1, <5>1, <5>3 DEF Path, Channel
        <5>5. HasSection(prompt'[1], "lat")
          BY <1>4, <5>3
        <5>6. ~(Recorded(HashKey(Path, Channel), Section(prompt[1], Channel)))'
          BY <2>5, <5>2, <5>3, <5>4 DEF Recorded, Stored
        <5> QED  BY <5>4, <5>5, <5>6 DEF AskedAbout
      <4> QED  BY <1>1, <2>1, <3>2, <4>1, AskIsSound
    <3>3. CASE Answer(replaced, hash, body)
      <4>1. ASSUME answer' = "yes", files'[Path] = replaced
            PROVE  MayLose(Path)
        <5>1. prompt # NotAsked
          BY <3>3 DEF Answer
        <5>2. Text = prompt[1]
          BY <2>1, <5>1
        <5>3. prompt = <<files[Path]>> => Text = files[Path]
          BY <5>2
        <5>4. Channel = "lat"
          BY <1>1 DEF Channel
        <5>5. prompt = <<files[Path]>> => UsersOutside(files'[Path], Channel) = UsersOutside(files[Path], Channel)
          BY <2>2, <4>1, <5>3, <5>4
        <5> QED  BY <4>1, <5>5 DEF MayLose
      <4> HIDE DEF replaced, body
      <4> QED  BY <1>1, <1>2, <2>2, <3>3, <4>1, AnswerIsSound
    <3> QED  BY <3>1, <3>2, <3>3
  <2> QED  BY <2>3, <2>4, <2>5
<1>5. CASE Exists(Path) /\ ~HasSection(Text, "lat")
  <2>1. /\ Path \in DOMAIN files /\ Text \in Texts
        /\ prompt = NotAsked => Text = files[Path]
        /\ prompt # NotAsked => Text = prompt[1]
    BY <1>1, <1>5, TextIsText DEF Exists
  <2>2. prompt = NotAsked
    BY <1>1, <1>5, <2>1 DEF IInv, AskedAbout, Channel
  <2>3. UsersIn(Text) \in Nat
    BY <2>1, UsersAreCounted
  <2>4. CASE Recorded(hash, Text)
    <3>1. Put(Wrap(Text, "lat"), hash, Text)
      BY <1>5, <2>4 DEF AppendTemplateSection
    <3>2. UsersIn(Text) = 0
      BY <1>1, <2>4, OwnHash
    <3>3. Wrap(Text, "lat") \in Texts /\ UsersIn(Wrap(Text, "lat")) = UsersIn(Text)
      BY <2>1, WrapAddsNoUsers DEF Channels
    <3>4. UsersIn(files[Path]) <= UsersIn(Wrap(Text, "lat"))
      BY <2>1, <2>2, <2>3, <3>3
    <3> QED  BY <1>1, <2>1, <3>1, <3>2, <3>3, <3>4, PutIsSound
  <2>5. CASE ~Recorded(hash, Text)
    <3>1. Put(replaced, hash, body)
      BY <1>5, <2>5 DEF AppendTemplateSection
    <3>2. replaced \in Texts /\ UsersIn(replaced) = UsersIn(Text)
      <4>1. "lat" \in Channels /\ version \in Nat
        BY DEF Channels, IInv
      <4> QED  BY <1>5, <2>1, <4>1, AppendedKeepsAll
    <3> HIDE DEF replaced, body
    <3>3. UsersIn(files[Path]) <= UsersIn(replaced)
      BY <2>1, <2>2, <2>3, <3>2
    <3> QED  BY <1>1, <1>2, <3>1, <3>2, <3>3, PutIsSound
  <2> QED  BY <2>4, <2>5
<1> QED  BY <1>3, <1>4, <1>5

\* A file that is a template.
LEMMA TemplateFileStep ==
  ASSUME IInv, WriteTemplateFile
  PROVE  IInv' /\ Spares
<1> DEFINE merged == Keep(prompt[1], {User, Mixed}) \o <<Template("lat", version)>>
           body == IF todo[1].op = "merged" /\ prompt = NotAsked THEN MergedHooks(Path)
                   ELSE IF todo[1].op = "merged" THEN merged ELSE TemplateOf(Path)
           hash == HashKey(Path, "lat")
<1>1. todo # <<>> /\ todo[1].op \in {"template", "merged"} /\ UNCHANGED <<version, meta>>
  BY DEF WriteTemplateFile, Untouched
<1>2. version \in Nat /\ <<Template("lat", version)>> \in Texts
      /\ TemplateOf(Path) \in Texts /\ UsersIn(TemplateOf(Path)) = 0
  <2>1. version \in Nat /\ "lat" \in Channels /\ "fork" \in Channels
    BY DEF IInv, Channels
  <2> QED  BY <2>1, TemplatesAre DEF TemplateOf
<1>3. todo[1].op = "merged" =>
        /\ MergedHooks(Path) \in Texts
        /\ Path \in DOMAIN files => UsersIn(MergedHooks(Path)) = UsersIn(files[Path])
        /\ prompt # NotAsked => merged \in Texts
  <2>1. Path \in DOMAIN files =>
          /\ Keep(files[Path], {User, Mixed}) \o <<Template("lat", version)>> \in Texts
          /\ UsersIn(Keep(files[Path], {User, Mixed}) \o <<Template("lat", version)>>) = UsersIn(files[Path])
    <3> SUFFICES ASSUME Path \in DOMAIN files
                 PROVE  /\ Keep(files[Path], {User, Mixed}) \o <<Template("lat", version)>> \in Texts
                        /\ UsersIn(Keep(files[Path], {User, Mixed}) \o <<Template("lat", version)>>) = UsersIn(files[Path])
      OBVIOUS
    <3>1. files[Path] \in Texts
      BY DEF IInv, TextsAreTexts
    <3>2. \A i \in DOMAIN files[Path] : IsUsers(files[Path][i]) => files[Path][i] \in {User, Mixed}
      BY DEF IsUsers
    <3> QED  BY <1>2, <3>1, <3>2, KeptWithTemplate
  <2>2. prompt # NotAsked => merged \in Texts
    <3>1. prompt # NotAsked => prompt[1] \in Texts
      BY DEF IInv, AskedAbout
    <3> QED  BY <1>2, <3>1, KeptWithTemplate
  <2> QED  BY <1>2, <2>1, <2>2 DEF MergedHooks, Exists
<1> HIDE DEF merged
<1>4. body \in Texts /\ (hash # HooksKey => UsersIn(body) = 0)
  <2>1. body \in Texts
    BY <1>2, <1>3
  <2>2. todo[1].op = "merged" => hash = HooksKey
    <3>1. todo[1] \in Steps
      BY <1>1, StepsLeft DEF IInv
    <3> QED  BY <3>1 DEF Steps, Path, HooksKey
  <2>3. todo[1].op # "merged" => UsersIn(body) = 0
    BY <1>2
  <2> QED  BY <2>1, <2>2, <2>3
<1>5. prompt = NotAsked /\ Path \in DOMAIN files /\ todo[1].op = "merged" =>
        UsersIn(files[Path]) <= UsersIn(body)
  <2>1. Path \in DOMAIN files => UsersIn(files[Path]) \in Nat
    BY UsersAreCounted DEF IInv, TextsAreTexts
  <2> QED  BY <1>3, <2>1
<1>6. \/ ~Exists(Path) /\ Put(body, hash, body)
      \/ Exists(Path) /\ Text = body /\ UpToDate(hash, body)
      \/ Exists(Path) /\ Recorded(hash, Text) /\ Put(body, hash, body)
      \/ Exists(Path) /\ ~Recorded(hash, Text) /\ (Ask \/ Answer(body, hash, body))
  BY DEF WriteTemplateFile, merged
<1> HIDE DEF body
<1>7. CASE ~Exists(Path) /\ Put(body, hash, body)
  BY <1>1, <1>4, <1>7, PutIsSound DEF Exists
<1>8. CASE Exists(Path) /\ Text = body /\ UpToDate(hash, body)
  BY <1>1, <1>4, <1>8, UpToDateIsSound
<1>9. CASE Exists(Path) /\ Recorded(hash, Text) /\ Put(body, hash, body)
  <2>1. /\ Path \in DOMAIN files /\ Text \in Texts
        /\ prompt = NotAsked => Text = files[Path]
        /\ prompt # NotAsked => Text = prompt[1]
    BY <1>1, <1>9, TextIsText DEF Exists
  <2>2. prompt = NotAsked
    BY <1>1, <1>9, <2>1 DEF IInv, AskedAbout
  <2>3. UsersIn(files[Path]) <= UsersIn(body)
    <3>1. CASE todo[1].op = "merged"
      BY <1>5, <2>1, <2>2, <3>1
    <3>2. CASE todo[1].op # "merged"
      <4>1. UsersIn(Text) = 0
        BY <1>1, <1>9, <3>2, OwnHash
      <4>2. UsersIn(body) \in Nat
        BY <1>4, UsersAreCounted
      <4> QED  BY <2>1, <2>2, <4>1, <4>2
    <3> QED  BY <3>1, <3>2
  <2> QED  BY <1>1, <1>4, <1>9, <2>3, PutIsSound
<1>10. CASE Exists(Path) /\ ~Recorded(hash, Text) /\ Ask
  <2>1. /\ Path \in DOMAIN files /\ Text \in Texts
        /\ prompt = NotAsked => Text = files[Path]
    BY <1>1, <1>10, TextIsText DEF Exists
  <2>2. prompt = NotAsked /\ Text = files[Path] /\ todo' = todo /\ files' = files /\ meta' = meta
    BY <1>1, <1>10, <2>1 DEF Ask, Leaves
  <2>3. prompt' = <<files[Path]>> => AskedAbout'
    <3> SUFFICES ASSUME prompt' = <<files[Path]>>
                 PROVE  AskedAbout'
      OBVIOUS
    <3>1. prompt'[1] = Text
      BY <2>2
    <3>2. /\ todo' # <<>> /\ prompt'[1] \in Texts /\ Path' \in DOMAIN files' /\ Path' = Path
          /\ todo'[1].op \in {"template", "merged"}
      BY <1>1, <2>1, <2>2, <3>1 DEF Path
    <3>3. ~(Recorded(HashKey(Path, "lat"), prompt[1]))'
      BY <1>10, <2>2, <3>1, <3>2 DEF Recorded, Stored
    <3> QED  BY <3>2, <3>3 DEF AskedAbout
  <2> QED  BY <1>1, <1>10, <2>1, <2>3, AskIsSound
<1>11. CASE Exists(Path) /\ Answer(body, hash, body)
  <2>1. answer' = "yes" => MayLose(Path)
    BY <1>1 DEF MayLose
  <2> QED  BY <1>1, <1>4, <1>11, <2>1, AnswerIsSound
<1> QED  BY <1>6, <1>7, <1>8, <1>9, <1>10, <1>11

\* The fork's section in a shared file.
LEMMA ForkBlockStep ==
  ASSUME IInv, WriteForkBlock
  PROVE  IInv' /\ Spares
<1> DEFINE body == <<Template("fork", version)>>
           hash == HashKey(Path, "fork")
           replaced == Spliced(Text, body, "fork")
<1>1. /\ todo # <<>> /\ todo[1].op = "block" /\ UNCHANGED <<version, meta>>
      /\ hash # HooksKey
  BY OwnHash DEF WriteForkBlock, Untouched
<1>2. body \in Texts /\ UsersIn(body) = 0 /\ version \in Nat /\ "fork" \in Channels
  BY TemplatesAre DEF IInv, Channels
<1>3. CASE ~Exists(Path)
  <2>1. StepDone /\ Leaves /\ UNCHANGED fresh
    BY <1>3 DEF WriteForkBlock
  <2>2. files' = files /\ Ours(fresh')
    BY <2>1 DEF Leaves, IInv
  <2> QED  BY <1>1, <2>1, <2>2, LeftAlone
<1>4. CASE Exists(Path) /\ ~HasSection(Text, "fork")
  <2>1. /\ Path \in DOMAIN files /\ Text \in Texts
        /\ prompt = NotAsked => Text = files[Path]
        /\ prompt # NotAsked => Text = prompt[1]
    BY <1>1, <1>4, TextIsText DEF Exists
  <2>2. prompt = NotAsked
    BY <1>1, <1>4, <2>1 DEF IInv, AskedAbout, Channel
  <2>3. Put(replaced, hash, body)
    BY <1>4 DEF WriteForkBlock
  <2>4. replaced \in Texts /\ UsersIn(replaced) = UsersIn(Text)
    BY <1>2, <1>4, <2>1, AppendedKeepsAll
  <2>5. UsersIn(Text) \in Nat
    BY <2>1, UsersAreCounted
  <2> HIDE DEF replaced, body
  <2>6. UsersIn(files[Path]) <= UsersIn(replaced)
    BY <2>1, <2>2, <2>4, <2>5
  <2> QED  BY <1>1, <1>2, <2>3, <2>4, <2>6, PutIsSound
<1>5. CASE Exists(Path) /\ HasSection(Text, "fork")
  <2>1. /\ Path \in DOMAIN files /\ Text \in Texts
        /\ prompt = NotAsked => Text = files[Path]
        /\ prompt # NotAsked => Text = prompt[1]
    BY <1>1, <1>5, TextIsText DEF Exists
  <2>2. /\ replaced \in Texts /\ UsersIn(Section(Text, "fork")) \in Nat
        /\ UsersIn(replaced) = UsersIn(Text) - UsersIn(Section(Text, "fork"))
        /\ UsersOutside(replaced, "fork") = UsersOutside(Text, "fork")
    BY <1>2, <1>5, <2>1, SplicedKeepsTheRest
  <2>3. CASE Section(Text, "fork") = body
    <3>1. UpToDate(hash, body)
      BY <1>5, <2>3 DEF WriteForkBlock
    <3> QED  BY <1>1, <1>2, <3>1, UpToDateIsSound
  <2>4. CASE /\ Section(Text, "fork") # body /\ Stored(hash) /\ ~Recorded(hash, Section(Text, "fork"))
    <3>1. Ask \/ Answer(replaced, hash, body)
      BY <1>5, <2>4 DEF WriteForkBlock
    <3>2. CASE Ask
      <4>1. prompt' = <<files[Path]>> => AskedAbout'
        <5>1. prompt = NotAsked /\ Text = files[Path] /\ todo' = todo /\ files' = files
          BY <2>1, <3>2 DEF Ask, Leaves
        <5>2. meta' = meta
          BY <1>1
        <5> SUFFICES ASSUME prompt' = <<files[Path]>>
                     PROVE  AskedAbout'
          OBVIOUS
        <5>3. prompt'[1] = Text
          BY <5>1
        <5>4. /\ todo' # <<>> /\ prompt'[1] \in Texts /\ Path' \in DOMAIN files' /\ Path' = Path
              /\ todo'[1].op = "block" /\ Channel' = "fork"
          BY <1>1, <2>1, <5>1, <5>3 DEF Path, Channel
        <5>5. HasSection(prompt'[1], "fork")
          BY <1>5, <5>3
        <5>6. ~(Recorded(HashKey(Path, Channel), Section(prompt[1], Channel)))'
          BY <2>4, <5>2, <5>3, <5>4 DEF Recorded, Stored
        <5>7. (Stored(HashKey(Path, "fork")))'
          BY <2>4, <5>2, <5>4 DEF Stored
        <5> QED  BY <5>4, <5>5, <5>6, <5>7 DEF AskedAbout
      <4> QED  BY <1>1, <2>1, <3>2, <4>1, AskIsSound
    <3>3. CASE Answer(replaced, hash, body)
      <4>1. ASSUME answer' = "yes", files'[Path] = replaced
            PROVE  MayLose(Path)
        <5>1. prompt # NotAsked
          BY <3>3 DEF Answer
        <5>2. Text = prompt[1]
          BY <2>1, <5>1
        <5>3. prompt = <<files[Path]>> => Text = files[Path]
          BY <5>2
        <5>4. Channel = "fork"
          BY <1>1 DEF Channel
        <5>5. prompt = <<files[Path]>> => UsersOutside(files'[Path], Channel) = UsersOutside(files[Path], Channel)
          BY <2>2, <4>1, <5>3, <5>4
        <5> QED  BY <4>1, <5>5 DEF MayLose
      <4> HIDE DEF replaced, body
      <4> QED  BY <1>1, <1>2, <2>2, <3>3, <4>1, AnswerIsSound
    <3> QED  BY <3>1, <3>2, <3>3
  <2>5. CASE /\ Section(Text, "fork") # body /\ (Stored(hash) => Recorded(hash, Section(Text, "fork")))
    <3>1. Put(replaced, hash, body)
      BY <1>5, <2>5 DEF WriteForkBlock
    <3>2. prompt = NotAsked /\ Text = files[Path]
      <4>1. prompt # NotAsked => Stored(hash) /\ ~Recorded(hash, Section(prompt[1], "fork"))
        BY <1>1 DEF IInv, AskedAbout, Channel
      <4> QED  BY <2>1, <2>5, <4>1
    <3>3. CASE Recorded(hash, Section(Text, "fork"))
      <4>1. UsersIn(Section(Text, "fork")) = 0
        BY <1>1, <3>3, OwnHash
      <4>2. UsersIn(Text) \in Nat
        BY <2>1, UsersAreCounted
      <4>3. UsersIn(files[Path]) <= UsersIn(replaced)
        BY <2>2, <3>2, <4>1, <4>2
      <4> HIDE DEF replaced, body
      <4> QED  BY <1>1, <1>2, <2>2, <3>1, <4>3, PutIsSound
    <3>4. CASE ~Stored(hash)
      <4>1. MayLose(Path)
        BY <1>1, <3>4 DEF MayLose
      <4>2. StepDone /\ files' = WithFile(Path, replaced) /\ fresh' = Override(fresh, Each({hash}, body))
        BY <3>1 DEF Put, Writes, KeepHash
      <4> HIDE DEF replaced, body
      <4>3. Ours(fresh')
        BY <1>1, <1>2, <4>2, OneMoreHash DEF IInv
      <4>4. IInv' /\ \A p \in DOMAIN files : Lost(p) => p = Path
        BY <1>1, <2>2, <4>2, <4>3, Wrote
      <4> QED  BY <4>1, <4>4 DEF Spares
    <3> QED  BY <2>5, <3>3, <3>4
  <2> QED  BY <2>3, <2>4, <2>5
<1> QED  BY <1>3, <1>4, <1>5

\* The fork's conventions skill.
LEMMA ForkSkillStep ==
  ASSUME IInv, WriteForkSkill
  PROVE  IInv' /\ Spares
<1> DEFINE body == <<Template("fork", version)>>
           file == SkillFile(Path)
           hash == HashKey(file, "lat")
           write == files' = WithFile(file, body) /\ unrecorded' = unrecorded \cup {hash}
<1>1. /\ todo # <<>> /\ todo[1].op = "conventions" /\ UNCHANGED <<version, meta>> /\ StepDone
  BY DEF WriteForkSkill, Untouched, UpToDate
<1>2. body \in Texts /\ UsersIn(body) = 0
  BY TemplatesAre DEF IInv, Channels
<1>3. hash # HooksKey
  <2>1. todo[1] \in Steps
    BY <1>1, StepsLeft DEF IInv
  <2>2. Path \in SkillRoots
    BY <1>1, <2>1 DEF Steps, Path
  <2> QED  BY <2>2 DEF SkillRoots, SkillFile, HashKey, HooksKey
<1>4. \/ UpToDate(hash, body)
      \/ Leaves /\ UNCHANGED fresh
      \/ Exists(file) /\ ~Recorded(hash, files[file]) /\ Stored(hash) /\ answer' = "yes" /\ write /\ KeepHash(hash, body)
      \/ ~(Exists(file) /\ Stored(hash) /\ ~Recorded(hash, files[file])) /\ write /\ KeepHash(hash, body)
  BY DEF WriteForkSkill
<1> HIDE DEF body, file
<1>5. CASE UpToDate(hash, body)
  BY <1>1, <1>2, <1>5, UpToDateIsSound
<1>6. CASE Leaves /\ UNCHANGED fresh
  <2>1. files' = files /\ Ours(fresh')
    BY <1>6 DEF Leaves, IInv
  <2> QED  BY <1>1, <2>1, LeftAlone
<1>7. CASE write /\ KeepHash(hash, body)
           /\ (file \in DOMAIN files /\ Stored(hash) /\ ~Recorded(hash, files[file]) => answer' = "yes")
  <2>1. fresh' = Override(fresh, Each({hash}, body)) /\ files' = WithFile(file, body)
    BY <1>7 DEF KeepHash
  <2>2. Ours(fresh')
    BY <1>2, <2>1, OneMoreHash DEF IInv
  <2>3. /\ IInv'
        /\ \A p \in DOMAIN files : Lost(p) => p = file /\ UsersIn(files[file]) > UsersIn(body)
    BY <1>1, <1>2, <2>1, <2>2, Wrote
  <2>4. ASSUME file \in DOMAIN files, UsersIn(files[file]) > UsersIn(body)
        PROVE  MayLose(file)
    <3>1. CASE Recorded(hash, files[file])
      <4>1. UsersIn(files[file]) = 0
        BY <1>3, <3>1 DEF Recorded, Stored, IInv, Ours
      <4> QED  BY <1>2, <2>4, <4>1
    <3>2. CASE ~Stored(hash)
      BY <1>1, <3>2 DEF MayLose
    <3>3. CASE answer' = "yes"
      BY <1>1, <3>3 DEF MayLose
    <3> QED  BY <1>7, <2>4, <3>1, <3>2, <3>3
  <2> QED  BY <2>3, <2>4 DEF Spares
<1> QED  BY <1>4, <1>5, <1>6, <1>7 DEF Exists

\* No question is open while another step than a writing one is taken.
LEMMA NothingAsked ==
  ASSUME IInv, todo # <<>> => todo[1].op \notin {"section", "block", "template", "merged"}
  PROVE  prompt = NotAsked
BY DEF IInv, AskedAbout

\* The hooks, merged with the user's.
LEMMA HooksStep ==
  ASSUME IInv, SyncLatHooks
  PROVE  IInv' /\ Spares
<1> DEFINE old == IF Exists(Path) THEN Keep(files[Path], {User}) ELSE <<>>
           new == old \o <<Template("lat", version)>>
<1>1. /\ todo # <<>> /\ todo[1].op = "hooks" /\ todo' = Tail(todo) /\ UNCHANGED <<version, meta, fresh, prompt>>
      /\ files' = WithFile(Path, new)
  BY DEF SyncLatHooks, Doing, Untouched
<1>2. prompt = NotAsked
  BY <1>1, NothingAsked
<1>3. version \in Nat /\ <<Template("lat", version)>> \in Texts
  BY TemplatesAre DEF IInv, Channels
<1>4. new \in Texts
  <2>1. Exists(Path) => new \in Texts
    BY <1>3, KeptWithTemplate DEF Exists, IInv, TextsAreTexts
  <2>2. ~Exists(Path) => new = << >> \o <<Template("lat", version)>>
    OBVIOUS
  <2>3. << >> \o <<Template("lat", version)>> \in Texts
    <3>1. << >> \in Texts
      BY DEF Texts
    <3> QED  BY <1>3, <3>1, UsersAddUp
  <2> QED  BY <2>1, <2>2, <2>3
<1>5. ASSUME Exists(Path), ~Contains(files[Path], Mixed)
      PROVE  UsersIn(new) = UsersIn(files[Path])
  <2>1. files[Path] \in Texts
    BY <1>5 DEF Exists, IInv, TextsAreTexts
  <2>2. \A i \in DOMAIN files[Path] : files[Path][i] # Mixed
    BY <1>5, <2>1 DEF Contains, Texts
  <2>3. \A i \in DOMAIN files[Path] : IsUsers(files[Path][i]) => files[Path][i] \in {User}
    BY <2>2 DEF IsUsers
  <2> QED  BY <1>3, <1>5, <2>1, <2>3, KeptWithTemplate
<1> HIDE DEF new
<1>6. /\ TextsAreTexts'
      /\ \A p \in DOMAIN files : Lost(p) => p = Path /\ UsersIn(files[Path]) > UsersIn(new)
  <2>1. TextsAreTexts
    BY DEF IInv
  <2> QED  BY <1>1, <1>4, <2>1, OneFileWritten
<1>7. IInv'
  BY <1>1, <1>2, <1>6, StepsLeft DEF IInv
<1>8. ASSUME NEW p \in DOMAIN files, Lost(p)
      PROVE  MayLose(p)
  <2>1. p = Path /\ UsersIn(files[Path]) > UsersIn(new) /\ Exists(Path) /\ UsersIn(files[Path]) \in Nat
    BY <1>6, <1>8, UsersAreCounted DEF Exists, IInv, TextsAreTexts
  <2>2. Contains(files[Path], Mixed)
    BY <1>5, <2>1
  <2> QED  BY <1>1, <2>1, <2>2 DEF MayLose
<1> QED  BY <1>7, <1>8 DEF Spares

\* The MCP server's entry.
LEMMA McpStep ==
  ASSUME IInv, RegisterMcpServer
  PROVE  IInv' /\ Spares
<1> DEFINE old == IF Exists(Path) THEN files[Path] ELSE <<>>
           new == old \o <<Template("lat", version)>>
<1>1. /\ todo # <<>> /\ todo[1].op = "mcp" /\ todo' = Tail(todo) /\ UNCHANGED <<version, meta, fresh, prompt>>
      /\ files' = files \/ files' = WithFile(Path, new)
  BY DEF RegisterMcpServer, Doing, Untouched
<1>2. prompt = NotAsked
  BY <1>1, NothingAsked
<1>3. old \in Texts /\ (Path \in DOMAIN files => old = files[Path])
  <2>1. << >> \in Texts
    BY DEF Texts
  <2> QED  BY <2>1 DEF Exists, IInv, TextsAreTexts
<1>4. <<Template("lat", version)>> \in Texts
  BY TemplatesAre DEF IInv, Channels
<1> HIDE DEF old
<1>5. new \in Texts /\ UsersIn(old) <= UsersIn(new)
  <2> DEFINE piece == <<Template("lat", version)>>
  <2> HIDE DEF piece
  <2>1. old \o piece \in Texts /\ UsersIn(old \o piece) = UsersIn(old) + UsersIn(piece)
    BY <1>3, <1>4, UsersAddUp DEF piece
  <2>2. UsersIn(old) \in Nat /\ UsersIn(piece) \in Nat
    BY <1>3, <1>4, UsersAreCounted DEF piece
  <2> QED  BY <2>1, <2>2 DEF piece
<1> HIDE DEF new
<1>6. TextsAreTexts
  BY DEF IInv
<1>7. TextsAreTexts' /\ Spares
  <2>1. CASE files' = files
    BY <1>6, <2>1, NothingIsLost DEF TextsAreTexts
  <2>2. CASE files' = WithFile(Path, new)
    <3>1. /\ TextsAreTexts'
          /\ \A p \in DOMAIN files : Lost(p) => p = Path /\ UsersIn(files[Path]) > UsersIn(new)
      BY <1>5, <1>6, <2>2, OneFileWritten
    <3>2. \A p \in DOMAIN files : ~Lost(p)
      <4>1. UsersIn(old) \in Nat /\ UsersIn(new) \in Nat
        BY <1>3, <1>5, UsersAreCounted
      <4> QED  BY <1>3, <1>5, <3>1, <4>1
    <3> QED  BY <3>1, <3>2 DEF Spares
  <2> QED  BY <1>1, <2>1, <2>2
<1>8. IInv'
  BY <1>1, <1>2, <1>7, StepsLeft DEF IInv
<1> QED  BY <1>7, <1>8

-----------------------------------------------------------------------------
\* The steps that write no file of the project.
LEMMA QuietSteps ==
  ASSUME IInv,
         \/ StartRun \/ CreateTree \/ WriteForkScaffold \/ SetupEmbeddings \/ ChooseAgents
         \/ OfferRequireMode \/ EnsureGitignored \/ WriteInitMeta \/ Cut
  PROVE  IInv' /\ Spares
<1>1. /\ files' = files /\ version' = version /\ prompt' \in {prompt, NotAsked}
  BY DEF StartRun, CreateTree, WriteForkScaffold, SetupEmbeddings, ChooseAgents, OfferRequireMode,
         EnsureGitignored, WriteInitMeta, Cut, Ends, project, lat, backend
<1>2. prompt' = NotAsked
  <2>1. CASE Cut
    BY <2>1 DEF Cut, Ends
  <2>2. CASE \/ StartRun \/ CreateTree \/ WriteForkScaffold \/ SetupEmbeddings \/ ChooseAgents
             \/ OfferRequireMode \/ EnsureGitignored \/ WriteInitMeta
    <3>1. todo # <<>> => todo[1].op \notin {"section", "block", "template", "merged"}
      BY <2>2 DEF StartRun, CreateTree, WriteForkScaffold, SetupEmbeddings, ChooseAgents,
                  OfferRequireMode, EnsureGitignored, WriteInitMeta, Doing, Idle
    <3> QED  BY <1>1, <3>1, NothingAsked
  <2> QED  BY <2>1, <2>2
<1>3. Ours(meta'.hashes) /\ Ours(fresh')
  <2>1. CASE WriteInitMeta
    <3>1. meta'.hashes = Override(meta.hashes, fresh) /\ fresh' = << >>
      BY <2>1 DEF WriteInitMeta
    <3>2. Ours(meta'.hashes)
      BY <3>1, HashesMerged DEF IInv
    <3> QED  BY <3>1, <3>2 DEF Ours
  <2>2. CASE Cut
    BY <2>2 DEF Cut, Ends, project, Ours, IInv
  <2>3. CASE \/ StartRun \/ CreateTree \/ WriteForkScaffold \/ SetupEmbeddings \/ ChooseAgents
             \/ OfferRequireMode \/ EnsureGitignored
    <3>1. meta' = meta /\ fresh' = fresh
      BY <2>3 DEF StartRun, CreateTree, WriteForkScaffold, SetupEmbeddings, ChooseAgents,
                  OfferRequireMode, EnsureGitignored, project
    <3> QED  BY <3>1 DEF IInv
  <2> QED  BY <2>1, <2>2, <2>3
<1>4. todo' \in Seq(Steps)
  <2>0. << >> \in Seq(Steps) /\ todo \in Seq(Steps) /\ (todo # <<>> => Tail(todo) \in Seq(Steps))
    BY StepsLeft DEF IInv
  <2>1. CASE StartRun
    <3> DEFINE tail == << Step("ignore", "config.local.yaml"), Step("ignore", ".lat-build"),
                          Step("embeddings", ""), Step("agents", "") >>
               head == << Step("mkdir", ""), Step("copy", "") >>
               first == IF tree THEN <<>> ELSE head \o ScaffoldSteps
    <3>1. tail \in Seq(Steps)
      <4>1. /\ Step("ignore", "config.local.yaml") \in Steps /\ Step("ignore", ".lat-build") \in Steps
            /\ Step("embeddings", "") \in Steps /\ Step("agents", "") \in Steps
        BY StepIsStep DEF Ops, ProjectPaths
      <4> QED  BY <4>1, FewSteps
    <3>2. head \in Seq(Steps)
      <4>1. Step("mkdir", "") \in Steps /\ Step("copy", "") \in Steps
        BY StepIsStep DEF Ops, ProjectPaths
      <4> QED  BY <4>1, FewSteps
    <3>3. first \in Seq(Steps)
      <4> HIDE DEF head
      <4> QED  BY <2>0, <3>2, ScaffoldIsSteps, StepsAppend
    <3>4. todo' = first \o tail
      BY <2>1 DEF StartRun
    <3> HIDE DEF first, tail
    <3> QED  BY <3>1, <3>3, <3>4, StepsAppend
  <2>2. CASE ChooseAgents
    <3>1. PICK sel \in IF tty THEN Selections ELSE {{}} :
            todo' = << Step("offer", "") >> \o
                      IF sel = {} THEN << Step("meta", "") >> ELSE AgentPlan(sel, DOMAIN files)
      BY <2>2 DEF ChooseAgents
    <3> DEFINE first == << Step("offer", "") >>
               rest == IF sel = {} THEN << Step("meta", "") >> ELSE AgentPlan(sel, DOMAIN files)
    <3>2. first \in Seq(Steps) /\ rest \in Seq(Steps)
      BY StepIsStep, AgentPlanIsSteps DEF Ops, ProjectPaths
    <3>3. todo' = first \o rest
      BY <3>1
    <3> HIDE DEF first, rest
    <3> QED  BY <3>2, <3>3, StepsAppend
  <2>3. CASE OfferRequireMode
    <3>1. todo' = Tail(todo) \/ todo' = ScaffoldSteps \o Tail(todo)
      BY <2>3 DEF OfferRequireMode
    <3>2. todo # <<>>
      BY <2>3 DEF OfferRequireMode
    <3> QED  BY <2>0, <3>1, <3>2, ScaffoldIsSteps, StepsAppend
  <2>4. CASE CreateTree \/ WriteForkScaffold \/ SetupEmbeddings \/ EnsureGitignored \/ WriteInitMeta
    <3>1. todo # <<>> /\ todo' = Tail(todo)
      BY <2>4 DEF CreateTree, WriteForkScaffold, SetupEmbeddings, EnsureGitignored, WriteInitMeta, Doing
    <3> QED  BY <2>0, <3>1
  <2>5. CASE Cut
    BY <2>0, <2>5 DEF Cut, Ends
  <2> QED  BY <2>1, <2>2, <2>3, <2>4, <2>5
<1>5. TextsAreTexts' /\ Spares
  BY <1>1, NothingIsLost DEF IInv, TextsAreTexts
<1> QED  BY <1>1, <1>2, <1>3, <1>4, <1>5 DEF IInv

\* A run that is killed in a write empties the file it was to write, and no other.
LEMMA TruncatedStep ==
  ASSUME IInv, CutWhileWriting
  PROVE  IInv' /\ Spares
<1>1. todo' = <<>> /\ prompt' = NotAsked /\ fresh' = << >> /\ UNCHANGED <<version, meta>>
  BY DEF CutWhileWriting, Ends
<1>2. TextsAreTexts /\ <<>> \in Texts /\ <<>> \in Seq(Steps)
  BY DEF IInv, Texts
<1>3. CASE files' = files
  <2>1. TextsAreTexts' /\ Spares
    BY <1>2, <1>3, NothingIsLost DEF TextsAreTexts
  <2> QED  BY <1>1, <1>2, <2>1 DEF IInv, Ours
<1>4. ASSUME NEW p, p = IF todo[1].op = "block" THEN Path ELSE SkillFile(Path), files' = WithFile(p, <<>>)
      PROVE  IInv' /\ Spares
  <2>1. TextsAreTexts' /\ files'[p] = <<>> /\ \A q \in DOMAIN files : Lost(q) => q = p
    BY <1>2, <1>4, OneFileWritten
  <2>2. Spares
    BY <1>1, <1>4, <2>1 DEF Spares, MayLose
  <2> QED  BY <1>1, <1>2, <2>1, <2>2 DEF IInv, Ours
<1> QED  BY <1>3, <1>4 DEF CutWhileWriting, Truncates, BlockIsDue, SkillIsDue

\* The user's own steps.
LEMMA UserSteps ==
  ASSUME IInv, EditFile \/ Upgrade \/ ChangeGit \/ WipeCache \/ SetGate \/ ChangeKey \/ Reindex
  PROVE  IInv' /\ todo' = todo
<1>1. todo' = todo /\ prompt' = prompt /\ fresh' = fresh
  BY DEF EditFile, Upgrade, ChangeGit, WipeCache, SetGate, ChangeKey, Reindex, Event, run
<1>2. CASE EditFile
  <2>1. PICK file \in DOMAIN files :
          \E edited \in
               {InsertAt(files[file], i, User) : i \in Places(files[file])} \cup
               {RemoveAt(files[file], i) :
                  i \in {j \in 1..Len(files[file]) : files[file][j][1] \in {"begin", "end"}}} \cup
               (IF file \in {".claude/settings.json", ".codex/hooks.json"}
                THEN {Append(files[file], Mixed)} ELSE {}) :
            files' = [files EXCEPT ![file] = edited]
    BY <1>2 DEF EditFile
  <2>2. files[file] \in Texts /\ Len(files[file]) \in Nat
    BY DEF IInv, TextsAreTexts, Texts
  <2>3. User \in Pieces /\ Mixed \in Pieces
    BY DEF Pieces
  <2>4. Places(files[file]) \subseteq 1..(Len(files[file]) + 1)
    BY <2>2 DEF Places
  <2>5. PICK edited \in Texts : files' = [files EXCEPT ![file] = edited]
    BY <2>1, <2>2, <2>3, <2>4, EditsAreTexts
  <2>6. /\ DOMAIN files' = DOMAIN files /\ TextsAreTexts'
    BY <2>5 DEF IInv, TextsAreTexts
  <2>7. meta' = meta /\ version' = version
    BY <1>2 DEF EditFile
  <2>8. prompt # NotAsked => AskedAbout'
    BY <1>1, <2>6, <2>7 DEF IInv, AskedAbout, Path, Channel, Recorded, Stored
  <2> QED  BY <1>1, <2>6, <2>7, <2>8 DEF IInv
<1>3. CASE Upgrade \/ ChangeGit \/ WipeCache \/ SetGate \/ ChangeKey \/ Reindex
  <2>1. todo = <<>>
    BY <1>3 DEF Upgrade, ChangeGit, WipeCache, SetGate, ChangeKey, Reindex, Idle
  <2>2. prompt = NotAsked
    BY <2>1 DEF IInv, AskedAbout
  <2>3. files' = files /\ (version' = version \/ version' = version + 1)
    BY <1>3 DEF Upgrade, ChangeGit, WipeCache, SetGate, ChangeKey, Reindex, project
  <2>4. Ours(meta'.hashes)
    BY <1>3 DEF Upgrade, ChangeGit, WipeCache, SetGate, ChangeKey, Reindex, project, IInv, Ours
  <2> QED  BY <1>1, <2>2, <2>3, <2>4 DEF IInv, TextsAreTexts
<1> QED  BY <1>2, <1>3

\* Every step keeps the invariant, and the user's text is spared by those of a run.
LEMMA EveryStep ==
  ASSUME IInv, [Next]_vars
  PROVE  IInv' /\ (RunStep => Spares)
<1>1. CASE AppendTemplateSection
  BY <1>1, SectionStep
<1>2. CASE WriteTemplateFile
  BY <1>2, TemplateFileStep
<1>3. CASE WriteForkBlock
  BY <1>3, ForkBlockStep
<1>4. CASE WriteForkSkill
  BY <1>4, ForkSkillStep
<1>5. CASE SyncLatHooks
  BY <1>5, HooksStep
<1>6. CASE RegisterMcpServer
  BY <1>6, McpStep
<1>7. CASE \/ StartRun \/ CreateTree \/ WriteForkScaffold \/ SetupEmbeddings \/ ChooseAgents
           \/ OfferRequireMode \/ EnsureGitignored \/ WriteInitMeta \/ Cut
  BY <1>7, QuietSteps
<1>8. CASE EditFile \/ Upgrade \/ ChangeGit \/ WipeCache \/ SetGate \/ ChangeKey \/ Reindex
  BY <1>8, UserSteps DEF RunStep
<1>10. CASE CutWhileWriting
  BY <1>10, TruncatedStep
<1>9. CASE UNCHANGED vars
  <2>1. todo' = todo /\ prompt' = prompt /\ fresh' = fresh /\ files' = files /\ meta' = meta /\ version' = version
    BY <1>9 DEF vars, project, run
  <2>2. AskedAbout => AskedAbout'
    BY <2>1 DEF AskedAbout, Path, Channel, Recorded, Stored
  <2> QED  BY <2>1, <2>2 DEF IInv, TextsAreTexts, RunStep
<1> QED  BY <1>1, <1>2, <1>3, <1>4, <1>5, <1>6, <1>7, <1>8, <1>9, <1>10 DEF Next

\* For any agents, versions and numbers of runs, cuts and events: a step of `lat init`
\* takes the user's text out of a file only after a yes, from inside the section it
\* asked about, or in the exceptions that MayLose names.
THEOREM UsersTextSurvives == Spec => EditsSurvive
<1>1. IInv /\ [Next]_vars => IInv'
  BY EveryStep
<1>2. IInv /\ [Next]_vars => [RunStep => Spares]_vars
  BY EveryStep
<1> QED  BY InitIsSound, <1>1, <1>2, PTL DEF Spec, EditsSurvive

-----------------------------------------------------------------------------
(***************************************************************************)
(* A hosted backend: the user has chosen it with a key, and what unpins    *)
(* it is the user's.                                                       *)
(***************************************************************************)
HostedInv ==
  /\ key \in Keys \cup {"none"}
  /\ hosted => key # "none"
  /\ WorkingHostedIsKept

\* Every step keeps the invariant about a hosted backend.
LEMMA HostedStays ==
  ASSUME HostedInv, [Next]_vars
  PROVE  HostedInv'
<1>1. key # "local" /\ (hosted => key # "none")
  BY KeysAssumption DEF HostedInv
<1>2. CASE SetupEmbeddings
  <2>1. key' = key
    BY <1>2 DEF SetupEmbeddings
  <2>2. PICK usable \in {key, "none"}, stored \in {index, "none"} :
          IF usable # "none" /\ tty THEN ChooseBackend(stored)
          ELSE IF ConfigureDefault /\ ~WorkingHosted(usable, stored)
          THEN /\ pinned' = TRUE /\ Reindexed("local", stored)
               /\ hosted' = (hosted /\ usable = key /\ stored = index)
          ELSE /\ UNCHANGED <<pinned, hosted>>
               /\ IF pinned THEN Reindexed("local", stored) ELSE UNCHANGED index
    BY <1>2 DEF SetupEmbeddings
  <2>3. CASE usable # "none" /\ tty
    <3>1. ChooseBackend(stored) /\ key # "none"
      BY <2>2, <2>3
    <3> QED  BY <2>1, <3>1 DEF ChooseBackend, HostedInv, WorkingHostedIsKept
  <2>4. CASE ~(usable # "none" /\ tty) /\ ConfigureDefault /\ ~WorkingHosted(usable, stored)
    <3>1. pinned' = TRUE /\ Reindexed("local", stored) /\ hosted' = (hosted /\ usable = key /\ stored = index)
      BY <2>2, <2>4
    <3>2. hosted' => hosted /\ (index' = index \/ index' = "local")
      BY <3>1 DEF Reindexed
    <3>3. hosted' => ~(hosted /\ index = key)
      BY <1>1, <2>4, <3>1 DEF HostedInv, WorkingHostedIsKept, WorkingHosted, ExistingBackend
    <3> QED  BY <1>1, <2>1, <3>1, <3>2, <3>3 DEF HostedInv, WorkingHostedIsKept
  <2>5. CASE ~(usable # "none" /\ tty) /\ ~(ConfigureDefault /\ ~WorkingHosted(usable, stored))
    <3>1. pinned' = pinned /\ hosted' = hosted /\ (index' = index \/ Reindexed("local", stored))
      BY <2>2, <2>5
    <3>2. index' = index \/ index' = "local"
      BY <3>1 DEF Reindexed
    <3> QED  BY <1>1, <2>1, <3>1, <3>2 DEF HostedInv, WorkingHostedIsKept
  <2> QED  BY <2>3, <2>4, <2>5
<1>3. CASE ChangeKey
  BY <1>3 DEF ChangeKey, HostedInv, WorkingHostedIsKept
<1>4. CASE Reindex
  <2>1. PICK option \in {"local", "remote", "none"}, rejected \in BOOLEAN :
          LET local == option = "local" \/ (pinned /\ option # "remote") \/ key = "none"
              backendOf == IF local \/ rejected THEN "local" ELSE key
          IN /\ (option = "remote" => key # "none") /\ (rejected => ~local)
             /\ pinned' = (backendOf = "local")
             /\ index' \in {index, backendOf}
             /\ hosted' = IF option = "none" /\ ~rejected THEN hosted ELSE backendOf # "local"
    BY <1>4 DEF Reindex
  <2>2. key' = key
    BY <1>4 DEF Reindex
  <2> QED  BY <1>1, <2>1, <2>2 DEF HostedInv, WorkingHostedIsKept
<1>5. CASE WipeCache
  BY <1>1, <1>5 DEF WipeCache, HostedInv, WorkingHostedIsKept
<1>6. CASE \/ StartRun \/ CreateTree \/ WriteForkScaffold \/ ChooseAgents \/ OfferRequireMode
           \/ AppendTemplateSection \/ WriteTemplateFile \/ WriteForkBlock \/ WriteForkSkill
           \/ SyncLatHooks \/ RegisterMcpServer \/ EnsureGitignored \/ WriteInitMeta \/ Cut \/ CutWhileWriting
           \/ EditFile \/ Upgrade \/ ChangeGit \/ SetGate \/ UNCHANGED vars
  <2>1. UNCHANGED <<backend, hosted>>
    BY <1>6 DEF StartRun, CreateTree, WriteForkScaffold, ChooseAgents, OfferRequireMode,
                AppendTemplateSection, WriteTemplateFile, WriteForkBlock, WriteForkSkill, SyncLatHooks,
                RegisterMcpServer, EnsureGitignored, WriteInitMeta, Cut, CutWhileWriting, Ends, EditFile, Upgrade, ChangeGit, SetGate,
                Untouched, vars, history
  <2> QED  BY <2>1 DEF backend, HostedInv, WorkingHostedIsKept
<1> QED  BY <1>2, <1>3, <1>4, <1>5, <1>6 DEF Next

(***************************************************************************)
(* The gate of a tree: its listing is written when its directories are     *)
(* there, whatever they began with.                                        *)
(***************************************************************************)
Op(i) == todo[i].op
\* The steps that make the tree.
Building == {"mkdir", "copy", "modeDir", "listModes"}

GateInv ==
  /\ dirs \in 0..ModeCount
  /\ ~tree => gate = "none" /\ (todo # <<>> => Op(1) = "mkdir")
  /\ \A i \in DOMAIN todo : Op(i) = "mkdir" => i = 1 /\ ~tree
  /\ \A i \in DOMAIN todo : Op(i) = "listModes" =>
       /\ i - 1 >= ModeCount - dirs
       /\ \A j \in 1..(i - 1) : Op(j) \in Building \ {"listModes"}
       /\ \A j \in (i - (ModeCount - dirs))..(i - 1) : Op(j) = "modeDir"
  /\ gate = "on" /\ by # "user" =>
       \/ dirs = ModeCount /\ listed
       \/ cutOffer
       \/ by = "offer" /\ \E i \in DOMAIN todo :
            Op(i) = "listModes" /\ \A j \in 1..(i - 1) : Op(j) = "modeDir"

(***************************************************************************)
(* The kinds of files.                                                     *)
(***************************************************************************)
SharedPaths == {"AGENTS.md", "GEMINI.md", ".github/copilot-instructions.md"}
HookPaths == {".claude/settings.json", ".codex/hooks.json"}
McpPaths == {".mcp.json", ".cursor/mcp.json", ".vscode/mcp.json", ".codex/config.toml"}
SkillFiles == {SkillFile(skill) : skill \in SkillRoots}
WholePaths ==
  SkillRoots \cup SkillFiles \cup
  {".agents/hooks.json", ".cursor/rules/lat.md", ".cursor/hooks.json", ".opencode/plugins/lat.ts",
   ".pi/extensions/lat.ts"}
\* The steps that write files of the agents.
Writing == {"section", "block", "template", "merged", "conventions", "hooks", "mcp"}
\* A step works on a file of its kind.
Typed(s) ==
  /\ s.op \in {"section", "block"} => s.path \in SharedPaths
  /\ s.op = "template" => s.path \in WholePaths \ {".agents/hooks.json"} /\ (s.path \in SkillFiles => s.path = SkillFile(".agents/skills/lat-md"))
  /\ s.op = "hooks" => s.path \in HookPaths
  /\ s.op = "mcp" => s.path \in McpPaths

Rng(seq) == {seq[i] : i \in DOMAIN seq}

(***************************************************************************)
(* The accounts: whatever template stands in a file of lat's is known by   *)
(* its hash, or noted as not recorded, wherever in the file it stands and  *)
(* whatever the user has done to the markers around it.                    *)
(***************************************************************************)
TemplatesIn(text, c) == {text[i] : i \in {j \in DOMAIN text : text[j][1] = c}}

\* The hashes of sections are of templates alone, never of the user's text.
RecordedArePristine(hashes) ==
  \A p \in SharedPaths, c \in Channels :
    HashKey(p, c) \in DOMAIN hashes => Pristine(hashes[HashKey(p, c)], c)

\* A template in a shared file is the one recorded, or it is noted as not recorded,
\* and it is the one that the run has in hand to record.
SharedAccounted ==
  \A p \in (SharedPaths \cap DOMAIN files) \ doubled, c \in Channels : \A t \in TemplatesIn(files[p], c) :
    /\ Recorded(HashKey(p, c), <<t>>) \/ HashKey(p, c) \in unrecorded
    /\ HashKey(p, c) \in DOMAIN fresh => fresh[HashKey(p, c)] = <<t>>

\* The same for a file of its own, unless the user has written in it; it has no markers.
WholeAccounted ==
  \A p \in WholePaths \cap DOMAIN files :
    /\ \A i \in DOMAIN files[p] : files[p][i][1] \notin {"begin", "end"}
    /\ UsersIn(files[p]) = 0 =>
         /\ Recorded(HashKey(p, "lat"), files[p]) \/ HashKey(p, "lat") \in unrecorded
         /\ HashKey(p, "lat") \in DOMAIN fresh => fresh[HashKey(p, "lat")] = files[p]

\* But for the files noted, no file has two templates of one channel.
OneOfAChannel == \A p \in (SharedPaths \cap DOMAIN files) \ doubled : ~TwoOfAChannel(files[p])

\* What the version that runs makes of a file of its own.
Wanted(p) ==
  IF p = ".agents/hooks.json" THEN MergedHooks(p)
  ELSE <<Template(IF p \in SkillFiles THEN "fork" ELSE "lat", version)>>

\* What the run has in hand to record is of the version that runs, and is in the file.
FreshIsCurrent ==
  /\ \A p \in SharedPaths, c \in Channels : HashKey(p, c) \in DOMAIN fresh =>
       fresh[HashKey(p, c)] = <<Template(c, version)>> \/ (c = "lat" /\ p \in migrated)
  /\ settled # Disturbed => \A p \in WholePaths : HashKey(p, "lat") \in DOMAIN fresh =>
       p \in DOMAIN files /\ fresh[HashKey(p, "lat")] = files[p] /\ files[p] = Wanted(p)

\* While a question is open only the user's pieces of the file may change.
PromptIsOfFile ==
  prompt # NotAsked => \A c \in Channels : TemplatesIn(prompt[1], c) = TemplatesIn(files[Path], c)
\* In the step that asks, the question is about the file as it is.
AskedNow == answer = "asked" => prompt # NotAsked /\ prompt = <<files[Path]>>
\* What the question proposes differs from what it is about.
Merged(text) == Keep(text, {User, Mixed}) \o <<Template("lat", version)>>
AskedDiffers ==
  prompt # NotAsked =>
    /\ Op(1) \in {"section", "block"} => Section(prompt[1], Channel) # <<Template(Channel, version)>>
    /\ Op(1) = "template" => prompt[1] # TemplateOf(Path)
    /\ Op(1) = "merged" => prompt[1] # Merged(prompt[1])

Accounts ==
  /\ version \in 1..Versions /\ files = [p \in DOMAIN files |-> files[p]]
  /\ RecordedArePristine(meta.hashes) /\ RecordedArePristine(fresh)
  /\ OneOfAChannel /\ SharedAccounted /\ WholeAccounted /\ FreshIsCurrent
Prompts == PromptIsOfFile /\ AskedNow /\ AskedDiffers
AccountInv == Accounts /\ Prompts

-----------------------------------------------------------------------------
(***************************************************************************)
(* What a run leaves behind: a step is done when the next run, with these  *)
(* hashes and notes, would find nothing to write for it without asking.    *)
(***************************************************************************)
Knows(hashes, h, text) == h \in DOMAIN hashes /\ hashes[h] = text
\* A file with its markers the wrong way round, which is given a section each time.
EndFirst(text, c) == At(text, End(c)) > 0 /\ At(text, End(c)) < At(text, Begin(c))

\* A section, and a file of its own, as a run of version v leaves them.
SectionLeft(text, c, v, hashes, h, loose, twice) ==
  \/ /\ HasSection(text, c)
     /\ \/ Section(text, c) = <<Template(c, v)>>
        \/ /\ ~Knows(hashes, h, Section(text, c))
           /\ c = "fork" => h \in DOMAIN hashes
           /\ Pristine(Section(text, c), c) => twice \/ h \in loose
  \/ EndFirst(text, c)

SectionDone(p, c, hashes, loose) ==
  /\ p \in DOMAIN files
  /\ \/ c = "lat" /\ p \in migrated
     \/ SectionLeft(files[p], c, version, hashes, HashKey(p, c), loose, p \in doubled)

\* A file of its own is what is wanted, or the user's, or was not recorded.
WholeLeft(text, wanted, hashes, h, loose) ==
  \/ text = wanted
  \/ ~Knows(hashes, h, text) /\ (UsersIn(text) > 0 \/ h \in loose)
WholeDone(p, hashes, loose) ==
  p \in DOMAIN files /\ WholeLeft(files[p], Wanted(p), hashes, HashKey(p, "lat"), loose)

\* The conventions skill is what is wanted, or another text than the recorded one.
SkillLeft(text, wanted, hashes, h) == text = wanted \/ (h \in DOMAIN hashes /\ ~Knows(hashes, h, text))

Done(s, hashes, loose) ==
  LET p == s.path IN
  /\ s.op = "section" => SectionDone(p, "lat", hashes, loose)
  /\ s.op = "block" => SectionDone(p, "fork", hashes, loose)
  /\ s.op \in {"template", "merged"} => WholeDone(p, hashes, loose)
  /\ s.op = "conventions" =>
       /\ SkillFile(p) \in DOMAIN files
       /\ SkillLeft(files[SkillFile(p)], Wanted(SkillFile(p)), hashes, HashKey(SkillFile(p), "lat"))
  /\ s.op = "hooks" => p \in DOMAIN files /\ files[p] = Keep(files[p], {User}) \o <<Template("lat", version)>>
  /\ s.op = "mcp" => p \in DOMAIN files /\ \E v \in 0..Versions : Contains(files[p], Template("lat", v))
  /\ s.op = "ignore" => IgnoreIsDone(p)

\* The hashes that a run will have stored, and the notes that will be left then.
Known == Override(meta.hashes, fresh)
Loose == unrecorded \ DOMAIN fresh
\* The steps for these agents, with the files that are there now.
Plan(sel) == Rng(AgentPlan(sel, DOMAIN files))

\* The list of steps: of the right kinds, the fork's after lat's own and the hashes last,
\* and each writing step is one of the plan for the agents chosen.
ListInv ==
  /\ \A i \in DOMAIN todo : Typed(todo[i])
  /\ \A i \in DOMAIN todo : Op(i) \in {"agents", "meta"} <=> i = Len(todo)
  /\ selected \in Selections \cup {{}}
  /\ selected = {} => fresh = << >>
  /\ selected # {} => todo # <<>> /\ Op(Len(todo)) = "meta"
  /\ \A i \in DOMAIN todo : Op(i) \in Writing => selected # {} /\ todo[i] \in Plan(selected)
  /\ settled \in {Nobody, Disturbed} \cup Selections \cup {{}}
  /\ selected # {} => settled \in {Nobody, Disturbed, selected}
  /\ \A i, j \in DOMAIN todo : i < j /\ Op(i) \in {"block", "conventions"} =>
       Op(j) \notin {"section", "template", "merged", "hooks", "mcp"}
  /\ settled # Disturbed /\ prompt # NotAsked => prompt = <<files[Path]>>

\* Of the plan of a run, what is not on its list any more is done.
RunInv ==
  selected # {} /\ settled # Disturbed =>
    \A s \in Plan(selected) : s \in Rng(todo) \/ Done(s, Known, Loose)

\* Of the plan of the last complete run, everything is done, and its version is stamped.
SettledInv ==
  settled \notin {Nobody, Disturbed, {}} =>
    meta.version = version /\ \A s \in Plan(settled) : Done(s, meta.hashes, unrecorded)

-----------------------------------------------------------------------------
\* The rest of a sequence of steps.
LEMMA Shifted ==
  ASSUME NEW seq \in Seq(Steps), seq # <<>>
  PROVE  /\ Len(seq) \in Nat \ {0} /\ DOMAIN seq = 1..Len(seq)
         /\ Tail(seq) \in Seq(Steps) /\ Len(Tail(seq)) = Len(seq) - 1 /\ DOMAIN Tail(seq) = 1..(Len(seq) - 1)
         /\ \A i \in 1..(Len(seq) - 1) : Tail(seq)[i] = seq[i + 1]
OBVIOUS

\* Two sequences of steps, one after the other.
LEMMA StepsJoined ==
  ASSUME NEW s \in Seq(Steps), NEW t \in Seq(Steps)
  PROVE  /\ s \o t \in Seq(Steps) /\ Len(s) \in Nat /\ Len(t) \in Nat
         /\ Len(s \o t) = Len(s) + Len(t)
         /\ DOMAIN (s \o t) = 1..(Len(s) + Len(t))
         /\ \A i \in 1..(Len(s) + Len(t)) : (s \o t)[i] = IF i <= Len(s) THEN s[i] ELSE t[i - Len(s)]
OBVIOUS

\* The steps before the choice make the modes' directories, then list the modes.
LEMMA ScaffoldIs ==
  /\ ScaffoldSteps \in Seq(Steps) /\ Len(ScaffoldSteps) = ModeCount + 1 /\ ModeCount \in Nat
  /\ \A i \in 1..ModeCount : ScaffoldSteps[i].op = "modeDir"
  /\ ScaffoldSteps[ModeCount + 1].op = "listModes"
<1> DEFINE step == Step("modeDir", "")
           first == [i \in 1..ModeCount |-> step]
           last == << Step("listModes", "") >>
<1>1. ModeCount \in Nat /\ step \in Steps /\ step.op = "modeDir" /\ last \in Seq(Steps) /\ last[1].op = "listModes"
      /\ Len(last) = 1
  BY BoundsAssumption, StepIsStep DEF Ops, ProjectPaths, Step
<1> HIDE DEF step, last
<1>2. first \in Seq(Steps) /\ Len(first) = ModeCount /\ \A i \in 1..ModeCount : first[i].op = "modeDir"
  BY <1>1
<1>3. ScaffoldSteps = first \o last
  BY DEF ScaffoldSteps, step, last
<1> HIDE DEF first
<1>4. /\ Len(first \o last) = Len(first) + Len(last)
      /\ \A i \in 1..(Len(first) + Len(last)) :
           (first \o last)[i] = IF i <= Len(first) THEN first[i] ELSE last[i - Len(first)]
  BY <1>1, <1>2, StepsJoined
<1>5. \A i \in 1..ModeCount : (first \o last)[i] = first[i]
  BY <1>1, <1>2, <1>4
<1>6. (first \o last)[ModeCount + 1] = last[1]
  BY <1>1, <1>2, <1>4
<1> QED  BY <1>1, <1>2, <1>3, <1>4, <1>5, <1>6, ScaffoldIsSteps

\* Steps that take the first of the list and touch neither the tree nor the gate.
LEMMA GateOfOtherSteps ==
  ASSUME IInv, GateInv, todo # <<>>, Op(1) \notin {"mkdir", "modeDir", "listModes"},
         todo' = Tail(todo), UNCHANGED <<tree, gate, by, dirs, listed, cutOffer>>
  PROVE  GateInv'
<1>1. todo \in Seq(Steps) /\ ModeCount \in Nat /\ dirs \in 0..ModeCount
  BY BoundsAssumption DEF IInv, GateInv
<1>2. /\ Len(todo) \in Nat \ {0} /\ DOMAIN todo = 1..Len(todo)
      /\ DOMAIN todo' = 1..(Len(todo) - 1) /\ \A i \in 1..(Len(todo) - 1) : (Op(i))' = Op(i + 1)
  BY <1>1, Shifted DEF Op
<1>3. tree
  BY <1>2 DEF GateInv
<1>4. \A i \in DOMAIN todo' : (Op(i))' # "mkdir"
  BY <1>2, <1>3 DEF GateInv
<1>5. ASSUME NEW i \in DOMAIN todo', (Op(i))' = "listModes"
      PROVE  /\ i - 1 >= ModeCount - dirs
             /\ \A j \in 1..(i - 1) : (Op(j))' \in Building \ {"listModes"}
             /\ \A j \in (i - (ModeCount - dirs))..(i - 1) : (Op(j))' = "modeDir"
  <2>1. i + 1 \in DOMAIN todo /\ Op(i + 1) = "listModes" /\ i \in Nat /\ i >= 1
    BY <1>2, <1>5
  <2>2. /\ (i + 1) - 1 >= ModeCount - dirs
        /\ \A j \in 1..((i + 1) - 1) : Op(j) \in Building \ {"listModes"}
        /\ \A j \in ((i + 1) - (ModeCount - dirs))..((i + 1) - 1) : Op(j) = "modeDir"
    BY <2>1 DEF GateInv
  <2>3. ~(1 \in ((i + 1) - (ModeCount - dirs))..((i + 1) - 1))
    BY <2>2
  <2>4. i - 1 >= ModeCount - dirs
    BY <1>1, <2>1, <2>2, <2>3
  <2>5. \A j \in 1..(i - 1) : (Op(j))' = Op(j + 1) /\ j + 1 \in 1..((i + 1) - 1)
    BY <1>2, <2>1
  <2>6. \A j \in (i - (ModeCount - dirs))..(i - 1) :
          /\ j \in 1..(i - 1) /\ j + 1 \in ((i + 1) - (ModeCount - dirs))..((i + 1) - 1)
    BY <1>1, <2>1, <2>4
  <2> QED  BY <2>2, <2>4, <2>5, <2>6
<1>6. ASSUME gate = "on", by # "user"
      PROVE  \/ dirs = ModeCount /\ listed
             \/ cutOffer
             \/ by = "offer" /\ \E i \in DOMAIN todo' :
                  (Op(i))' = "listModes" /\ \A j \in 1..(i - 1) : (Op(j))' = "modeDir"
  <2>1. CASE by = "offer" /\ \E i \in DOMAIN todo : Op(i) = "listModes" /\ \A j \in 1..(i - 1) : Op(j) = "modeDir"
    <3>1. PICK i \in DOMAIN todo : Op(i) = "listModes" /\ \A j \in 1..(i - 1) : Op(j) = "modeDir"
      BY <2>1
    <3>2. i \in Nat /\ i >= 1
      BY <1>2
    <3>3. i # 1 /\ ~(1 \in 1..(i - 1))
      BY <3>1
    <3> QED  BY <3>2, <3>3
  <2> QED  BY <1>6, <2>1 DEF GateInv
<1> QED  BY <1>1, <1>3, <1>4, <1>5, <1>6 DEF GateInv

\* The steps that build the tree and its mode directories.
LEMMA GateOfBuilding ==
  ASSUME IInv, GateInv, CreateTree \/ WriteForkScaffold
  PROVE  GateInv'
<1>1. todo \in Seq(Steps) /\ ModeCount \in Nat /\ dirs \in 0..ModeCount
  BY BoundsAssumption DEF IInv, GateInv
<1>2. todo # <<>> /\ todo' = Tail(todo) /\ cutOffer' = cutOffer
  BY DEF CreateTree, WriteForkScaffold, Doing, modeNotes
<1>3. /\ Len(todo) \in Nat \ {0} /\ DOMAIN todo = 1..Len(todo)
      /\ DOMAIN todo' = 1..(Len(todo) - 1) /\ \A i \in 1..(Len(todo) - 1) : (Op(i))' = Op(i + 1)
  BY <1>1, <1>2, Shifted DEF Op
<1>4. \A i \in DOMAIN todo' : (Op(i))' # "mkdir"
  BY <1>3 DEF GateInv
<1>5. dirs' \in {dirs, dirs + 1} /\ dirs' \in 0..ModeCount /\ (dirs' # dirs => Op(1) = "modeDir")
      /\ (Op(1) = "modeDir" => dirs' = IF dirs < ModeCount THEN dirs + 1 ELSE dirs)
  BY <1>1 DEF CreateTree, WriteForkScaffold, Doing, Op
<1>6. tree'
  <2>1. CASE Op(1) = "mkdir"
    BY <2>1 DEF CreateTree, WriteForkScaffold, Doing, Op
  <2>2. CASE Op(1) # "mkdir"
    <3>1. tree /\ tree' = tree
      BY <1>2, <2>2 DEF CreateTree, WriteForkScaffold, Doing, Op, GateInv
    <3> QED  BY <3>1
  <2> QED  BY <2>1, <2>2
<1>7. ASSUME NEW i \in DOMAIN todo', (Op(i))' = "listModes"
      PROVE  /\ i - 1 >= ModeCount - dirs'
             /\ \A j \in 1..(i - 1) : (Op(j))' \in Building \ {"listModes"}
             /\ \A j \in (i - (ModeCount - dirs'))..(i - 1) : (Op(j))' = "modeDir"
  <2>1. i + 1 \in DOMAIN todo /\ Op(i + 1) = "listModes" /\ i \in Nat /\ i >= 1
    BY <1>3, <1>7
  <2>2. /\ (i + 1) - 1 >= ModeCount - dirs
        /\ \A j \in 1..((i + 1) - 1) : Op(j) \in Building \ {"listModes"}
        /\ \A j \in ((i + 1) - (ModeCount - dirs))..((i + 1) - 1) : Op(j) = "modeDir"
    BY <2>1 DEF GateInv
  <2>3. i - 1 >= ModeCount - dirs'
    <3>1. CASE Op(1) = "modeDir"
      BY <1>1, <1>5, <2>1, <2>2, <3>1
    <3>2. CASE Op(1) # "modeDir"
      <4>1. dirs' = dirs /\ ~(1 \in ((i + 1) - (ModeCount - dirs))..((i + 1) - 1))
        BY <1>5, <2>2, <3>2
      <4> QED  BY <1>1, <2>1, <2>2, <4>1
    <3> QED  BY <3>1, <3>2
  <2>4. \A j \in 1..(i - 1) : (Op(j))' = Op(j + 1) /\ j + 1 \in 1..((i + 1) - 1)
    BY <1>3, <2>1
  <2>5. \A j \in (i - (ModeCount - dirs'))..(i - 1) :
          /\ j \in 1..(i - 1) /\ j + 1 \in ((i + 1) - (ModeCount - dirs))..((i + 1) - 1)
    <3>1. dirs' \in Nat /\ dirs \in Nat /\ dirs <= dirs' /\ i \in Nat
      BY <1>1, <1>5, <2>1
    <3>2. i - (ModeCount - dirs') >= 1 /\ (i + 1) - (ModeCount - dirs) <= (i - (ModeCount - dirs')) + 1
      BY <1>1, <2>3, <3>1
    <3>3. i - (ModeCount - dirs') \in Int /\ (i + 1) - (ModeCount - dirs) \in Int
      BY <1>1, <3>1
    <3> QED  BY <3>1, <3>2, <3>3
  <2> QED  BY <2>2, <2>3, <2>4, <2>5
<1>8. ASSUME gate' = "on", by' # "user"
      PROVE  \/ dirs' = ModeCount /\ listed'
             \/ cutOffer'
             \/ by' = "offer" /\ \E i \in DOMAIN todo' :
                  (Op(i))' = "listModes" /\ \A j \in 1..(i - 1) : (Op(j))' = "modeDir"
  <2>1. CASE Op(1) = "mkdir"
    <3>1. gate' = gate /\ ~tree
      BY <1>2, <1>3, <2>1 DEF CreateTree, WriteForkScaffold, Doing, Op, GateInv
    <3> QED  BY <1>8, <3>1 DEF GateInv
  <2>2. CASE Op(1) = "copy"
    BY <1>8, <2>2 DEF CreateTree, WriteForkScaffold, Doing, Op
  <2>3. CASE Op(1) = "listModes"
    <3>1. 1 - 1 >= ModeCount - dirs /\ dirs' = dirs /\ listed'
      BY <1>3, <2>3 DEF CreateTree, WriteForkScaffold, Doing, Op, GateInv
    <3> QED  BY <1>1, <3>1
  <2>4. CASE Op(1) = "modeDir"
    <3>1. gate' = gate /\ by' = by /\ listed' = listed
      BY <2>4 DEF CreateTree, WriteForkScaffold, Doing, Op, modeNotes
    <3>2. CASE dirs = ModeCount /\ listed
      BY <1>5, <2>4, <3>1, <3>2
    <3>3. CASE by = "offer" /\ \E i \in DOMAIN todo : Op(i) = "listModes" /\ \A j \in 1..(i - 1) : Op(j) = "modeDir"
      <4>1. PICK i \in DOMAIN todo : Op(i) = "listModes" /\ \A j \in 1..(i - 1) : Op(j) = "modeDir"
        BY <3>3
      <4>2. i - 1 \in DOMAIN todo' /\ (Op(i - 1))' = "listModes" /\ i \in Nat
        <5>1. i # 1 /\ i \in Nat /\ i - 1 \in 1..(Len(todo) - 1) /\ (i - 1) + 1 = i
          BY <1>3, <2>4, <4>1
        <5> QED  BY <1>3, <4>1, <5>1
      <4>3. \A j \in 1..((i - 1) - 1) : (Op(j))' = Op(j + 1) /\ j + 1 \in 1..(i - 1)
        BY <1>3, <4>2
      <4>4. \A j \in 1..((i - 1) - 1) : (Op(j))' = "modeDir"
        BY <4>1, <4>3
      <4> QED  BY <3>1, <3>3, <4>2, <4>4
    <3> QED  BY <1>2, <1>8, <3>1, <3>2, <3>3 DEF GateInv
  <2> QED  BY <2>1, <2>2, <2>3, <2>4 DEF CreateTree, WriteForkScaffold, Doing, Op
<1> QED  BY <1>4, <1>5, <1>6, <1>7, <1>8 DEF GateInv

\* The question whether a mode is required keeps what holds of the gate.
LEMMA GateOfOffer ==
  ASSUME IInv, GateInv, OfferRequireMode
  PROVE  GateInv'
<1>1. todo \in Seq(Steps) /\ ModeCount \in Nat /\ dirs \in 0..ModeCount /\ todo # <<>> /\ Op(1) = "offer"
      /\ UNCHANGED <<tree, listed, dirs, cutOffer>>
  BY BoundsAssumption DEF IInv, GateInv, OfferRequireMode, Op
<1>2. CASE todo' = Tail(todo) /\ UNCHANGED <<gate, by>>
  BY <1>1, <1>2, GateOfOtherSteps
<1>3. CASE gate' = "on" /\ by' = "offer" /\ todo' = ScaffoldSteps \o Tail(todo)
  <2>1. /\ Len(todo) \in Nat \ {0} /\ DOMAIN todo = 1..Len(todo)
        /\ Tail(todo) \in Seq(Steps) /\ Len(Tail(todo)) = Len(todo) - 1
        /\ \A i \in 1..(Len(todo) - 1) : Tail(todo)[i] = todo[i + 1]
    BY <1>1, Shifted
  <2> DEFINE n == ModeCount + 1
             rest == Tail(todo)
             scaffold == ScaffoldSteps
  <2>2. /\ scaffold \in Seq(Steps) /\ Len(scaffold) = n /\ n \in Nat
        /\ \A i \in 1..ModeCount : scaffold[i].op = "modeDir"
        /\ scaffold[n].op = "listModes"
    BY ScaffoldIs
  <2> HIDE DEF scaffold, rest, n
  <2>3. /\ DOMAIN todo' = 1..(n + Len(rest)) /\ Len(rest) \in Nat
        /\ \A i \in 1..(n + Len(rest)) : todo'[i] = IF i <= n THEN scaffold[i] ELSE rest[i - n]
    <3>1. /\ DOMAIN (scaffold \o rest) = 1..(Len(scaffold) + Len(rest)) /\ Len(rest) \in Nat
          /\ \A i \in 1..(Len(scaffold) + Len(rest)) :
               (scaffold \o rest)[i] = IF i <= Len(scaffold) THEN scaffold[i] ELSE rest[i - Len(scaffold)]
      BY <2>1, <2>2, StepsJoined DEF rest
    <3> QED  BY <1>3, <2>2, <3>1 DEF scaffold, rest
  <2>4. tree
    BY <1>1 DEF GateInv
  <2>5. \A i \in 1..Len(rest) : rest[i].op \notin {"mkdir", "listModes"}
    <3>1. ASSUME NEW i \in 1..Len(rest)
          PROVE  rest[i].op \notin {"mkdir", "listModes"}
      <4>1. rest[i] = todo[i + 1] /\ i + 1 \in DOMAIN todo /\ i + 1 # 1 /\ 1 \in 1..((i + 1) - 1)
        BY <2>1 DEF rest
      <4>2. Op(i + 1) # "mkdir"
        BY <4>1 DEF GateInv
      <4>3. Op(i + 1) # "listModes"
        BY <1>1, <4>1 DEF GateInv, Building
      <4> QED  BY <4>1, <4>2, <4>3 DEF Op
    <3> QED  BY <3>1
  <2>6. \A i \in DOMAIN todo' : (Op(i))' # "mkdir" /\ ((Op(i))' = "listModes" => i = n)
    <3>1. ASSUME NEW i \in DOMAIN todo'
          PROVE  todo'[i].op # "mkdir" /\ (todo'[i].op = "listModes" => i = n)
      <4>1. CASE i <= n
        <5>1. todo'[i] = scaffold[i] /\ (i \in 1..ModeCount \/ i = n)
          BY <1>1, <2>3, <4>1 DEF n
        <5> QED  BY <2>2, <5>1
      <4>2. CASE ~(i <= n)
        <5>1. todo'[i] = rest[i - n] /\ i - n \in 1..Len(rest)
          BY <2>2, <2>3, <4>2
        <5> QED  BY <2>5, <5>1
      <4> QED  BY <4>1, <4>2
    <3> QED  BY <3>1 DEF Op
  <2>7. /\ n \in DOMAIN todo' /\ (Op(n))' = "listModes"
        /\ \A j \in 1..(n - 1) : (Op(j))' = "modeDir"
    <3>1. n \in DOMAIN todo' /\ todo'[n] = scaffold[n] /\ n - 1 = ModeCount
      BY <1>1, <2>2, <2>3 DEF n
    <3>2. \A j \in 1..(n - 1) : todo'[j] = scaffold[j]
      BY <2>2, <2>3
    <3> QED  BY <2>2, <3>1, <3>2 DEF Op
  <2>8. /\ n - 1 >= ModeCount - dirs' /\ dirs' \in 0..ModeCount
        /\ \A j \in 1..(n - 1) : (Op(j))' \in Building \ {"listModes"}
        /\ \A j \in (n - (ModeCount - dirs'))..(n - 1) : j \in 1..(n - 1)
    BY <1>1, <2>7 DEF n, Building
  <2> QED  BY <1>1, <1>3, <2>4, <2>6, <2>7, <2>8 DEF GateInv
<1> QED  BY <1>2, <1>3 DEF OfferRequireMode

\* A run that starts has the gate before it, or has nothing to ask.
LEMMA GateOfStart ==
  ASSUME IInv, GateInv, StartRun
  PROVE  GateInv'
<1>1. /\ ModeCount \in Nat /\ dirs \in 0..ModeCount /\ todo = <<>>
      /\ UNCHANGED <<tree, gate, listed, dirs, by, cutOffer>>
  BY BoundsAssumption DEF IInv, GateInv, StartRun, Idle, lat, modeNotes
<1> DEFINE tail == << Step("ignore", "config.local.yaml"), Step("ignore", ".lat-build"),
                      Step("embeddings", ""), Step("agents", "") >>
           head == << Step("mkdir", ""), Step("copy", "") >>
           scaffold == ScaffoldSteps
           first == IF tree THEN <<>> ELSE head \o scaffold
           n == ModeCount + 1
<1>2. /\ tail \in Seq(Steps) /\ head \in Seq(Steps) /\ << >> \in Seq(Steps)
      /\ Len(tail) = 4 /\ Len(head) = 2 /\ head[1].op = "mkdir" /\ head[2].op = "copy"
      /\ \A i \in 1..4 : tail[i].op \in {"ignore", "embeddings", "agents"}
  <2>1. /\ Step("ignore", "config.local.yaml") \in Steps /\ Step("ignore", ".lat-build") \in Steps
        /\ Step("embeddings", "") \in Steps /\ Step("agents", "") \in Steps
        /\ Step("mkdir", "") \in Steps /\ Step("copy", "") \in Steps
    BY StepIsStep DEF Ops, ProjectPaths
  <2>2. tail \in Seq(Steps) /\ head \in Seq(Steps) /\ << >> \in Seq(Steps)
    <3>1. << >> \in Seq(Steps)
      OBVIOUS
    <3> QED  BY <2>1, <3>1, FewSteps
  <2>3. Len(tail) = 4 /\ Len(head) = 2 /\ head[1] = Step("mkdir", "") /\ head[2] = Step("copy", "")
    OBVIOUS
  <2>4. /\ tail[1] = Step("ignore", "config.local.yaml") /\ tail[2] = Step("ignore", ".lat-build")
        /\ tail[3] = Step("embeddings", "") /\ tail[4] = Step("agents", "")
    OBVIOUS
  <2> HIDE DEF tail, head
  <2>5. \A op, file : Step(op, file).op = op
    BY DEF Step
  <2>6. \A i \in 1..4 : i = 1 \/ i = 2 \/ i = 3 \/ i = 4
    OBVIOUS
  <2>7. \A i \in 1..4 : tail[i].op \in {"ignore", "embeddings", "agents"}
    <3>1. tail[1].op = "ignore" /\ tail[2].op = "ignore" /\ tail[3].op = "embeddings" /\ tail[4].op = "agents"
      BY <2>4, <2>5
    <3> QED  BY <2>6, <3>1
  <2> QED  BY <2>2, <2>3, <2>5, <2>7
<1>3. /\ scaffold \in Seq(Steps) /\ Len(scaffold) = n /\ n \in Nat
      /\ \A i \in 1..ModeCount : scaffold[i].op = "modeDir"
      /\ scaffold[n].op = "listModes"
  BY ScaffoldIs
<1>4. todo' = first \o tail
  BY DEF StartRun
<1>5. \A j \in 1..n : scaffold[j].op = IF j = n THEN "listModes" ELSE "modeDir"
  <2>1. \A j \in 1..n : j \in 1..ModeCount \/ j = n
    BY <1>1
  <2> QED  BY <1>3, <2>1, <1>1
<1> HIDE DEF tail, head, scaffold, n
<1>6. CASE tree
  <2>1. todo' = tail
    BY <1>2, <1>4, <1>6
  <2>2. \A i \in DOMAIN todo' : (Op(i))' \in {"ignore", "embeddings", "agents"}
    BY <1>2, <2>1 DEF Op
  <2>3. ~(\E i \in DOMAIN todo : Op(i) = "listModes")
    BY <1>1
  <2> QED  BY <1>1, <1>6, <2>2, <2>3 DEF GateInv
<1>7. CASE ~tree
  <2>1. /\ first = head \o scaffold /\ first \in Seq(Steps) /\ Len(first) = 2 + n
        /\ \A i \in 1..(2 + n) : first[i] = IF i <= 2 THEN head[i] ELSE scaffold[i - 2]
    <3>1. /\ head \o scaffold \in Seq(Steps) /\ Len(head \o scaffold) = Len(head) + Len(scaffold)
          /\ \A i \in 1..(Len(head) + Len(scaffold)) :
               (head \o scaffold)[i] = IF i <= Len(head) THEN head[i] ELSE scaffold[i - Len(head)]
      BY <1>2, <1>3, StepsJoined
    <3> QED  BY <1>2, <1>3, <1>7, <3>1
  <2> HIDE DEF first
  <2>2. /\ DOMAIN todo' = 1..((2 + n) + 4)
        /\ \A i \in 1..((2 + n) + 4) : todo'[i] = IF i <= 2 + n THEN first[i] ELSE tail[i - (2 + n)]
    <3>1. /\ DOMAIN (first \o tail) = 1..(Len(first) + Len(tail))
          /\ \A i \in 1..(Len(first) + Len(tail)) :
               (first \o tail)[i] = IF i <= Len(first) THEN first[i] ELSE tail[i - Len(first)]
      BY <1>2, <2>1, StepsJoined
    <3> QED  BY <1>2, <1>4, <2>1, <3>1
  <2>3. \A i \in DOMAIN todo' : (Op(i))' =
          IF i = 1 THEN "mkdir" ELSE IF i = 2 THEN "copy"
          ELSE IF i <= 2 + n THEN (IF i = 2 + n THEN "listModes" ELSE "modeDir")
          ELSE tail[i - (2 + n)].op
    <3>1. ASSUME NEW i \in DOMAIN todo', i <= 2 + n
          PROVE  todo'[i].op = IF i = 1 THEN "mkdir" ELSE IF i = 2 THEN "copy"
                               ELSE IF i = 2 + n THEN "listModes" ELSE "modeDir"
      <4>1. todo'[i] = first[i] /\ i \in 1..(2 + n)
        BY <1>3, <2>2, <3>1
      <4>2. CASE i <= 2
        <5>1. i = 1 \/ i = 2
          BY <1>3, <4>1, <4>2
        <5> QED  BY <1>2, <2>1, <4>1, <4>2, <5>1
      <4>3. CASE ~(i <= 2)
        <5>1. i - 2 \in 1..n /\ (i - 2 = n <=> i = 2 + n) /\ i # 1 /\ i # 2
          BY <1>3, <4>1, <4>3
        <5> QED  BY <1>5, <2>1, <4>1, <4>3, <5>1
      <4> QED  BY <4>2, <4>3
    <3>2. ASSUME NEW i \in DOMAIN todo', ~(i <= 2 + n)
          PROVE  todo'[i].op = tail[i - (2 + n)].op /\ i # 1 /\ i # 2
      BY <1>3, <2>2, <3>2
    <3> QED  BY <3>1, <3>2 DEF Op
  <2>4. \A i \in DOMAIN todo' : ~(i <= 2 + n) => tail[i - (2 + n)].op \in {"ignore", "embeddings", "agents"}
    <3>1. \A i \in DOMAIN todo' : ~(i <= 2 + n) => i - (2 + n) \in 1..4
      BY <1>3, <2>2
    <3> QED  BY <1>2, <3>1
  <2>5. 1 \in DOMAIN todo' /\ 2 + n \in DOMAIN todo' /\ n = ModeCount + 1
    BY <1>1, <1>3, <2>2 DEF n
  <2>6. gate = "none"
    BY <1>7 DEF GateInv
  <2>7. \A i \in DOMAIN todo' : /\ ((Op(i))' = "mkdir" => i = 1)
                                /\ ((Op(i))' = "listModes" => i = 2 + n)
    BY <2>3, <2>4
  <2>8. \A j \in 1..((2 + n) - 1) :
          /\ (Op(j))' \in {"mkdir", "copy", "modeDir"} /\ (j > 2 => (Op(j))' = "modeDir")
    <3>1. \A j \in 1..((2 + n) - 1) : j \in DOMAIN todo' /\ j <= 2 + n /\ j # 2 + n
      BY <1>3, <2>2
    <3> QED  BY <2>3, <3>1
  <2>9. /\ (2 + n) - 1 >= ModeCount - dirs
        /\ \A j \in ((2 + n) - (ModeCount - dirs))..((2 + n) - 1) : j \in 1..((2 + n) - 1) /\ j > 2
    BY <1>1, <2>5
  <2>10. (Op(1))' = "mkdir"
    BY <2>3, <2>5
  <2> QED  BY <1>1, <1>7, <2>6, <2>7, <2>8, <2>9, <2>10 DEF GateInv, Building
<1> QED  BY <1>6, <1>7

-----------------------------------------------------------------------------
(***************************************************************************)
(* The plan of a run for these agents, when these files are there, as the  *)
(* set of its steps.                                                       *)
(***************************************************************************)
MainSteps(sel) == {Step("section", "AGENTS.md")} \cup UNION {Rng(Setup[agent]) : agent \in sel}
There(sel, exist) == exist \cup {s.path : s \in MainSteps(sel)}
Roots(there) == {r \in SkillRoots : r \in there \/ SkillFile(r) \in there}
ForkedSteps(sel, exist) ==
  {Step("block", p) : p \in SharedPaths \cap There(sel, exist)}
    \cup {Step("conventions", r) : r \in Roots(There(sel, exist))}

\* The steps of two lists, joined.
LEMMA RangeJoined ==
  ASSUME NEW s \in Seq(Steps), NEW t \in Seq(Steps)
  PROVE  Rng(s \o t) = Rng(s) \cup Rng(t)
<1>1. /\ Len(s) \in Nat /\ Len(t) \in Nat /\ DOMAIN s = 1..Len(s) /\ DOMAIN t = 1..Len(t)
      /\ DOMAIN (s \o t) = 1..(Len(s) + Len(t))
      /\ \A i \in 1..(Len(s) + Len(t)) : (s \o t)[i] = IF i <= Len(s) THEN s[i] ELSE t[i - Len(s)]
  BY StepsJoined
<1> DEFINE st == s \o t
<1> HIDE DEF st
<1>2. /\ DOMAIN st = 1..(Len(s) + Len(t))
      /\ \A i \in 1..(Len(s) + Len(t)) : st[i] = IF i <= Len(s) THEN s[i] ELSE t[i - Len(s)]
  BY <1>1 DEF st
<1>3. ASSUME NEW i \in DOMAIN st
      PROVE  st[i] \in Rng(s) \cup Rng(t)
  <2>1. CASE i <= Len(s)
    BY <1>1, <1>2, <2>1 DEF Rng
  <2>2. CASE ~(i <= Len(s))
    <3>1. i - Len(s) \in DOMAIN t
      BY <1>1, <1>2, <2>2
    <3> QED  BY <1>2, <2>2, <3>1 DEF Rng
  <2> QED  BY <2>1, <2>2
<1>4. ASSUME NEW i \in DOMAIN s
      PROVE  s[i] \in Rng(st)
  <2>1. i \in DOMAIN st /\ i <= Len(s)
    BY <1>1, <1>2
  <2> QED  BY <1>2, <2>1 DEF Rng
<1>5. ASSUME NEW i \in DOMAIN t
      PROVE  t[i] \in Rng(st)
  <2>1. i + Len(s) \in DOMAIN st /\ ~(i + Len(s) <= Len(s)) /\ (i + Len(s)) - Len(s) = i
    BY <1>1, <1>2
  <2>2. st[i + Len(s)] = t[i]
    BY <1>2, <2>1
  <2> QED  BY <2>1, <2>2 DEF Rng
<1>6. Rng(st) = Rng(s) \cup Rng(t)
  BY <1>3, <1>4, <1>5 DEF Rng
<1> QED  BY <1>6 DEF st

\* The steps under a condition.
LEMMA RangeOfWhen ==
  ASSUME NEW condition, NEW steps
  PROVE  /\ condition => Rng(When(condition, steps)) = Rng(steps)
         /\ ~condition => Rng(When(condition, steps)) = {}
<1>1. Rng(<<>>) = {}
  BY DEF Rng
<1> QED  BY <1>1 DEF When

\* The steps of a list of one.
LEMMA RangeOfOne ==
  ASSUME NEW s
  PROVE  Rng(<<s>>) = {s}
BY DEF Rng

MainOps == {"section", "template", "merged", "hooks", "mcp", "ignore"}

\* What the agents' own setups do.
LEMMA SetupIsTyped ==
  ASSUME NEW agent \in DOMAIN Setup
  PROVE  \A i \in DOMAIN Setup[agent] : Setup[agent][i].op \in MainOps /\ Typed(Setup[agent][i])
<1> DEFINE Fits(s) == \A i \in DOMAIN s : s[i].op \in MainOps /\ Typed(s[i])
<1>1. Fits(SetupClaudeCode)
  BY DEF SetupClaudeCode, Skill, Step, MainOps, Typed, SharedPaths, WholePaths, HookPaths, McpPaths, SkillRoots, SkillFiles, SkillFile
<1>2. Fits(SetupPi)
  BY DEF SetupPi, Skill, Step, MainOps, Typed, SharedPaths, WholePaths, HookPaths, McpPaths, SkillRoots, SkillFiles, SkillFile
<1>3. Fits(SetupCursor)
  BY DEF SetupCursor, Skill, Step, MainOps, Typed, SharedPaths, WholePaths, HookPaths, McpPaths, SkillRoots, SkillFiles, SkillFile
<1>4. Fits(SetupCopilot)
  BY DEF SetupCopilot, Skill, Step, MainOps, Typed, SharedPaths, WholePaths, HookPaths, McpPaths, SkillRoots, SkillFiles, SkillFile
<1>5. Fits(SetupOpenCode)
  BY DEF SetupOpenCode, Skill, Step, MainOps, Typed, SharedPaths, WholePaths, HookPaths, McpPaths, SkillRoots, SkillFiles, SkillFile
<1>6. Fits(SetupCodex)
  BY DEF SetupCodex, Skill, Step, MainOps, Typed, SharedPaths, WholePaths, HookPaths, McpPaths, SkillRoots, SkillFiles, SkillFile
<1>7. Fits(SetupAntigravity)
  BY DEF SetupAntigravity, Skill, Step, MainOps, Typed, SharedPaths, WholePaths, HookPaths, McpPaths, SkillRoots, SkillFiles, SkillFile
<1> HIDE DEF Fits
<1>8. Fits(Setup[agent])
  BY <1>1, <1>2, <1>3, <1>4, <1>5, <1>6, <1>7 DEF Setup
<1> QED  BY <1>8 DEF Fits

\* The steps for lat's own files.
LEMMA MainIsTyped ==
  ASSUME NEW sel \in SUBSET DOMAIN Setup, NEW s \in MainSteps(sel)
  PROVE  s.op \in MainOps /\ Typed(s)
<1>1. CASE s = Step("section", "AGENTS.md")
  BY <1>1 DEF Step, MainOps, Typed, SharedPaths
<1>2. ASSUME NEW agent \in sel, s \in Rng(Setup[agent])
      PROVE  s.op \in MainOps /\ Typed(s)
  BY <1>2, SetupIsTyped DEF Rng
<1> QED  BY <1>1, <1>2 DEF MainSteps

\* The fork's steps, and the files for which there is one.
LEMMA ForkedIsTyped ==
  ASSUME NEW sel, NEW exist, NEW s \in ForkedSteps(sel, exist)
  PROVE  /\ s.op \in {"block", "conventions"} /\ Typed(s)
         /\ s.op = "block" => s.path \in SharedPaths \cap There(sel, exist)
         /\ s.op = "conventions" => s.path \in Roots(There(sel, exist))
BY DEF ForkedSteps, Step, Typed, Roots

\* The agents that there are.
LEMMA AllAgents == DOMAIN Setup = {"claude", "pi", "cursor", "copilot", "opencode", "codex", "antigravity"}
BY DEF Setup

\* A plan is lat's own steps, the fork's, and the one that stores the hashes.
LEMMA PlanParts ==
  ASSUME NEW sel \in SUBSET DOMAIN Setup, NEW exist
  PROVE  \E plan, forks \in Seq(Steps) :
           /\ AgentPlan(sel, exist) = plan \o forks \o << Step("meta", "") >>
           /\ Rng(plan) = MainSteps(sel) /\ Rng(forks) = ForkedSteps(sel, exist)
<1> DEFINE Chosen(agent) == When(agent \in sel, Setup[agent])
           first == << Step("section", "AGENTS.md") >>
           plan == first \o Chosen("claude") \o Chosen("pi") \o Chosen("cursor") \o Chosen("copilot")
                     \o Chosen("opencode") \o Chosen("codex") \o Chosen("antigravity")
           forks == ForkSteps(plan, exist)
           last == << Step("meta", "") >>
<1>1. /\ Chosen("claude") \in Seq(Steps) /\ Chosen("pi") \in Seq(Steps) /\ Chosen("cursor") \in Seq(Steps)
      /\ Chosen("copilot") \in Seq(Steps) /\ Chosen("opencode") \in Seq(Steps)
      /\ Chosen("codex") \in Seq(Steps) /\ Chosen("antigravity") \in Seq(Steps)
  BY AllAgents, SetupIsSteps, WhenSteps
<1>2. first \in Seq(Steps) /\ Rng(first) = {Step("section", "AGENTS.md")}
  <2>1. first \in Seq(Steps)
    BY StepIsStep DEF Ops, ProjectPaths
  <2> QED  BY <2>1, RangeOfOne
<1>3. \A agent : Rng(Chosen(agent)) = IF agent \in sel THEN Rng(Setup[agent]) ELSE {}
  BY RangeOfWhen
<1> HIDE DEF Chosen, first
<1>4. /\ plan \in Seq(Steps)
      /\ Rng(plan) = Rng(first) \cup Rng(Chosen("claude")) \cup Rng(Chosen("pi")) \cup Rng(Chosen("cursor"))
           \cup Rng(Chosen("copilot")) \cup Rng(Chosen("opencode")) \cup Rng(Chosen("codex"))
           \cup Rng(Chosen("antigravity"))
  <2> DEFINE start == first \o Chosen("claude")
  <2>1. start \in Seq(Steps) /\ Rng(start) = Rng(first) \cup Rng(Chosen("claude"))
    BY <1>1, <1>2, StepsAppend, RangeJoined
  <2> HIDE DEF start
  <2>2. plan = start \o Chosen("pi") \o Chosen("cursor") \o Chosen("copilot")
                 \o Chosen("opencode") \o Chosen("codex") \o Chosen("antigravity")
    BY DEF start
  <2> HIDE DEF plan
  <2> DEFINE c2 == Chosen("pi")
             c3 == Chosen("cursor")
             c4 == Chosen("copilot")
             c5 == Chosen("opencode")
             c6 == Chosen("codex")
             c7 == Chosen("antigravity")
  <2>3. /\ c2 \in Seq(Steps) /\ c3 \in Seq(Steps) /\ c4 \in Seq(Steps)
        /\ c5 \in Seq(Steps) /\ c6 \in Seq(Steps) /\ c7 \in Seq(Steps)
    BY <1>1
  <2>4. plan = start \o c2 \o c3 \o c4 \o c5 \o c6 \o c7
    BY <2>2
  <2> HIDE DEF c2, c3, c4, c5, c6, c7
  <2> DEFINE p1 == start \o c2
             p2 == p1 \o c3
             p3 == p2 \o c4
             p4 == p3 \o c5
             p5 == p4 \o c6
             p6 == p5 \o c7
  <2>5. p1 \in Seq(Steps) /\ Rng(p1) = Rng(start) \cup Rng(c2)
    BY <2>1, <2>3, StepsAppend, RangeJoined
  <2> HIDE DEF p1
  <2>6. p2 \in Seq(Steps) /\ Rng(p2) = Rng(p1) \cup Rng(c3)
    BY <2>5, <2>3, StepsAppend, RangeJoined
  <2> HIDE DEF p2
  <2>7. p3 \in Seq(Steps) /\ Rng(p3) = Rng(p2) \cup Rng(c4)
    BY <2>6, <2>3, StepsAppend, RangeJoined
  <2> HIDE DEF p3
  <2>8. p4 \in Seq(Steps) /\ Rng(p4) = Rng(p3) \cup Rng(c5)
    BY <2>7, <2>3, StepsAppend, RangeJoined
  <2> HIDE DEF p4
  <2>9. p5 \in Seq(Steps) /\ Rng(p5) = Rng(p4) \cup Rng(c6)
    BY <2>8, <2>3, StepsAppend, RangeJoined
  <2> HIDE DEF p5
  <2>10. p6 \in Seq(Steps) /\ Rng(p6) = Rng(p5) \cup Rng(c7)
    BY <2>9, <2>3, StepsAppend, RangeJoined
  <2> HIDE DEF p6
  <2>20. plan = p6
    BY <2>4 DEF p1, p2, p3, p4, p5, p6
  <2> QED  BY <2>1, <2>5, <2>6, <2>7, <2>8, <2>9, <2>10, <2>20 DEF c2, c3, c4, c5, c6, c7
<1>5. Rng(plan) = MainSteps(sel)
  <2>1. UNION {Rng(Setup[agent]) : agent \in sel} =
          Rng(Chosen("claude")) \cup Rng(Chosen("pi")) \cup Rng(Chosen("cursor"))
           \cup Rng(Chosen("copilot")) \cup Rng(Chosen("opencode")) \cup Rng(Chosen("codex"))
           \cup Rng(Chosen("antigravity"))
    BY <1>3, AllAgents
  <2> QED  BY <1>2, <1>4, <2>1 DEF MainSteps
<1>6. AgentPlan(sel, exist) = plan \o forks \o last
  BY DEF AgentPlan, Chosen, first
<1> HIDE DEF plan
<1> DEFINE Is(file) == file \in exist \/ \E i \in DOMAIN plan : plan[i].path = file
           Block(file) == When(Is(file), << Step("block", file) >>)
           Beside(skill) == When(Is(skill) \/ Is(SkillFile(skill)), << Step("conventions", skill) >>)
           there == There(sel, exist)
<1>7. \A file : Is(file) <=> file \in there
  BY <1>5 DEF There, Rng
<1> HIDE DEF there, Is
<1>8. \A file \in SharedPaths : Block(file) \in Seq(Steps) /\ Rng(Block(file)) = IF file \in there THEN {Step("block", file)} ELSE {}
  <2> SUFFICES ASSUME NEW file \in SharedPaths
               PROVE  Block(file) \in Seq(Steps) /\ Rng(Block(file)) = IF file \in there THEN {Step("block", file)} ELSE {}
    OBVIOUS
  <2>1. << Step("block", file) >> \in Seq(Steps)
    BY StepIsStep DEF SharedPaths, Ops, ProjectPaths
  <2>2. Is(file) \in BOOLEAN
    BY DEF Is
  <2> QED  BY <1>7, <2>1, <2>2, WhenSteps, RangeOfWhen, RangeOfOne
<1>9. \A skill \in SkillRoots : /\ Beside(skill) \in Seq(Steps)
                                /\ Rng(Beside(skill)) = IF skill \in Roots(there) THEN {Step("conventions", skill)} ELSE {}
  <2> SUFFICES ASSUME NEW skill \in SkillRoots
               PROVE  /\ Beside(skill) \in Seq(Steps)
                      /\ Rng(Beside(skill)) = IF skill \in Roots(there) THEN {Step("conventions", skill)} ELSE {}
    OBVIOUS
  <2>1. << Step("conventions", skill) >> \in Seq(Steps)
    BY StepIsStep DEF SkillRoots, Ops, ProjectPaths
  <2>2. (Is(skill) \/ Is(SkillFile(skill))) <=> skill \in Roots(there)
    BY <1>7 DEF Roots
  <2> QED  BY <2>1, <2>2, WhenSteps, RangeOfWhen, RangeOfOne
<1>10. forks = Block("AGENTS.md") \o Block("GEMINI.md") \o Block(".github/copilot-instructions.md")
       \o Beside(".claude/skills/lat-md") \o Beside(".pi/skills/lat-md")
       \o Beside(".agents/skills/lat-md") \o Beside(".codex/skills/lat-md")
  BY DEF ForkSteps, Is
<1> HIDE DEF Block, Beside, forks
<1>11. /\ forks \in Seq(Steps)
       /\ Rng(forks) = Rng(Block("AGENTS.md")) \cup Rng(Block("GEMINI.md")) \cup Rng(Block(".github/copilot-instructions.md"))
            \cup Rng(Beside(".claude/skills/lat-md")) \cup Rng(Beside(".pi/skills/lat-md"))
            \cup Rng(Beside(".agents/skills/lat-md")) \cup Rng(Beside(".codex/skills/lat-md"))
  <2> DEFINE b1 == Block("AGENTS.md")
             b2 == Block("GEMINI.md")
             b3 == Block(".github/copilot-instructions.md")
             r1 == Beside(".claude/skills/lat-md")
             r2 == Beside(".pi/skills/lat-md")
             r3 == Beside(".agents/skills/lat-md")
             r4 == Beside(".codex/skills/lat-md")
  <2>1. b1 \in Seq(Steps) /\ b2 \in Seq(Steps) /\ b3 \in Seq(Steps)
    BY <1>8 DEF SharedPaths
  <2>2. r1 \in Seq(Steps) /\ r2 \in Seq(Steps) /\ r3 \in Seq(Steps) /\ r4 \in Seq(Steps)
    BY <1>9 DEF SkillRoots
  <2>3. forks = b1 \o b2 \o b3 \o r1 \o r2 \o r3 \o r4
    BY <1>10
  <2> HIDE DEF b1, b2, b3, r1, r2, r3, r4
  <2> DEFINE p1 == b1 \o b2
             p2 == p1 \o b3
             p3 == p2 \o r1
             p4 == p3 \o r2
             p5 == p4 \o r3
             p6 == p5 \o r4
  <2>4. p1 \in Seq(Steps) /\ Rng(p1) = Rng(b1) \cup Rng(b2)
    BY <2>1, <2>1, <2>2, StepsAppend, RangeJoined
  <2> HIDE DEF p1
  <2>5. p2 \in Seq(Steps) /\ Rng(p2) = Rng(p1) \cup Rng(b3)
    BY <2>4, <2>1, <2>2, StepsAppend, RangeJoined
  <2> HIDE DEF p2
  <2>6. p3 \in Seq(Steps) /\ Rng(p3) = Rng(p2) \cup Rng(r1)
    BY <2>5, <2>1, <2>2, StepsAppend, RangeJoined
  <2> HIDE DEF p3
  <2>7. p4 \in Seq(Steps) /\ Rng(p4) = Rng(p3) \cup Rng(r2)
    BY <2>6, <2>1, <2>2, StepsAppend, RangeJoined
  <2> HIDE DEF p4
  <2>8. p5 \in Seq(Steps) /\ Rng(p5) = Rng(p4) \cup Rng(r3)
    BY <2>7, <2>1, <2>2, StepsAppend, RangeJoined
  <2> HIDE DEF p5
  <2>9. p6 \in Seq(Steps) /\ Rng(p6) = Rng(p5) \cup Rng(r4)
    BY <2>8, <2>1, <2>2, StepsAppend, RangeJoined
  <2> HIDE DEF p6
  <2>20. forks = p6
    BY <2>3 DEF p1, p2, p3, p4, p5, p6
  <2> QED  BY <2>4, <2>5, <2>6, <2>7, <2>8, <2>9, <2>20 DEF b1, b2, b3, r1, r2, r3, r4
<1>12. Rng(forks) = ForkedSteps(sel, exist)
  <2>1. \A s : s \in Rng(forks) <=> \/ \E p \in SharedPaths : s \in Rng(Block(p))
                                    \/ \E r \in SkillRoots : s \in Rng(Beside(r))
    BY <1>11 DEF SharedPaths, SkillRoots
  <2>2. Roots(there) \subseteq SkillRoots
    BY DEF Roots
  <2> QED  BY <1>8, <1>9, <2>1, <2>2 DEF ForkedSteps, there
<1> QED  BY <1>4, <1>5, <1>6, <1>11, <1>12

\* So these are its steps.
LEMMA PlanIs ==
  ASSUME NEW sel \in SUBSET DOMAIN Setup, NEW exist
  PROVE  Rng(AgentPlan(sel, exist)) = MainSteps(sel) \cup ForkedSteps(sel, exist) \cup {Step("meta", "")}
<1>1. PICK plan, forks \in Seq(Steps) :
           /\ AgentPlan(sel, exist) = plan \o forks \o << Step("meta", "") >>
           /\ Rng(plan) = MainSteps(sel) /\ Rng(forks) = ForkedSteps(sel, exist)
  BY PlanParts
<1>2. << Step("meta", "") >> \in Seq(Steps)
  BY StepIsStep DEF Ops, ProjectPaths
<1> DEFINE last == << Step("meta", "") >>
           both == plan \o forks
<1>3. both \in Seq(Steps) /\ Rng(both) = Rng(plan) \cup Rng(forks)
  BY StepsAppend, RangeJoined
<1>4. Rng(last) = {Step("meta", "")}
  BY RangeOfOne
<1> HIDE DEF last, both
<1>5. Rng(both \o last) = Rng(both) \cup Rng(last)
  BY <1>2, <1>3, RangeJoined DEF last
<1> QED  BY <1>1, <1>3, <1>4, <1>5 DEF last, both

\* What the steps of a plan are.
LEMMA PlanIsTyped ==
  ASSUME NEW sel \in SUBSET DOMAIN Setup, NEW exist, NEW s \in Rng(AgentPlan(sel, exist))
  PROVE  s.op \in MainOps \cup {"block", "conventions", "meta"} /\ Typed(s)
<1>1. CASE s = Step("meta", "")
  BY <1>1 DEF Step, Typed
<1>2. CASE s \in MainSteps(sel)
  BY <1>2, MainIsTyped
<1>3. CASE s \in ForkedSteps(sel, exist)
  BY <1>3, ForkedIsTyped
<1> QED  BY <1>1, <1>2, <1>3, PlanIs

\* A selection is a set of agents.
LEMMA Selected ==
  ASSUME NEW sel \in Selections \cup {{}}
  PROVE  sel \in SUBSET DOMAIN Setup
BY AgentsAssumption

\* What is to do after the agents are chosen.
AfterChoice(sel) == IF sel = {} THEN << Step("meta", "") >> ELSE AgentPlan(sel, DOMAIN files)

\* What choosing the agents makes of the list of steps, and of what counts as settled.
LEMMA ChosenPlan ==
  ASSUME ChooseAgents
  PROVE  /\ selected' \in Selections \cup {{}} /\ selected' \in SUBSET DOMAIN Setup
         /\ settled' = IF settled = selected' THEN settled ELSE Nobody
         /\ todo' = << Step("offer", "") >> \o AfterChoice(selected')
         /\ << Step("offer", "") >> \in Seq(Steps) /\ AfterChoice(selected') \in Seq(Steps)
<1>1. PICK sel \in IF tty THEN Selections ELSE {{}} :
         /\ selected' = sel
         /\ todo' = << Step("offer", "") >> \o
                    IF sel = {} THEN << Step("meta", "") >> ELSE AgentPlan(sel, DOMAIN files)
         /\ settled' = IF settled = sel THEN settled ELSE Nobody
  BY DEF ChooseAgents
<1>2. << Step("offer", "") >> \in Seq(Steps) /\ << Step("meta", "") >> \in Seq(Steps)
  BY StepIsStep DEF Ops, ProjectPaths
<1>3. AfterChoice(sel) \in Seq(Steps)
  BY <1>2, AgentPlanIsSteps DEF AfterChoice
<1>4. sel \in Selections \cup {{}}
  OBVIOUS
<1>5. todo' = << Step("offer", "") >> \o AfterChoice(sel)
  BY <1>1 DEF AfterChoice
<1> QED  BY <1>1, <1>2, <1>3, <1>4, <1>5, Selected

\* The steps after the choice.
LEMMA ChosenSteps ==
  ASSUME ChooseAgents
  PROVE  /\ Rng(todo') = {Step("offer", "")} \cup
              IF selected' = {} THEN {Step("meta", "")} ELSE Rng(AgentPlan(selected', DOMAIN files))
         /\ selected' \in SUBSET DOMAIN Setup
<1> DEFINE first == << Step("offer", "") >>
           rest == AfterChoice(selected')
<1>1. /\ todo' = first \o rest /\ first \in Seq(Steps) /\ rest \in Seq(Steps)
      /\ selected' \in SUBSET DOMAIN Setup
  BY ChosenPlan
<1>2. /\ Rng(first) = {Step("offer", "")}
      /\ Rng(rest) = IF selected' = {} THEN {Step("meta", "")} ELSE Rng(AgentPlan(selected', DOMAIN files))
  BY RangeOfOne DEF AfterChoice
<1> HIDE DEF first, rest
<1>3. Rng(first \o rest) = Rng(first) \cup Rng(rest)
  BY <1>1, RangeJoined
<1> QED  BY <1>1, <1>2, <1>3

-----------------------------------------------------------------------------
\* The writing steps leave the list, or take its first step.
Writers ==
  \/ AppendTemplateSection \/ WriteTemplateFile \/ WriteForkBlock \/ WriteForkSkill
  \/ SyncLatHooks \/ RegisterMcpServer

\* What the writing steps leave alone.
LEMMA WritersAre ==
  ASSUME Writers
  PROVE  /\ todo # <<>> /\ Op(1) \in Writing /\ todo' \in {todo, Tail(todo)}
         /\ UNCHANGED <<ignored, git, version, meta, lat, backend, tty, selected, bounds, modeNotes, hosted>>
<1>1. CASE AppendTemplateSection
  BY <1>1 DEF AppendTemplateSection, Put, UpToDate, Ask, Answer, StepDone, Untouched, Op, Writing
<1>2. CASE WriteTemplateFile
  BY <1>2 DEF WriteTemplateFile, Put, UpToDate, Ask, Answer, StepDone, Untouched, Op, Writing
<1>3. CASE WriteForkBlock
  BY <1>3 DEF WriteForkBlock, Put, UpToDate, Ask, Answer, StepDone, Untouched, Op, Writing
<1>4. CASE WriteForkSkill
  BY <1>4 DEF WriteForkSkill, UpToDate, StepDone, Untouched, Op, Writing
<1>5. CASE SyncLatHooks \/ RegisterMcpServer
  BY <1>5 DEF SyncLatHooks, RegisterMcpServer, Doing, Untouched, Op, Writing
<1> QED  BY <1>1, <1>2, <1>3, <1>4, <1>5 DEF Writers

\* Every step keeps what holds of the gate.
LEMMA GateStays ==
  ASSUME IInv, GateInv, [Next]_vars
  PROVE  GateInv'
<1>1. todo \in Seq(Steps) /\ ModeCount \in Nat /\ dirs \in 0..ModeCount
  BY BoundsAssumption DEF IInv, GateInv
<1>2. CASE StartRun
  BY <1>2, GateOfStart
<1>3. CASE CreateTree \/ WriteForkScaffold
  BY <1>3, GateOfBuilding
<1>4. CASE OfferRequireMode
  BY <1>4, GateOfOffer
<1>5. CASE ChooseAgents
  <2>1. todo # <<>> /\ Op(1) = "agents" /\ UNCHANGED <<tree, gate, by, dirs, listed, cutOffer>>
    BY <1>5 DEF ChooseAgents, Op, lat, modeNotes
  <2>2. tree /\ ~(\E i \in DOMAIN todo : Op(i) = "listModes")
    <3>1. DOMAIN todo = 1..Len(todo) /\ Len(todo) \in Nat
      BY <1>1
    <3>2. ASSUME NEW i \in DOMAIN todo, Op(i) = "listModes"
          PROVE  FALSE
      <4>1. i = 1 \/ 1 \in 1..(i - 1)
        BY <3>1
      <4> QED  BY <2>1, <3>2, <4>1 DEF GateInv, Building
    <3> QED  BY <2>1, <3>2 DEF GateInv
  <2>3. \A s \in Rng(todo') : s.op \notin {"mkdir", "listModes"}
    <3>1. Step("offer", "").op = "offer" /\ Step("meta", "").op = "meta"
      BY DEF Step
    <3> QED  BY <1>5, <3>1, ChosenSteps, PlanIsTyped DEF MainOps
  <2>4. \A i \in DOMAIN todo' : (Op(i))' \notin {"mkdir", "listModes"}
    BY <2>3 DEF Rng, Op
  <2> QED  BY <1>1, <2>1, <2>2, <2>4 DEF GateInv
<1>6. CASE Writers \/ SetupEmbeddings \/ EnsureGitignored \/ WriteInitMeta
  <2>1. /\ todo # <<>> /\ todo' \in {todo, Tail(todo)} /\ Op(1) \notin {"mkdir", "modeDir", "listModes"}
        /\ UNCHANGED <<tree, gate, by, dirs, listed, cutOffer>>
    <3>1. CASE Writers
      BY <3>1, WritersAre DEF Writing, lat, modeNotes
    <3>2. CASE SetupEmbeddings \/ EnsureGitignored \/ WriteInitMeta
      BY <3>2 DEF SetupEmbeddings, EnsureGitignored, WriteInitMeta, Doing, Op, lat, modeNotes
    <3> QED  BY <1>6, <3>1, <3>2
  <2>2. CASE todo' = Tail(todo)
    BY <2>1, <2>2, GateOfOtherSteps
  <2>3. CASE todo' = todo
    BY <2>1, <2>3 DEF GateInv, Op
  <2> QED  BY <2>1, <2>2, <2>3
<1>7. CASE Cut \/ CutWhileWriting
  <2>1. /\ todo # <<>> /\ todo' = <<>> /\ UNCHANGED <<tree, by, dirs>>
        /\ cutOffer' = (cutOffer \/ (Op(1) \in {"modeDir", "listModes"} /\ by = "offer"))
    BY <1>7 DEF Cut, CutWhileWriting, Ends, Idle, Op
  <2>2. ASSUME NEW i \in DOMAIN todo, Op(i) = "listModes", \A j \in 1..(i - 1) : Op(j) = "modeDir"
        PROVE  Op(1) \in {"modeDir", "listModes"}
    <3>1. i = 1 \/ 1 \in 1..(i - 1)
      BY <1>1
    <3> QED  BY <2>2, <3>1
  <2>3. UNCHANGED <<gate, listed>> \/ (gate' = "unset" /\ Op(1) # "mkdir")
    BY <1>7 DEF Cut, CutWhileWriting, Truncates, RootIndexIsDue, Op
  <2>4. DOMAIN todo' = {} /\ (~tree => gate' = "none") /\ dirs \in 0..ModeCount
    BY <2>1, <2>3 DEF GateInv
  <2>5. gate' = "on" /\ by # "user" => (dirs = ModeCount /\ listed') \/ cutOffer'
    <3>1. CASE cutOffer
      BY <2>1, <3>1
    <3>2. CASE by = "offer" /\ \E i \in DOMAIN todo : Op(i) = "listModes" /\ \A j \in 1..(i - 1) : Op(j) = "modeDir"
      BY <2>1, <2>2, <3>2
    <3> QED  BY <2>3, <3>1, <3>2 DEF GateInv
  <2> QED  BY <2>1, <2>4, <2>5 DEF GateInv
<1>8. CASE EditFile \/ Upgrade \/ ChangeGit \/ WipeCache \/ ChangeKey \/ Reindex \/ UNCHANGED vars
  <2>1. UNCHANGED <<todo, tree, gate, by, dirs, listed, cutOffer>>
    BY <1>8 DEF EditFile, Upgrade, ChangeGit, WipeCache, ChangeKey, Reindex, Event, run, lat, modeNotes, vars, history
  <2> QED  BY <2>1 DEF GateInv, Op
<1>9. CASE SetGate
  <2>1. tree /\ UNCHANGED <<todo, tree, dirs, listed, cutOffer>> /\ by' = "user"
    BY <1>9 DEF SetGate, Event, run
  <2> QED  BY <2>1 DEF GateInv, Op
<1> QED  BY <1>2, <1>3, <1>4, <1>5, <1>6, <1>7, <1>8, <1>9 DEF Next, Writers

\* What holds of the gate holds at first.
LEMMA GateAtFirst == Init => GateInv
BY BoundsAssumption DEF Init, GateInv

-----------------------------------------------------------------------------
\* A plan stays as it is when one of its own files is made.
LEMMA PlanStays ==
  ASSUME NEW sel \in SUBSET DOMAIN Setup, NEW exist, NEW file,
         \/ file \in exist \/ file \in {s.path : s \in MainSteps(sel)}
         \/ \E r \in SkillRoots : file = SkillFile(r) /\ (r \in exist \/ SkillFile(r) \in exist)
  PROVE  Rng(AgentPlan(sel, exist \cup {file})) = Rng(AgentPlan(sel, exist))
<1> DEFINE wider == exist \cup {file}
<1>0. ForkedSteps(sel, wider) = ForkedSteps(sel, exist) => Rng(AgentPlan(sel, wider)) = Rng(AgentPlan(sel, exist))
  <2> HIDE DEF wider
  <2>1. Rng(AgentPlan(sel, wider)) = MainSteps(sel) \cup ForkedSteps(sel, wider) \cup {Step("meta", "")}
    BY PlanIs
  <2>2. Rng(AgentPlan(sel, exist)) = MainSteps(sel) \cup ForkedSteps(sel, exist) \cup {Step("meta", "")}
    BY PlanIs
  <2> QED  BY <2>1, <2>2
<1>1. CASE file \in There(sel, exist)
  <2>1. There(sel, exist \cup {file}) = There(sel, exist)
    BY <1>1 DEF There
  <2>2. ForkedSteps(sel, exist \cup {file}) = ForkedSteps(sel, exist)
    BY <2>1 DEF ForkedSteps
  <2> QED  BY <1>0, <2>2
<1>2. ASSUME NEW r \in SkillRoots, file = SkillFile(r), r \in exist \/ SkillFile(r) \in exist
      PROVE  Rng(AgentPlan(sel, exist \cup {file})) = Rng(AgentPlan(sel, exist))
  <2> DEFINE there == There(sel, exist)
             more == There(sel, exist \cup {file})
  <2>1. more = there \cup {file} /\ (r \in there \/ SkillFile(r) \in there)
    BY <1>2 DEF There
  <2>2. file \notin SharedPaths /\ file \notin SkillRoots /\ \A q \in SkillRoots : SkillFile(q) = file => q = r
    BY <1>2 DEF SharedPaths, SkillRoots, SkillFile
  <2> HIDE DEF there, more
  <2>3. SharedPaths \cap more = SharedPaths \cap there
    BY <2>1, <2>2
  <2>4. Roots(more) = Roots(there)
    <3>1. \A q \in SkillRoots : (q \in more \/ SkillFile(q) \in more) <=> (q \in there \/ SkillFile(q) \in there)
      BY <2>1, <2>2
    <3> QED  BY <3>1 DEF Roots
  <2>5. ForkedSteps(sel, exist \cup {file}) = ForkedSteps(sel, exist)
    BY <2>3, <2>4 DEF ForkedSteps, there, more
  <2> QED  BY <1>0, <2>5
<1> QED  BY <1>1, <1>2 DEF There

\* What a writing step may write.
LEMMA WritersWrite ==
  ASSUME Writers
  PROVE  \/ files' = files
         \/ /\ \E text : files' = WithFile(Path, text)
            /\ Op(1) # "conventions" /\ (Op(1) = "block" => Path \in DOMAIN files)
         \/ /\ \E text : files' = WithFile(SkillFile(Path), text)
            /\ Op(1) = "conventions" /\ RootExists(Path)
<1>1. CASE AppendTemplateSection
  BY <1>1 DEF AppendTemplateSection, Put, UpToDate, Ask, Answer, Writes, Leaves, Op
<1>2. CASE WriteTemplateFile
  <2>1. Op(1) \in {"template", "merged"} /\ (files' = files \/ \E text : files' = WithFile(Path, text))
    <3> DEFINE body == IF todo[1].op = "merged" /\ prompt = NotAsked THEN MergedHooks(Path)
              ELSE IF todo[1].op = "merged"
              THEN Keep(prompt[1], {User, Mixed}) \o <<Template("lat", version)>>
              ELSE TemplateOf(Path)
    <3>1. /\ Op(1) \in {"template", "merged"}
          /\ \/ \E h : Put(body, h, body) \/ UpToDate(h, body) \/ Answer(body, h, body)
             \/ Ask
      BY <1>2 DEF WriteTemplateFile, Op
    <3> HIDE DEF body
    <3> QED  BY <3>1 DEF Put, UpToDate, Ask, Answer, Writes, Leaves
  <2> QED  BY <2>1
<1>3. CASE WriteForkBlock
  BY <1>3 DEF WriteForkBlock, Put, UpToDate, Ask, Answer, Writes, Leaves, Op, Exists
<1>4. CASE WriteForkSkill
  BY <1>4 DEF WriteForkSkill, UpToDate, Leaves, Op
<1>5. CASE SyncLatHooks
  BY <1>5 DEF SyncLatHooks, Doing, Op
<1>6. CASE RegisterMcpServer
  BY <1>6 DEF RegisterMcpServer, Doing, Op
<1> QED  BY <1>1, <1>2, <1>3, <1>4, <1>5, <1>6 DEF Writers

\* The step that is taken, when it writes.
LEMMA StepOfPlan ==
  ASSUME IInv, ListInv, todo # <<>>, Op(1) \in Writing
  PROVE  /\ selected # {} /\ selected \in SUBSET DOMAIN Setup /\ todo[1] \in Plan(selected)
         /\ Typed(todo[1]) /\ todo[1] \in Steps
         /\ \/ Op(1) \in {"block", "conventions"}
            \/ todo[1] \in MainSteps(selected)
<1>1. 1 \in DOMAIN todo /\ todo[1] \in Steps
  BY StepsLeft, Shifted DEF IInv
<1>2. selected # {} /\ todo[1] \in Plan(selected) /\ Typed(todo[1]) /\ selected \in Selections \cup {{}}
  BY <1>1 DEF ListInv
<1>3. selected \in SUBSET DOMAIN Setup
  BY <1>2, Selected
<1>4. \/ todo[1] \in MainSteps(selected) \/ todo[1] \in ForkedSteps(selected, DOMAIN files)
      \/ todo[1] = Step("meta", "")
  BY <1>2, <1>3, PlanIs DEF Plan
<1>5. todo[1] # Step("meta", "")
  <2>1. Step("meta", "").op = "meta"
    BY DEF Step
  <2> QED  BY <2>1 DEF Writing, Op
<1>6. todo[1] \in ForkedSteps(selected, DOMAIN files) => Op(1) \in {"block", "conventions"}
  BY ForkedIsTyped DEF Op
<1> QED  BY <1>1, <1>2, <1>3, <1>4, <1>5, <1>6

\* So a writing step leaves the plan of its run as it is, whatever it makes.
LEMMA PlanOfWriters ==
  ASSUME IInv, ListInv, Writers
  PROVE  Rng(AgentPlan(selected, DOMAIN files')) = Plan(selected)
<1>1. todo # <<>> /\ Op(1) \in Writing
  BY WritersAre
<1>2. /\ selected # {} /\ selected \in SUBSET DOMAIN Setup
      /\ todo[1] \in Steps
      /\ \/ Op(1) \in {"block", "conventions"}
         \/ todo[1] \in MainSteps(selected)
  BY <1>1, StepOfPlan
<1>3. CASE files' = files
  BY <1>3 DEF Plan
<1>4. CASE /\ \E text : files' = WithFile(Path, text)
           /\ Op(1) # "conventions" /\ (Op(1) = "block" => Path \in DOMAIN files)
  <2>1. DOMAIN files' = DOMAIN files \cup {Path}
    BY <1>4 DEF WithFile
  <2>2. Path \in DOMAIN files \/ Path \in {s.path : s \in MainSteps(selected)}
    BY <1>2, <1>4 DEF Path
  <2> QED  BY <1>2, <2>1, <2>2, PlanStays DEF Plan
<1>5. CASE /\ \E text : files' = WithFile(SkillFile(Path), text)
           /\ Op(1) = "conventions" /\ RootExists(Path)
  <2>1. DOMAIN files' = DOMAIN files \cup {SkillFile(Path)}
    BY <1>5 DEF WithFile
  <2>2. Path \in SkillRoots /\ (Path \in DOMAIN files \/ SkillFile(Path) \in DOMAIN files)
    BY <1>2, <1>5 DEF Steps, Op, Path, RootExists, Exists
  <2> QED  BY <1>2, <2>1, <2>2, PlanStays DEF Plan
<1> QED  BY <1>3, <1>4, <1>5, WritersWrite

-----------------------------------------------------------------------------
(***************************************************************************)
(* What is written into a text with a section, place by place.             *)
(***************************************************************************)
Replaced(text, new, b, e, c, v) ==
  /\ new \in Texts /\ Len(text) \in Nat /\ b \in 1..Len(text) /\ e \in 1..Len(text) /\ b < e
  /\ text[b] = Begin(c) /\ text[e] = End(c)
  /\ Len(new) = Len(text) - e + b + 2
  /\ \A i \in 1..(b - 1) : new[i] = text[i]
  /\ new[b] = Begin(c) /\ new[b + 1] = Template(c, v) /\ new[b + 2] = End(c)
  /\ \A i \in (e + 1)..Len(text) : new[i - e + b + 2] = text[i]

\* What is appended to a text without one.
Extended(text, new, c, v) ==
  /\ new \in Texts /\ Len(text) \in Nat /\ Len(new) = Len(text) + 3
  /\ \A i \in 1..Len(text) : new[i] = text[i]
  /\ new[Len(text) + 1] = Begin(c) /\ new[Len(text) + 2] = Template(c, v) /\ new[Len(text) + 3] = End(c)

\* A template in its markers.
LEMMA WrapIs ==
  ASSUME NEW c \in Channels, NEW v \in Nat
  PROVE  /\ Wrap(<<Template(c, v)>>, c) \in Texts /\ Len(Wrap(<<Template(c, v)>>, c)) = 3
         /\ Wrap(<<Template(c, v)>>, c)[1] = Begin(c) /\ Wrap(<<Template(c, v)>>, c)[2] = Template(c, v)
         /\ Wrap(<<Template(c, v)>>, c)[3] = End(c)
<1>1. <<Template(c, v)>> \in Texts
  BY PiecesAre
<1>2. Wrap(<<Template(c, v)>>, c) \in Texts
  BY <1>1, WrapAddsNoUsers
<1> DEFINE wrapped == Wrap(<<Template(c, v)>>, c)
<1>3. Len(wrapped) = 3 /\ wrapped[1] = Begin(c) /\ wrapped[2] = Template(c, v) /\ wrapped[3] = End(c)
  BY DEF Wrap
<1> QED  BY <1>2, <1>3

\* A section replaced: where each piece of the new text comes from.
LEMMA SplicedPlaces ==
  ASSUME NEW text \in Texts, NEW c \in Channels, NEW v \in Nat, HasSection(text, c)
  PROVE  Replaced(text, Spliced(text, <<Template(c, v)>>, c), At(text, Begin(c)), At(text, End(c)), c, v)
<1> DEFINE b == At(text, Begin(c))
           e == At(text, End(c))
           n == Len(text)
           front == SubSeq(text, 1, b - 1)
           back == SubSeq(text, e + 1, n)
           middle == Wrap(<<Template(c, v)>>, c)
           new == Spliced(text, <<Template(c, v)>>, c)
<1>1. n \in Nat /\ b \in 1..n /\ e \in 1..n /\ b < e /\ text[b] = Begin(c) /\ text[e] = End(c)
  BY FirstPlace DEF HasSection, Texts
<1>2. new = (front \o middle) \o back
  BY DEF Spliced
<1>3. middle \in Texts /\ Len(middle) = 3 /\ middle[1] = Begin(c) /\ middle[2] = Template(c, v) /\ middle[3] = End(c)
  BY WrapIs
<1> HIDE DEF b, e, middle, new, n
<1>4. front \in Texts /\ Len(front) = b - 1 /\ \A k \in 1..(b - 1) : front[k] = text[k]
  <2>1. /\ SubSeq(text, 1, b - 1) \in Texts /\ Len(SubSeq(text, 1, b - 1)) = (b - 1) - 1 + 1
        /\ \A k \in 1..((b - 1) - 1 + 1) : SubSeq(text, 1, b - 1)[k] = text[1 + k - 1]
    <3>1. b - 1 \in Nat /\ b - 1 <= Len(text) /\ 1 <= (b - 1) + 1
      BY <1>1 DEF n
    <3> DEFINE m == b - 1
    <3> HIDE DEF m
    <3>2. m \in Nat /\ m <= Len(text) /\ 1 <= m + 1
      BY <3>1 DEF m
    <3>3. /\ SubSeq(text, 1, m) \in Texts /\ Len(SubSeq(text, 1, m)) = m - 1 + 1
          /\ \A k \in 1..(m - 1 + 1) : SubSeq(text, 1, m)[k] = text[1 + k - 1]
      BY <3>2, PartIs
    <3> QED  BY <3>3 DEF m
  <2>2. (b - 1) - 1 + 1 = b - 1 /\ \A k \in 1..(b - 1) : 1 + k - 1 = k
    BY <1>1
  <2> QED  BY <2>1, <2>2
<1>5. back \in Texts /\ Len(back) = n - e /\ \A k \in 1..(n - e) : back[k] = text[e + k]
  <2> DEFINE m == e + 1
  <2>1. m \in Nat \ {0} /\ n <= Len(text) /\ n \in Nat /\ m <= n + 1 /\ n - m + 1 = n - e
        /\ \A k \in 1..(n - e) : m + k - 1 = e + k
    BY <1>1 DEF n
  <2> HIDE DEF m
  <2>2. /\ SubSeq(text, m, n) \in Texts /\ Len(SubSeq(text, m, n)) = n - m + 1
        /\ \A k \in 1..(n - m + 1) : SubSeq(text, m, n)[k] = text[m + k - 1]
    BY <2>1, PartIs
  <2>3. back = SubSeq(text, m, n)
    BY DEF m
  <2> QED  BY <2>1, <2>2, <2>3
<1> HIDE DEF front, back
<1> DEFINE upper == front \o middle
<1>6. /\ upper \in Texts /\ Len(upper) = b + 2
      /\ \A i \in 1..(b + 2) : upper[i] = IF i <= b - 1 THEN front[i] ELSE middle[i - (b - 1)]
  <2>1. /\ upper \in Texts /\ Len(upper) = Len(front) + Len(middle)
        /\ \A i \in 1..(Len(front) + Len(middle)) : upper[i] = IF i <= Len(front) THEN front[i] ELSE middle[i - Len(front)]
    BY <1>3, <1>4, Joined
  <2>2. (b - 1) + 3 = b + 2
    BY <1>1
  <2> QED  BY <1>3, <1>4, <2>1, <2>2
<1> HIDE DEF upper
<1>7. /\ new \in Texts /\ Len(new) = b + 2 + (n - e)
      /\ \A i \in 1..(b + 2 + (n - e)) : new[i] = IF i <= b + 2 THEN upper[i] ELSE back[i - (b + 2)]
  <2>1. /\ upper \o back \in Texts /\ Len(upper \o back) = Len(upper) + Len(back)
        /\ \A i \in 1..(Len(upper) + Len(back)) : (upper \o back)[i] = IF i <= Len(upper) THEN upper[i] ELSE back[i - Len(upper)]
    BY <1>5, <1>6, Joined
  <2> QED  BY <1>2, <1>5, <1>6, <2>1 DEF upper
<1>8. \A i \in 1..(b - 1) : new[i] = text[i]
  <2>1. \A i \in 1..(b - 1) : i \in 1..(b + 2) /\ i \in 1..(b + 2 + (n - e)) /\ i <= b + 2 /\ i <= b - 1
    BY <1>1
  <2> QED  BY <1>4, <1>6, <1>7, <2>1
<1>9. new[b] = Begin(c) /\ new[b + 1] = Template(c, v) /\ new[b + 2] = End(c)
  <2>1. \A k \in 0..2 : /\ b + k \in 1..(b + 2) /\ b + k \in 1..(b + 2 + (n - e)) /\ b + k <= b + 2
                        /\ ~(b + k <= b - 1) /\ (b + k) - (b - 1) = k + 1
    BY <1>1
  <2>2. \A k \in 0..2 : new[b + k] = middle[k + 1]
    BY <1>6, <1>7, <2>1
  <2>3. new[b + 0] = middle[0 + 1] /\ new[b + 1] = middle[1 + 1] /\ new[b + 2] = middle[2 + 1]
    BY <2>2
  <2>4. b + 0 = b /\ 0 + 1 = 1 /\ 1 + 1 = 2 /\ 2 + 1 = 3
    BY <1>1
  <2> QED  BY <1>3, <2>3, <2>4
<1>10. \A i \in (e + 1)..n : new[i - e + b + 2] = text[i]
  <2>1. \A i \in (e + 1)..n : /\ i - e + b + 2 \in 1..(b + 2 + (n - e)) /\ ~(i - e + b + 2 <= b + 2)
                              /\ (i - e + b + 2) - (b + 2) = i - e /\ i - e \in 1..(n - e) /\ e + (i - e) = i
    BY <1>1
  <2> QED  BY <1>5, <1>7, <2>1
<1>11. b + 2 + (n - e) = n - e + b + 2
  BY <1>1
<1>12. Replaced(text, new, b, e, c, v)
  BY <1>1, <1>7, <1>8, <1>9, <1>10, <1>11 DEF Replaced, n
<1> QED  BY <1>12 DEF new, b, e

\* A section appended: where each piece of the new text comes from.
LEMMA AppendedPlaces ==
  ASSUME NEW text \in Texts, NEW c \in Channels, NEW v \in Nat, ~HasSection(text, c)
  PROVE  Extended(text, Spliced(text, <<Template(c, v)>>, c), c, v)
<1> DEFINE n == Len(text)
           more == Wrap(<<Template(c, v)>>, c)
           new == Spliced(text, <<Template(c, v)>>, c)
<1>1. n \in Nat
  BY DEF Texts
<1>2. new = text \o more
  BY DEF Spliced
<1>3. more \in Texts /\ Len(more) = 3 /\ more[1] = Begin(c) /\ more[2] = Template(c, v) /\ more[3] = End(c)
  BY WrapIs
<1> HIDE DEF more, new
<1>4. /\ new \in Texts /\ Len(new) = n + 3
      /\ \A i \in 1..(n + 3) : new[i] = IF i <= n THEN text[i] ELSE more[i - n]
  <2>1. /\ text \o more \in Texts /\ Len(text \o more) = Len(text) + Len(more)
        /\ \A i \in 1..(Len(text) + Len(more)) : (text \o more)[i] = IF i <= Len(text) THEN text[i] ELSE more[i - Len(text)]
    BY <1>3, Joined
  <2> QED  BY <1>2, <1>3, <2>1
<1>5. \A i \in 1..n : i \in 1..(n + 3) /\ i <= n
  BY <1>1
<1>6. /\ n + 1 \in 1..(n + 3) /\ n + 2 \in 1..(n + 3) /\ n + 3 \in 1..(n + 3)
      /\ ~(n + 1 <= n) /\ ~(n + 2 <= n) /\ ~(n + 3 <= n)
      /\ (n + 1) - n = 1 /\ (n + 2) - n = 2 /\ (n + 3) - n = 3
  BY <1>1
<1>7. new[n + 1] = Begin(c) /\ new[n + 2] = Template(c, v) /\ new[n + 3] = End(c)
  BY <1>3, <1>4, <1>6
<1> QED  BY <1>1, <1>4, <1>5, <1>7 DEF Extended, new

-----------------------------------------------------------------------------
\* Where the pieces of a text with a new section come from.
ComesFrom(text, new, b, e, c, v) ==
  \A j \in 1..Len(new) :
    \/ j < b /\ new[j] = text[j]
    \/ new[j] \in {Begin(c), Template(c, v), End(c)} /\ b <= j /\ j <= b + 2
    \/ b + 2 < j /\ j + e - b - 2 \in (e + 1)..Len(text) /\ new[j] = text[j + e - b - 2]

\* A piece of a text with a section replaced is of the old text or of the section.
LEMMA ReplacedComesFrom ==
  ASSUME NEW text \in Texts, NEW new, NEW b, NEW e, NEW c \in Channels, NEW v \in Nat, Replaced(text, new, b, e, c, v)
  PROVE  ComesFrom(text, new, b, e, c, v)
<1>1. /\ Len(text) \in Nat /\ b \in 1..Len(text) /\ e \in 1..Len(text) /\ b < e
      /\ Len(new) = Len(text) - e + b + 2
      /\ \A i \in 1..(b - 1) : new[i] = text[i]
      /\ new[b] = Begin(c) /\ new[b + 1] = Template(c, v) /\ new[b + 2] = End(c)
      /\ \A i \in (e + 1)..Len(text) : new[i - e + b + 2] = text[i]
  BY DEF Replaced
<1>2. ASSUME NEW j \in 1..Len(new)
      PROVE  \/ j < b /\ new[j] = text[j]
             \/ new[j] \in {Begin(c), Template(c, v), End(c)} /\ b <= j /\ j <= b + 2
             \/ b + 2 < j /\ j + e - b - 2 \in (e + 1)..Len(text) /\ new[j] = text[j + e - b - 2]
  <2>1. CASE j < b
    <3>1. j \in 1..(b - 1)
      BY <1>1, <2>1
    <3> QED  BY <1>1, <2>1, <3>1
  <2>2. CASE b <= j /\ j <= b + 2
    <3>1. j = b \/ j = b + 1 \/ j = b + 2
      BY <1>1, <2>2
    <3> QED  BY <1>1, <2>2, <3>1
  <2>3. CASE b + 2 < j
    <3>1. j + e - b - 2 \in (e + 1)..Len(text) /\ (j + e - b - 2) - e + b + 2 = j
      BY <1>1, <2>3
    <3> DEFINE i == j + e - b - 2
    <3>2. i \in (e + 1)..Len(text) /\ i - e + b + 2 = j
      BY <3>1
    <3>3. new[i - e + b + 2] = text[i]
      BY <1>1, <3>2
    <3> QED  BY <2>3, <3>2, <3>3
  <2> QED  BY <1>1, <2>1, <2>2, <2>3
<1> QED  BY <1>2 DEF ComesFrom

\* Where a piece stands first after a section is written that did not hold it.
LEMMA PlacesMoved ==
  ASSUME NEW text \in Texts, NEW new, NEW b, NEW e, NEW c \in Channels, NEW v \in Nat, Replaced(text, new, b, e, c, v),
         NEW m, m \notin {Begin(c), Template(c, v), End(c)}, \A i \in b..e : text[i] # m
  PROVE  /\ At(text, m) \in 0..(b - 1) \/ At(text, m) \in (e + 1)..Len(text)
         /\ At(text, m) < b => At(new, m) = At(text, m)
         /\ At(text, m) > e => At(new, m) = At(text, m) - e + b + 2
<1>1. /\ Len(text) \in Nat /\ b \in 1..Len(text) /\ e \in 1..Len(text) /\ b < e
      /\ new \in Texts /\ Len(new) = Len(text) - e + b + 2
      /\ \A i \in 1..(b - 1) : new[i] = text[i]
      /\ \A i \in (e + 1)..Len(text) : new[i - e + b + 2] = text[i]
  BY DEF Replaced
<1>2. \A j \in 1..Len(new) :
        \/ j < b /\ new[j] = text[j]
        \/ new[j] # m /\ b <= j /\ j <= b + 2
        \/ b + 2 < j /\ j + e - b - 2 \in (e + 1)..Len(text) /\ new[j] = text[j + e - b - 2]
  <2>1. \A j \in 1..Len(new) :
          \/ j < b /\ new[j] = text[j]
          \/ new[j] \in {Begin(c), Template(c, v), End(c)} /\ b <= j /\ j <= b + 2
          \/ b + 2 < j /\ j + e - b - 2 \in (e + 1)..Len(text) /\ new[j] = text[j + e - b - 2]
    <3>1. ComesFrom(text, new, b, e, c, v)
      BY ReplacedComesFrom
    <3> QED  BY <3>1 DEF ComesFrom
  <2>2. \A j : new[j] \in {Begin(c), Template(c, v), End(c)} => new[j] # m
    OBVIOUS
  <2> QED  BY <2>1, <2>2
<1> DEFINE k == At(text, m)
<1>3. /\ k \in 0..Len(text)
      /\ k = 0 => \A i \in 1..Len(text) : text[i] # m
      /\ k > 0 => text[k] = m /\ \A i \in 1..Len(text) : text[i] = m => k <= i
  BY FirstPlace
<1> HIDE DEF k
<1>4. k \in 0..(b - 1) \/ k \in (e + 1)..Len(text)
  <2>1. ~(k \in b..e)
    BY <1>1, <1>3
  <2> QED  BY <1>1, <1>3, <2>1
<1>5. CASE k = 0
  <2>1. \A j \in 1..Len(new) : new[j] # m
    <3>1. \A j \in 1..Len(new) : j < b => j \in 1..Len(text)
      BY <1>1
    <3>2. \A j \in 1..Len(new) : j + e - b - 2 \in (e + 1)..Len(text) => j + e - b - 2 \in 1..Len(text)
      BY <1>1
    <3> QED  BY <1>2, <1>3, <1>5, <3>1, <3>2
  <2>2. At(new, m) = 0
    <3>1. At(new, m) \in 0..Len(new) /\ (At(new, m) > 0 => new[At(new, m)] = m)
      BY <1>1, FirstPlace
    <3> QED  BY <1>1, <2>1, <3>1
  <2> QED  BY <1>1, <1>4, <1>5, <2>2 DEF k
<1>6. CASE k \in 1..(b - 1)
  <2>1. k \in 1..Len(new) /\ new[k] = m
    BY <1>1, <1>3, <1>6
  <2>2. \A i \in 1..(k - 1) : new[i] # new[k]
    <3>1. \A i \in 1..(k - 1) : i \in 1..(b - 1) /\ i \in 1..Len(text) /\ ~(k <= i)
      BY <1>1, <1>6
    <3> QED  BY <1>1, <1>3, <1>6, <2>1, <3>1
  <2>3. At(new, new[k]) = k
    BY <1>1, <2>1, <2>2, FirstPlaceIs
  <2> QED  BY <1>1, <1>4, <1>6, <2>1, <2>3 DEF k
<1>7. CASE k \in (e + 1)..Len(text)
  <2> DEFINE K == k - e + b + 2
  <2>1. K \in 1..Len(new) /\ new[K] = m
    <3>1. K \in 1..Len(new) /\ k > 0
      BY <1>1, <1>7
    <3> QED  BY <1>1, <1>3, <1>7, <3>1
  <2>2. \A i \in 1..(K - 1) : new[i] # new[K]
    <3> SUFFICES ASSUME NEW i \in 1..(K - 1), new[i] = m
                 PROVE  FALSE
      BY <2>1
    <3>1. i \in 1..Len(new)
      BY <1>1, <1>7, <2>1
    <3>2. CASE i < b /\ new[i] = text[i]
      <4>1. i \in 1..Len(text) /\ ~(k <= i) /\ k > 0
        BY <1>1, <1>7, <3>2, <3>1
      <4> QED  BY <1>3, <3>2, <4>1
    <3>3. CASE b + 2 < i /\ i + e - b - 2 \in (e + 1)..Len(text) /\ new[i] = text[i + e - b - 2]
      <4>1. i + e - b - 2 \in 1..Len(text) /\ ~(k <= i + e - b - 2) /\ k > 0
        BY <1>1, <1>7, <3>1, <3>3
      <4> QED  BY <1>3, <3>3, <4>1
    <3> QED  BY <1>2, <3>1, <3>2, <3>3
  <2> HIDE DEF K
  <2>3. At(new, new[K]) = K
    BY <1>1, <2>1, <2>2, FirstPlaceIs
  <2>4. At(new, m) = K
    BY <2>1, <2>3
  <2> QED  BY <1>1, <1>4, <1>7, <2>4 DEF k, K
<1> QED  BY <1>4, <1>5, <1>6, <1>7 DEF k

\* The same part of two texts.
LEMMA SamePart ==
  ASSUME NEW text \in Texts, NEW new \in Texts, NEW i \in Nat, NEW j \in Nat, NEW k \in Int,
         1 <= i, i <= j + 1, j <= Len(text), 1 <= i + k, j + k <= Len(new),
         \A x \in i..j : new[x + k] = text[x]
  PROVE  SubSeq(new, i + k, j + k) = SubSeq(text, i, j)
<1>1. /\ SubSeq(text, i, j) \in Texts /\ Len(SubSeq(text, i, j)) = j - i + 1
      /\ \A x \in 1..(j - i + 1) : SubSeq(text, i, j)[x] = text[i + x - 1]
  BY PartIs
<1> DEFINE p == i + k
           q == j + k
<1>2. p \in Nat \ {0} /\ q \in Nat /\ q <= Len(new) /\ p <= q + 1 /\ q - p + 1 = j - i + 1
  OBVIOUS
<1>3. \A x \in 1..(j - i + 1) : p + x - 1 = (i + x - 1) + k /\ i + x - 1 \in i..j
  OBVIOUS
<1> HIDE DEF p, q
<1>4. /\ SubSeq(new, p, q) \in Texts /\ Len(SubSeq(new, p, q)) = q - p + 1
      /\ \A x \in 1..(q - p + 1) : SubSeq(new, p, q)[x] = new[p + x - 1]
  BY <1>2, PartIs
<1> DEFINE s == SubSeq(text, i, j)
           t == SubSeq(new, p, q)
<1>5. s \in Texts /\ t \in Texts /\ Len(s) = j - i + 1 /\ Len(t) = j - i + 1
  BY <1>1, <1>2, <1>4
<1>6. \A x \in 1..(j - i + 1) : t[x] = s[x]
  BY <1>1, <1>2, <1>3, <1>4
<1> HIDE DEF s, t
<1>7. t = s
  <2>1. t \in Seq(Pieces) /\ s \in Seq(Pieces) /\ Len(t) = Len(s) /\ \A x \in 1..Len(t) : t[x] = s[x]
    BY <1>5, <1>6 DEF Texts
  <2> QED  BY <2>1, SeqEqual
<1> QED  BY <1>7 DEF s, t, p, q

Holds(text, piece) == \E i \in DOMAIN text : text[i] = piece

\* A piece inside a part of a text.
LEMMA PartHolds ==
  ASSUME NEW text \in Texts, NEW i \in Nat, NEW j \in Nat, 1 <= i, i <= j + 1, j <= Len(text),
         NEW x \in i..j
  PROVE  Holds(SubSeq(text, i, j), text[x])
<1>1. /\ SubSeq(text, i, j) \in Texts /\ Len(SubSeq(text, i, j)) = j - i + 1
      /\ \A y \in 1..(j - i + 1) : SubSeq(text, i, j)[y] = text[i + y - 1]
  BY PartIs
<1>2. x - i + 1 \in 1..(j - i + 1) /\ i + (x - i + 1) - 1 = x
  OBVIOUS
<1> DEFINE part == SubSeq(text, i, j)
           y == x - i + 1
<1> HIDE DEF part
<1>3. part \in Texts /\ Len(part) = j - i + 1 /\ y \in 1..(j - i + 1) /\ part[y] = text[i + y - 1] /\ i + y - 1 = x
  BY <1>1, <1>2 DEF part
<1>4. DOMAIN part = 1..Len(part)
  BY <1>3 DEF Texts
<1>5. y \in DOMAIN part /\ part[y] = text[x]
  BY <1>3, <1>4
<1> HIDE DEF y
<1>6. Holds(part, text[x])
  BY <1>5 DEF Holds
<1> QED  BY <1>6 DEF part

\* A text that leaves the section of a channel, but for what it holds of the other's.
Spared(text, new, c, d) ==
  /\ EndFirst(text, d) => EndFirst(new, d)
  /\ HasSection(text, d) =>
       /\ HasSection(new, d)
       /\ \/ Section(new, d) = Section(text, d)
          \/ Holds(Section(text, d), Begin(c)) /\ Holds(Section(new, d), Begin(c))

\* The section of one channel is written: the other's stays, or has it inside.
LEMMA OtherSectionKept ==
  ASSUME NEW text \in Texts, NEW new, NEW b, NEW e, NEW c \in Channels, NEW v \in Nat, Replaced(text, new, b, e, c, v),
         NEW d \in Channels, d # c, \A i \in b..e : text[i] \notin {Begin(d), End(d)}
  PROVE  Spared(text, new, c, d)
<1>1. /\ Len(text) \in Nat /\ b \in 1..Len(text) /\ e \in 1..Len(text) /\ b < e /\ text[b] = Begin(c)
      /\ new \in Texts /\ Len(new) = Len(text) - e + b + 2 /\ new[b] = Begin(c)
      /\ \A i \in 1..(b - 1) : new[i] = text[i]
      /\ \A i \in (e + 1)..Len(text) : new[i - e + b + 2] = text[i]
  BY DEF Replaced
<1>2. \A m \in {Begin(d), End(d)} : m \notin {Begin(c), Template(c, v), End(c)}
  BY DEF Begin, End, Template, Channels
<1>9. \A i \in b..e : text[i] # Begin(d) /\ text[i] # End(d)
  OBVIOUS
<1> DEFINE B == At(text, Begin(d))
           E == At(text, End(d))
           B2 == At(new, Begin(d))
           E2 == At(new, End(d))
<1>3. /\ B \in 0..(b - 1) \/ B \in (e + 1)..Len(text)
      /\ B < b => B2 = B
      /\ B > e => B2 = B - e + b + 2
  BY <1>2, <1>9, PlacesMoved
<1>4. /\ E \in 0..(b - 1) \/ E \in (e + 1)..Len(text)
      /\ E < b => E2 = E
      /\ E > e => E2 = E - e + b + 2
  BY <1>2, <1>9, PlacesMoved
<1>5. /\ EndFirst(text, d) <=> E > 0 /\ E < B
      /\ EndFirst(new, d) <=> E2 > 0 /\ E2 < B2
      /\ HasSection(text, d) <=> B > 0 /\ E > B
      /\ HasSection(new, d) <=> B2 > 0 /\ E2 > B2
      /\ Section(text, d) = SubSeq(text, B + 1, E - 1)
      /\ Section(new, d) = SubSeq(new, B2 + 1, E2 - 1)
  BY DEF EndFirst, HasSection, Section
<1> HIDE DEF B, E, B2, E2
<1> DEFINE n == Len(text)
<1>8. n \in Nat /\ b \in Nat /\ e \in Nat /\ 1 <= b /\ b < e /\ e <= n /\ Len(new) = n - e + b + 2
  BY <1>1
<1> HIDE DEF n
<1>10. /\ B \in Nat /\ E \in Nat /\ B2 \in Nat /\ E2 \in Nat /\ B <= n /\ E <= n
       /\ (B < b /\ B2 = B) \/ (B > e /\ B2 = B - e + b + 2)
       /\ (E < b /\ E2 = E) \/ (E > e /\ E2 = E - e + b + 2)
  <2>0. n = Len(text)
    BY DEF n
  <2>1. (B \in Nat /\ B < b) \/ (B \in Nat /\ B > e /\ B <= n)
    <3>1. CASE B \in 0..(b - 1)
      BY <1>8, <3>1
    <3>2. CASE B \in (e + 1)..Len(text)
      BY <1>8, <2>0, <3>2
    <3> QED  BY <1>3, <3>1, <3>2
  <2>2. (E \in Nat /\ E < b) \/ (E \in Nat /\ E > e /\ E <= n)
    <3>1. CASE E \in 0..(b - 1)
      BY <1>8, <3>1
    <3>2. CASE E \in (e + 1)..Len(text)
      BY <1>8, <2>0, <3>2
    <3> QED  BY <1>4, <3>1, <3>2
  <2>3. B \in Nat /\ B <= n /\ B2 \in Nat /\ ((B < b /\ B2 = B) \/ (B > e /\ B2 = B - e + b + 2))
    BY <1>3, <1>8, <2>1
  <2>4. E \in Nat /\ E <= n /\ E2 \in Nat /\ ((E < b /\ E2 = E) \/ (E > e /\ E2 = E - e + b + 2))
    BY <1>4, <1>8, <2>2
  <2> QED  BY <2>3, <2>4
<1>6. EndFirst(text, d) => EndFirst(new, d)
  BY <1>5, <1>8, <1>10
<1>7. ASSUME HasSection(text, d)
      PROVE  /\ HasSection(new, d)
             /\ \/ Section(new, d) = Section(text, d)
                \/ Holds(Section(text, d), Begin(c)) /\ Holds(Section(new, d), Begin(c))
  <2>1. B > 0 /\ E > B
    BY <1>5, <1>7
  <2>2. HasSection(new, d)
    BY <1>5, <1>8, <1>10, <2>1
  <2> DEFINE i == B + 1
             j == E - 1
  <2>3. i \in Nat /\ j \in Nat /\ 1 <= i /\ i <= j + 1 /\ j <= Len(text)
    BY <1>8, <1>10, <2>1 DEF n
  <2>4. CASE E < b
    <3>1. B2 = B /\ E2 = E
      BY <1>8, <1>10, <2>1, <2>4
    <3>2. \A x \in i..j : x + 0 = x /\ x \in 1..(b - 1)
      BY <1>8, <1>10, <2>1, <2>4
    <3>3. i + 0 = i /\ j + 0 = j /\ 0 \in Int /\ 1 <= i + 0 /\ j + 0 <= Len(new)
      BY <1>8, <1>10, <2>1, <2>3, <2>4
    <3> HIDE DEF i, j
    <3>6. new \in Texts /\ \A x \in i..j : new[x + 0] = text[x]
      BY <1>1, <3>2
    <3>4. SubSeq(new, i + 0, j + 0) = SubSeq(text, i, j)
      BY <2>3, <3>3, <3>6, SamePart
    <3>5. SubSeq(new, i, j) = SubSeq(text, i, j)
      BY <3>3, <3>4
    <3> QED  BY <1>5, <2>2, <3>1, <3>5 DEF i, j
  <2>5. CASE B > e
    <3> DEFINE k == b + 2 - e
    <3>1. B2 + 1 = i + k /\ E2 - 1 = j + k /\ E > e
      BY <1>8, <1>10, <2>1, <2>5
    <3>2. \A x \in i..j : x + k = x - e + b + 2 /\ x \in (e + 1)..Len(text)
      BY <1>8, <1>10, <2>1, <2>5 DEF n
    <3>3. k \in Int /\ 1 <= i + k /\ j + k <= Len(new)
      BY <1>8, <1>10, <2>1, <2>5
    <3> HIDE DEF i, j, k
    <3>6. new \in Texts /\ \A x \in i..j : new[x + k] = text[x]
      BY <1>1, <3>2
    <3>4. SubSeq(new, i + k, j + k) = SubSeq(text, i, j)
      BY <2>3, <3>3, <3>6, SamePart
    <3> QED  BY <1>5, <2>2, <3>1, <3>4 DEF i, j
  <2>6. CASE B < b /\ E > e
    <3>1. B2 = B /\ E2 = E - e + b + 2 /\ b \in i..j
      BY <1>8, <1>10, <2>1, <2>6
    <3> DEFINE j2 == E2 - 1
    <3>2. j2 \in Nat /\ i <= j2 + 1 /\ j2 <= Len(new) /\ b \in i..j2
      BY <1>8, <1>10, <2>1, <2>6, <3>1
    <3> HIDE DEF i, j, j2
    <3>3. Holds(SubSeq(text, i, j), text[b])
      BY <2>3, <3>1, PartHolds
    <3>4. Holds(SubSeq(new, i, j2), new[b])
      BY <1>1, <2>3, <3>2, PartHolds
    <3>5. Section(text, d) = SubSeq(text, i, j) /\ Section(new, d) = SubSeq(new, i, j2)
      BY <1>5, <3>1 DEF i, j, j2
    <3> QED  BY <1>1, <2>2, <3>3, <3>4, <3>5
  <2> QED  BY <1>8, <1>10, <2>1, <2>4, <2>5, <2>6
<1> QED  BY <1>6, <1>7 DEF Spared

\* Where a piece stands first when a section is appended.
LEMMA PlaceStays ==
  ASSUME NEW text \in Texts, NEW new, NEW c \in Channels, NEW v \in Nat, Extended(text, new, c, v),
         NEW m, At(text, m) # 0
  PROVE  At(new, m) = At(text, m)
<1> DEFINE k == At(text, m)
<1>1. /\ new \in Texts /\ Len(text) \in Nat /\ Len(new) = Len(text) + 3
      /\ \A i \in 1..Len(text) : new[i] = text[i]
  BY DEF Extended
<1>2. k \in 1..Len(text) /\ text[k] = m /\ \A i \in 1..Len(text) : text[i] = m => k <= i
  <2>1. k \in 0..Len(text) /\ (k > 0 => text[k] = m /\ \A i \in 1..Len(text) : text[i] = m => k <= i)
    BY FirstPlace
  <2> QED  BY <1>1, <2>1
<1> HIDE DEF k
<1>3. k \in 1..Len(new) /\ new[k] = m /\ \A i \in 1..(k - 1) : i \in 1..Len(text) /\ ~(k <= i)
  BY <1>1, <1>2
<1>4. \A i \in 1..(k - 1) : new[i] # new[k]
  BY <1>1, <1>2, <1>3
<1>5. At(new, new[k]) = k
  BY <1>1, <1>3, <1>4, FirstPlaceIs
<1> QED  BY <1>3, <1>5 DEF k

\* Appending a section adds no other marker,
LEMMA PlaceOfNone ==
  ASSUME NEW text \in Texts, NEW new, NEW c \in Channels, NEW v \in Nat, Extended(text, new, c, v),
         NEW m, At(text, m) = 0, m \notin {Begin(c), Template(c, v), End(c)}
  PROVE  At(new, m) = 0
<1> DEFINE n == Len(text)
<1>1. /\ new \in Texts /\ n \in Nat /\ Len(new) = n + 3
      /\ \A i \in 1..n : new[i] = text[i]
      /\ new[n + 1] = Begin(c) /\ new[n + 2] = Template(c, v) /\ new[n + 3] = End(c)
  BY DEF Extended
<1>2. \A i \in 1..n : text[i] # m
  BY FirstPlace
<1> HIDE DEF n
<1>3. \A i \in 1..Len(new) : i \in 1..n \/ i = n + 1 \/ i = n + 2 \/ i = n + 3
  BY <1>1
<1>4. \A i \in 1..Len(new) : new[i] # m
  BY <1>1, <1>2, <1>3
<1>5. At(new, m) \in 0..Len(new) /\ (At(new, m) > 0 => new[At(new, m)] = m)
  BY <1>1, FirstPlace
<1> QED  BY <1>1, <1>4, <1>5

\* puts its first marker after all that was there,
LEMMA PlaceOfBegin ==
  ASSUME NEW text \in Texts, NEW new, NEW c \in Channels, NEW v \in Nat, Extended(text, new, c, v),
         At(text, Begin(c)) = 0
  PROVE  At(new, Begin(c)) = Len(text) + 1
<1> DEFINE n == Len(text)
<1>1. /\ new \in Texts /\ n \in Nat /\ Len(new) = n + 3
      /\ \A i \in 1..n : new[i] = text[i]
      /\ new[n + 1] = Begin(c)
  BY DEF Extended
<1>2. \A i \in 1..n : text[i] # Begin(c)
  BY FirstPlace
<1> HIDE DEF n
<1>3. n + 1 \in 1..Len(new) /\ \A i \in 1..((n + 1) - 1) : i \in 1..n
  BY <1>1
<1>4. \A i \in 1..((n + 1) - 1) : new[i] # new[n + 1]
  BY <1>1, <1>2, <1>3
<1>5. At(new, new[n + 1]) = n + 1
  BY <1>1, <1>3, <1>4, FirstPlaceIs
<1> QED  BY <1>1, <1>5 DEF n

\* and its last one two places further.
LEMMA PlaceOfEnd ==
  ASSUME NEW text \in Texts, NEW new, NEW c \in Channels, NEW v \in Nat, Extended(text, new, c, v),
         At(text, End(c)) = 0
  PROVE  At(new, End(c)) = Len(text) + 3
<1> DEFINE n == Len(text)
<1>1. /\ new \in Texts /\ n \in Nat /\ Len(new) = n + 3
      /\ \A i \in 1..n : new[i] = text[i]
      /\ new[n + 1] = Begin(c) /\ new[n + 2] = Template(c, v) /\ new[n + 3] = End(c)
  BY DEF Extended
<1>2. \A i \in 1..n : text[i] # End(c)
  BY FirstPlace
<1>6. Begin(c) # End(c) /\ Template(c, v) # End(c)
  BY PiecesAre
<1> HIDE DEF n
<1>3. n + 3 \in 1..Len(new) /\ \A i \in 1..((n + 3) - 1) : i \in 1..n \/ i = n + 1 \/ i = n + 2
  BY <1>1
<1>4. \A i \in 1..((n + 3) - 1) : new[i] # new[n + 3]
  BY <1>1, <1>2, <1>3, <1>6
<1>5. At(new, new[n + 3]) = n + 3
  BY <1>1, <1>3, <1>4, FirstPlaceIs
<1> QED  BY <1>1, <1>5 DEF n

\* A part that is one piece.
LEMMA OnePiecePart ==
  ASSUME NEW text \in Texts, NEW m \in 1..Len(text)
  PROVE  SubSeq(text, m, m) = <<text[m]>>
<1>1. text \in Seq(Pieces) /\ Len(text) \in Nat /\ m \in Nat /\ m - m + 1 = 1
  BY DEF Texts
<1>2. SubSeq(text, m, m) \in Seq(Pieces) /\ Len(SubSeq(text, m, m)) = 1 /\ SubSeq(text, m, m)[1] = text[m]
  BY <1>1
<1>3. <<text[m]>> \in Seq(Pieces) /\ Len(<<text[m]>>) = 1 /\ <<text[m]>>[1] = text[m]
  BY <1>1
<1>4. \A s, t \in Seq(Pieces) : Len(s) = 1 /\ Len(t) = 1 /\ s[1] = t[1] => s = t
  BY SeqEqual
<1> QED  BY <1>2, <1>3, <1>4

\* A section that was written holds its template alone.
LEMMA SplicedIsCurrent ==
  ASSUME NEW text \in Texts, NEW c \in Channels, NEW v \in Nat, HasSection(text, c),
         NEW new, new = Spliced(text, <<Template(c, v)>>, c)
  PROVE  HasSection(new, c) /\ Section(new, c) = <<Template(c, v)>>
<1> DEFINE b == At(text, Begin(c))
           e == At(text, End(c))
<1>1. Replaced(text, new, b, e, c, v)
  BY SplicedPlaces
<1>2. \A i \in 1..(b - 1) : text[i] \notin {Begin(c), End(c)}
  <2>1. /\ b \in Nat /\ e \in Nat /\ b <= Len(text) /\ Len(text) \in Nat /\ b > 0 /\ e > b
        /\ \A i \in 1..Len(text) : (text[i] = Begin(c) => b <= i) /\ (text[i] = End(c) => e <= i)
    BY FirstPlace DEF HasSection, Texts
  <2> HIDE DEF b, e
  <2>2. \A i \in 1..(b - 1) : i \in 1..Len(text) /\ ~(b <= i) /\ ~(e <= i)
    BY <2>1
  <2> QED  BY <2>1, <2>2
<1> HIDE DEF b, e
<1>3. /\ new \in Texts /\ b \in Nat \ {0} /\ Len(new) \in Nat /\ b + 2 <= Len(new)
      /\ \A i \in 1..(b - 1) : new[i] = text[i]
      /\ new[b] = Begin(c) /\ new[b + 1] = Template(c, v) /\ new[b + 2] = End(c)
  BY <1>1 DEF Replaced
<1>4. Begin(c) # End(c) /\ Template(c, v) \notin {Begin(c), End(c)}
  BY PiecesAre
<1>5. At(new, Begin(c)) = b
  <2>1. b \in 1..Len(new)
    BY <1>3
  <2>2. \A i \in 1..(b - 1) : new[i] # new[b]
    BY <1>2, <1>3
  <2> QED  BY <1>3, <2>1, <2>2, FirstPlaceIs
<1>6. At(new, End(c)) = b + 2
  <2>1. b + 2 \in 1..Len(new) /\ \A i \in 1..((b + 2) - 1) : i \in 1..(b - 1) \/ i = b \/ i = b + 1
    BY <1>3
  <2>2. \A i \in 1..((b + 2) - 1) : new[i] # new[b + 2]
    BY <1>2, <1>3, <1>4, <2>1
  <2> DEFINE m == b + 2
  <2> HIDE DEF m
  <2>3. m \in 1..Len(new) /\ \A i \in 1..(m - 1) : new[i] # new[m]
    BY <2>1, <2>2 DEF m
  <2>4. At(new, new[m]) = m
    BY <1>3, <2>3, FirstPlaceIs
  <2> QED  BY <1>3, <2>4 DEF m
<1>7. HasSection(new, c)
  BY <1>3, <1>5, <1>6 DEF HasSection
<1>8. Section(new, c) = SubSeq(new, b + 1, b + 1)
  <2>1. (b + 2) - 1 = b + 1
    BY <1>3
  <2> QED  BY <1>5, <1>6, <2>1 DEF Section
<1>9. SubSeq(new, b + 1, b + 1) = <<Template(c, v)>>
  <2> DEFINE m == b + 1
  <2>1. m \in 1..Len(new) /\ new[m] = Template(c, v)
    BY <1>3
  <2> HIDE DEF m
  <2>2. SubSeq(new, m, m) = <<new[m]>>
    BY <1>3, <2>1, OnePiecePart
  <2> QED  BY <2>1, <2>2 DEF m
<1> QED  BY <1>7, <1>8, <1>9

\* The section of a text that had neither marker.
LEMMA FreshSection ==
  ASSUME NEW text \in Texts, NEW new, NEW c \in Channels, NEW v \in Nat, Extended(text, new, c, v),
         At(text, Begin(c)) = 0, At(text, End(c)) = 0
  PROVE  HasSection(new, c) /\ Section(new, c) = <<Template(c, v)>>
<1> DEFINE n == Len(text)
<1>1. n \in Nat /\ At(new, Begin(c)) = n + 1 /\ At(new, End(c)) = n + 3
  BY PlaceOfBegin, PlaceOfEnd DEF Texts
<1>2. new \in Texts /\ Len(new) = n + 3 /\ new[n + 2] = Template(c, v)
  BY DEF Extended
<1> HIDE DEF n
<1>3. HasSection(new, c)
  BY <1>1 DEF HasSection
<1>4. Section(new, c) = SubSeq(new, n + 2, n + 2)
  <2>1. (n + 1) + 1 = n + 2 /\ (n + 3) - 1 = n + 2
    BY <1>1
  <2> QED  BY <1>1, <2>1 DEF Section
<1>5. SubSeq(new, n + 2, n + 2) = <<Template(c, v)>>
  <2> DEFINE m == n + 2
  <2>1. m \in 1..Len(new) /\ new[m] = Template(c, v)
    BY <1>1, <1>2
  <2> HIDE DEF m
  <2>2. SubSeq(new, m, m) = <<new[m]>>
    BY <1>2, <2>1, OnePiecePart
  <2> QED  BY <2>1, <2>2 DEF m
<1> QED  BY <1>3, <1>4, <1>5

\* A file that init makes.
LEMMA WrapIsCurrent ==
  ASSUME NEW c \in Channels, NEW v \in Nat, NEW new, new = Wrap(<<Template(c, v)>>, c)
  PROVE  HasSection(new, c) /\ Section(new, c) = <<Template(c, v)>> /\ Extended(<<>>, new, c, v)
<1>1. << >> \in Texts /\ Len(<<>>) = 0
  BY DEF Texts
<1>2. Extended(<<>>, new, c, v)
  BY <1>1, WrapIs DEF Extended
<1>3. \A m : At(<<>>, m) = 0
  BY <1>1, FirstPlace
<1> QED  BY <1>1, <1>2, <1>3, FreshSection

\* A section is appended: the other channel's stays as it was.
LEMMA OtherSectionExtended ==
  ASSUME NEW text \in Texts, NEW new, NEW c \in Channels, NEW v \in Nat, Extended(text, new, c, v),
         NEW d \in Channels, d # c
  PROVE  Spared(text, new, c, d)
<1> DEFINE B == At(text, Begin(d))
           E == At(text, End(d))
           n == Len(text)
<1>1. \A m \in {Begin(d), End(d)} : m \notin {Begin(c), Template(c, v), End(c)}
  BY DEF Begin, End, Template, Channels
<1>2. /\ n \in Nat /\ B \in 0..n /\ E \in 0..n
      /\ At(new, Begin(d)) = B /\ At(new, End(d)) = E
  <2>1. n \in Nat /\ B \in 0..n /\ E \in 0..n
    BY FirstPlace DEF Texts
  <2>2. At(new, Begin(d)) = B
    <3>1. CASE At(text, Begin(d)) # 0
      BY <3>1, PlaceStays
    <3>2. CASE At(text, Begin(d)) = 0
      BY <1>1, <3>2, PlaceOfNone
    <3> QED  BY <3>1, <3>2
  <2>3. At(new, End(d)) = E
    <3>1. CASE At(text, End(d)) # 0
      BY <3>1, PlaceStays
    <3>2. CASE At(text, End(d)) = 0
      BY <1>1, <3>2, PlaceOfNone
    <3> QED  BY <3>1, <3>2
  <2> QED  BY <2>1, <2>2, <2>3
<1>3. new \in Texts /\ Len(new) = n + 3 /\ \A i \in 1..n : new[i] = text[i]
  BY DEF Extended
<1>4. EndFirst(text, d) => EndFirst(new, d)
  BY <1>2 DEF EndFirst
<1>5. ASSUME HasSection(text, d)
      PROVE  HasSection(new, d) /\ Section(new, d) = Section(text, d)
  <2>1. B > 0 /\ E > B /\ HasSection(new, d)
    BY <1>2, <1>5 DEF HasSection
  <2>2. Section(text, d) = SubSeq(text, B + 1, E - 1) /\ Section(new, d) = SubSeq(new, B + 1, E - 1)
    BY <1>2 DEF Section
  <2> HIDE DEF B, E
  <2> DEFINE i == B + 1
             j == E - 1
  <2>3. i \in Nat /\ j \in Nat /\ 1 <= i /\ i <= j + 1 /\ j <= n
    BY <1>2, <2>1
  <2>4. i + 0 = i /\ j + 0 = j /\ 0 \in Int /\ 1 <= i + 0 /\ j + 0 <= Len(new)
    BY <1>2, <1>3, <2>3
  <2>5. \A x \in i..j : x + 0 = x /\ x \in 1..n
    BY <1>2, <2>1
  <2> HIDE DEF i, j
  <2>6. \A x \in i..j : new[x + 0] = text[x]
    BY <1>3, <2>5
  <2>7. SubSeq(new, i + 0, j + 0) = SubSeq(text, i, j)
    BY <1>3, <2>3, <2>4, <2>6, SamePart
  <2>8. SubSeq(new, i, j) = SubSeq(text, i, j)
    BY <2>4, <2>7
  <2> QED  BY <2>1, <2>2, <2>8 DEF i, j
<1> QED  BY <1>4, <1>5 DEF Spared

\* The appended section itself, in a text that may still have one of its markers.
LEMMA OwnSectionExtended ==
  ASSUME NEW text \in Texts, NEW new, NEW c \in Channels, NEW v \in Nat, Extended(text, new, c, v),
         ~HasSection(text, c)
  PROVE  /\ EndFirst(text, c) => EndFirst(new, c)
         /\ \/ EndFirst(new, c)
            \/ /\ HasSection(new, c)
               /\ Section(new, c) = <<Template(c, v)>> \/ Holds(Section(new, c), Begin(c))
<1> DEFINE B == At(text, Begin(c))
           E == At(text, End(c))
           n == Len(text)
           B2 == At(new, Begin(c))
           E2 == At(new, End(c))
<1>1. /\ n \in Nat /\ B \in 0..n /\ (B > 0 => B2 = B) /\ (B = 0 => B2 = n + 1)
  <2>1. n \in Nat /\ At(text, Begin(c)) \in 0..n
    BY FirstPlace DEF Texts
  <2>2. At(text, Begin(c)) # 0 => At(new, Begin(c)) = At(text, Begin(c))
    BY PlaceStays
  <2>3. At(text, Begin(c)) = 0 => At(new, Begin(c)) = n + 1
    BY PlaceOfBegin
  <2> HIDE DEF n
  <2>4. At(text, Begin(c)) > 0 => At(text, Begin(c)) # 0
    BY <2>1
  <2> QED  BY <2>1, <2>2, <2>3, <2>4
<1>2. /\ E \in 0..n /\ (E > 0 => E2 = E) /\ (E = 0 => E2 = n + 3)
  <2>1. n \in Nat /\ At(text, End(c)) \in 0..n
    BY FirstPlace DEF Texts
  <2>2. At(text, End(c)) # 0 => At(new, End(c)) = At(text, End(c))
    BY PlaceStays
  <2>3. At(text, End(c)) = 0 => At(new, End(c)) = n + 3
    BY PlaceOfEnd
  <2> HIDE DEF n
  <2>4. At(text, End(c)) > 0 => At(text, End(c)) # 0
    BY <2>1
  <2> QED  BY <2>1, <2>2, <2>3, <2>4
<1>3. /\ EndFirst(text, c) <=> E > 0 /\ E < B
      /\ EndFirst(new, c) <=> E2 > 0 /\ E2 < B2
      /\ HasSection(text, c) <=> B > 0 /\ E > B
      /\ HasSection(new, c) <=> B2 > 0 /\ E2 > B2
      /\ Section(new, c) = SubSeq(new, B2 + 1, E2 - 1)
  BY DEF EndFirst, HasSection, Section
<1>4. new \in Texts /\ Len(new) = n + 3 /\ new[n + 1] = Begin(c)
  BY DEF Extended
<1>5. B > 0 /\ E > 0 => B # E
  <2>1. Begin(c) # End(c)
    BY PiecesAre, 0 \in Nat
  <2> QED  BY <2>1, FirstPlace
<1> HIDE DEF B, E, B2, E2, n
<1>6. EndFirst(text, c) => EndFirst(new, c)
  BY <1>1, <1>2, <1>3
<1>7. CASE B = 0 /\ E = 0
  <2>1. At(text, Begin(c)) = 0 /\ At(text, End(c)) = 0
    BY <1>7 DEF B, E
  <2>2. HasSection(new, c) /\ Section(new, c) = <<Template(c, v)>>
    BY <2>1, FreshSection
  <2> QED  BY <1>6, <2>2
<1>8. CASE B = 0 /\ E > 0
  BY <1>1, <1>2, <1>3, <1>6, <1>8
<1>9. CASE B > 0 /\ E > 0
  <2>1. EndFirst(text, c)
    BY <1>1, <1>2, <1>3, <1>5, <1>9
  <2> QED  BY <1>6, <2>1
<1>10. CASE B > 0 /\ E = 0
  <2>1. B2 = B /\ E2 = n + 3 /\ HasSection(new, c)
    BY <1>1, <1>2, <1>3, <1>10
  <2> DEFINE i == B + 1
             j == n + 2
             x == n + 1
  <2>2. i \in Nat /\ j \in Nat /\ 1 <= i /\ i <= j + 1 /\ j <= Len(new) /\ x \in i..j /\ E2 - 1 = j
    BY <1>1, <1>4, <1>10, <2>1
  <2>3. new[x] = Begin(c)
    BY <1>4
  <2>4. Section(new, c) = SubSeq(new, i, j)
    BY <1>3, <2>1, <2>2
  <2> HIDE DEF i, j, x
  <2>5. Holds(SubSeq(new, i, j), new[x])
    BY <1>4, <2>2, PartHolds
  <2> QED  BY <1>6, <2>1, <2>3, <2>4, <2>5
<1> QED  BY <1>1, <1>2, <1>7, <1>8, <1>9, <1>10

-----------------------------------------------------------------------------
\* A text with a marker inside is no template.
LEMMA NotATemplate ==
  ASSUME NEW text, NEW c, Holds(text, Begin(c)), NEW d \in Channels, NEW v
  PROVE  text # <<Template(d, v)>>
<1> SUFFICES ASSUME text = <<Template(d, v)>> PROVE FALSE
  OBVIOUS
<1>1. \A i \in DOMAIN text : text[i] = Template(d, v)
  OBVIOUS
<1>2. Template(d, v) = Begin(c)
  BY <1>1 DEF Holds
<1>3. Template(d, v)[1] = d /\ Begin(c)[1] = "begin"
  BY DEF Template, Begin
<1> QED  BY <1>2, <1>3 DEF Channels

-----------------------------------------------------------------------------
\* The templates of a text with a new section: that of the section, and the other channel's as before.
LEMMA PiecesNamed ==
  ASSUME NEW c \in Channels, NEW v
  PROVE  Begin(c)[1] \notin Channels /\ End(c)[1] \notin Channels /\ Template(c, v)[1] = c
BY DEF Begin, End, Template, Channels

\* Replacing a section adds no template of the other channel, and one of its own.
LEMMA TemplatesReplaced ==
  ASSUME NEW text \in Texts, NEW new, NEW b, NEW e, NEW c \in Channels, NEW v \in Nat, Replaced(text, new, b, e, c, v)
  PROVE  /\ \A d \in Channels \ {c} : TemplatesIn(new, d) \subseteq TemplatesIn(text, d)
         /\ Template(c, v) \in TemplatesIn(new, c)
<1>1. /\ Len(text) \in Nat /\ b \in 1..Len(text) /\ e \in 1..Len(text) /\ b < e
      /\ new \in Texts /\ Len(new) = Len(text) - e + b + 2 /\ new[b + 1] = Template(c, v)
      /\ DOMAIN new = 1..Len(new) /\ DOMAIN text = 1..Len(text)
  BY DEF Replaced, Texts
<1>2. \A j \in 1..Len(new) :
        \/ j < b /\ new[j] = text[j]
        \/ new[j] \in {Begin(c), Template(c, v), End(c)} /\ b <= j /\ j <= b + 2
        \/ b + 2 < j /\ j + e - b - 2 \in (e + 1)..Len(text) /\ new[j] = text[j + e - b - 2]
  <2>1. ComesFrom(text, new, b, e, c, v)
    BY ReplacedComesFrom
  <2> QED  BY <2>1 DEF ComesFrom
<1>3. ASSUME NEW d \in Channels \ {c}, NEW j \in DOMAIN new, new[j][1] = d
      PROVE  \E i \in DOMAIN text : text[i] = new[j]
  <2>1. CASE j < b /\ new[j] = text[j]
    <3>1. j \in DOMAIN text
      BY <1>1, <2>1
    <3> QED  BY <2>1, <3>1
  <2>2. CASE new[j] \in {Begin(c), Template(c, v), End(c)}
    BY <1>3, <2>2, PiecesNamed
  <2>3. CASE b + 2 < j /\ j + e - b - 2 \in (e + 1)..Len(text) /\ new[j] = text[j + e - b - 2]
    <3>1. j + e - b - 2 \in DOMAIN text
      BY <1>1, <2>3
    <3> QED  BY <2>3, <3>1
  <2> QED  BY <1>1, <1>2, <2>1, <2>2, <2>3
<1>4. \A d \in Channels \ {c} : TemplatesIn(new, d) \subseteq TemplatesIn(text, d)
  BY <1>3 DEF TemplatesIn
<1>5. Template(c, v) \in TemplatesIn(new, c)
  <2>1. b + 1 \in DOMAIN new
    BY <1>1
  <2>2. new[b + 1][1] = c
    BY <1>1, PiecesNamed
  <2> DEFINE i == b + 1
  <2> HIDE DEF i
  <2>3. i \in DOMAIN new /\ new[i][1] = c /\ new[i] = Template(c, v)
    BY <1>1, <2>1, <2>2 DEF i
  <2> QED  BY <2>3 DEF TemplatesIn
<1> QED  BY <1>4, <1>5

\* So does appending one.
LEMMA TemplatesExtended ==
  ASSUME NEW text \in Texts, NEW new, NEW c \in Channels, NEW v \in Nat, Extended(text, new, c, v)
  PROVE  /\ \A d \in Channels \ {c} : TemplatesIn(new, d) \subseteq TemplatesIn(text, d)
         /\ Template(c, v) \in TemplatesIn(new, c)
<1> DEFINE n == Len(text)
<1>1. /\ new \in Texts /\ n \in Nat /\ Len(new) = n + 3
      /\ \A i \in 1..n : new[i] = text[i]
      /\ new[n + 1] = Begin(c) /\ new[n + 2] = Template(c, v) /\ new[n + 3] = End(c)
      /\ DOMAIN new = 1..Len(new) /\ DOMAIN text = 1..n
  BY DEF Extended, Texts
<1> HIDE DEF n
<1>3. ASSUME NEW d \in Channels \ {c}, NEW j \in DOMAIN new, new[j][1] = d
      PROVE  \E i \in DOMAIN text : text[i] = new[j]
  <2>1. j \in 1..n \/ j = n + 1 \/ j = n + 2 \/ j = n + 3
    BY <1>1
  <2>2. CASE j \in {n + 1, n + 2, n + 3}
    BY <1>1, <1>3, <2>2, PiecesNamed
  <2> QED  BY <1>1, <2>1, <2>2
<1>4. \A d \in Channels \ {c} : TemplatesIn(new, d) \subseteq TemplatesIn(text, d)
  BY <1>3 DEF TemplatesIn
<1>5. Template(c, v) \in TemplatesIn(new, c)
  <2>1. n + 2 \in DOMAIN new
    BY <1>1
  <2> QED  BY <1>1, <2>1, PiecesNamed DEF TemplatesIn
<1> QED  BY <1>4, <1>5

\* A text with at most one template of a channel holds no other than the one it has.
LEMMA TheTemplate ==
  ASSUME NEW text, NEW c \in Channels, NEW v, ~TwoOfAChannel(text), Template(c, v) \in TemplatesIn(text, c)
  PROVE  TemplatesIn(text, c) = {Template(c, v)}
BY DEF TwoOfAChannel, TemplatesIn, Channels

\* A section that is a template makes it one of the text's.
LEMMA SectionTemplate ==
  ASSUME NEW text \in Texts, NEW c \in Channels, NEW v, HasSection(text, c), Section(text, c) = <<Template(c, v)>>
  PROVE  Template(c, v) \in TemplatesIn(text, c)
<1> DEFINE b == At(text, Begin(c))
           e == At(text, End(c))
           n == Len(text)
<1>1. n \in Nat /\ b \in 1..n /\ e \in 1..n /\ b < e /\ DOMAIN text = 1..n
  BY FirstPlace DEF HasSection, Texts
<1>2. Section(text, c) = SubSeq(text, b + 1, e - 1)
  BY DEF Section
<1> HIDE DEF b, e, n
<1> DEFINE i == b + 1
           j == e - 1
<1>3. i \in Nat \ {0} /\ j \in Nat /\ j <= n /\ i <= j + 1
  BY <1>1
<1>4. i <= j => i \in DOMAIN text
  BY <1>1
<1> HIDE DEF i, j
<1>5. /\ Len(SubSeq(text, i, j)) = j - i + 1
      /\ \A k \in 1..(j - i + 1) : SubSeq(text, i, j)[k] = text[i + k - 1]
  BY <1>3, PartIs DEF n
<1>6. SubSeq(text, i, j) = <<Template(c, v)>> /\ Len(<<Template(c, v)>>) = 1 /\ <<Template(c, v)>>[1] = Template(c, v)
  BY <1>2 DEF i, j
<1>7. j - i + 1 = 1 /\ 1 \in 1..(j - i + 1) /\ i + 1 - 1 = i /\ i <= j
  BY <1>3, <1>5, <1>6
<1>8. text[i] = Template(c, v) /\ i \in DOMAIN text
  BY <1>4, <1>5, <1>6, <1>7
<1> QED  BY <1>8, PiecesNamed DEF TemplatesIn

-----------------------------------------------------------------------------
\* A text all of whose pieces but the last are kept.
LEMMA KeepAllButLast ==
  ASSUME NEW text \in Texts, NEW pieces, NEW last \in Pieces, last \notin pieces, \A i \in DOMAIN text : text[i] \in pieces
  PROVE  Keep(text \o <<last>>, pieces) = text
<1> DEFINE new == text \o <<last>>
           n == Len(text)
           kept == {i \in DOMAIN new : new[i] \in pieces}
<1>1. n \in Nat /\ DOMAIN text = 1..n /\ text \in Seq(Pieces) /\ <<last>> \in Texts /\ Len(<<last>>) = 1 /\ <<last>>[1] = last
  BY DEF Texts
<1>2. /\ new \in Texts /\ Len(new) = n + 1
      /\ \A i \in 1..(n + 1) : new[i] = IF i <= n THEN text[i] ELSE <<last>>[i - n]
  <2> DEFINE more == <<last>>
  <2> HIDE DEF more
  <2>1. more \in Texts /\ Len(more) = 1
    BY <1>1 DEF more
  <2>2. /\ text \o more \in Texts /\ Len(text \o more) = Len(text) + Len(more)
        /\ \A i \in 1..(Len(text) + Len(more)) : (text \o more)[i] = IF i <= Len(text) THEN text[i] ELSE more[i - Len(text)]
    BY <2>1, Joined
  <2>3. /\ text \o more \in Texts /\ Len(text \o more) = n + 1
        /\ \A i \in 1..(n + 1) : (text \o more)[i] = IF i <= n THEN text[i] ELSE more[i - n]
    BY <2>1, <2>2
  <2> QED  BY <2>3 DEF more
<1> HIDE DEF new
<1>3. DOMAIN new = 1..(n + 1) /\ (\A i \in 1..n : new[i] = text[i]) /\ new[n + 1] = last
  <2>1. DOMAIN new = 1..(n + 1)
    BY <1>1, <1>2 DEF Texts
  <2>2. \A i \in 1..n : i \in 1..(n + 1) /\ i <= n
    BY <1>1
  <2>3. n + 1 \in 1..(n + 1) /\ ~(n + 1 <= n) /\ (n + 1) - n = 1
    BY <1>1
  <2> QED  BY <1>1, <1>2, <2>1, <2>2, <2>3
<1> HIDE DEF n
<1>4. kept = 1..n
  <2>1. \A i \in 1..(n + 1) : i \in 1..n \/ i = n + 1
    BY <1>1
  <2>2. \A i \in 1..n : i \in 1..(n + 1)
    BY <1>1
  <2>3. \A i \in 1..n : new[i] \in pieces
    BY <1>1, <1>3
  <2>4. new[n + 1] \notin pieces
    BY <1>3
  <2> QED  BY <1>3, <2>1, <2>2, <2>3, <2>4
<1>5. Cardinality(kept) = n /\ \A i \in kept : Cardinality({j \in kept : j <= i}) = i
  <2>1. Cardinality(1..n) = n
    BY <1>1, FS_Interval
  <2>2. ASSUME NEW i \in 1..n
        PROVE  Cardinality({j \in 1..n : j <= i}) = i
    <3>1. {j \in 1..n : j <= i} = 1..i
      BY <1>1
    <3>2. Cardinality(1..i) = i
      BY <1>1, FS_Interval
    <3> QED  BY <3>1, <3>2
  <2> HIDE DEF kept
  <2> QED  BY <1>4, <2>1, <2>2
<1>6. Keep(new, pieces) = [k \in 1..Cardinality(kept) |-> new[CHOOSE i \in kept : Cardinality({j \in kept : j <= i}) = k]]
  BY DEF Keep
<1> HIDE DEF kept
<1>7. \A k \in 1..n : (CHOOSE i \in kept : Cardinality({j \in kept : j <= i}) = k) = k
  BY <1>4, <1>5
<1>8. Keep(new, pieces) = [k \in 1..n |-> text[k]]
  BY <1>3, <1>5, <1>6, <1>7
<1>9. text = [k \in 1..n |-> text[k]]
  BY <1>1 DEF n
<1> QED  BY <1>8, <1>9 DEF new

\* Merging again changes nothing.
LEMMA KeepTwice ==
  ASSUME NEW text \in Texts, NEW pieces, pieces \subseteq {User, Mixed}, NEW v \in Nat
  PROVE  Keep(Keep(text, pieces) \o <<Template("lat", v)>>, pieces) = Keep(text, pieces)
<1> DEFINE kept == Keep(text, pieces)
           last == Template("lat", v)
<1>1. kept \in Texts /\ \A i \in DOMAIN kept : kept[i] \in pieces
  BY KeptAreThose
<1>2. last \in Pieces /\ last \notin pieces
  <2>1. last \in Pieces /\ ~IsUsers(last)
    BY PiecesAre DEF Channels
  <2> QED  BY <2>1 DEF IsUsers
<1> HIDE DEF kept, last
<1>3. Keep(kept \o <<last>>, pieces) = kept
  BY <1>1, <1>2, KeepAllButLast
<1> QED  BY <1>3 DEF kept, last

\* Of a text without the user's pieces nothing is kept.
LEMMA KeepsNothing ==
  ASSUME NEW text \in Texts, UsersIn(text) = 0, NEW v \in Nat
  PROVE  Keep(text, {User, Mixed}) \o <<Template("lat", v)>> = <<Template("lat", v)>>
<1> DEFINE kept == Keep(text, {User, Mixed})
<1>1. kept \in Texts /\ (\A i \in DOMAIN kept : kept[i] \in {User, Mixed}) /\ UsersIn(kept) = UsersIn(text)
  BY KeptAreThose DEF IsUsers
<1> HIDE DEF kept
<1>2. UserPlaces(kept) = DOMAIN kept
  BY <1>1 DEF UserPlaces, IsUsers
<1>3. DOMAIN kept = {}
  BY <1>1, <1>2, UsersAreCounted, FS_EmptySet
<1>4. kept = << >>
  BY <1>1, <1>3 DEF Texts
<1>5. << >> \o <<Template("lat", v)>> = <<Template("lat", v)>>
  OBVIOUS
<1> QED  BY <1>4, <1>5 DEF kept

-----------------------------------------------------------------------------
\* What the user's edits leave of the templates: all, each from a place of its own.
CarriedOver(text, new, f) ==
  /\ \A j \in DOMAIN new : new[j][1] \in Channels => f[j] \in DOMAIN text /\ text[f[j]] = new[j]
  /\ \A j, k \in DOMAIN new : new[j][1] \in Channels /\ new[k][1] \in Channels /\ j # k => f[j] # f[k]
  /\ \A i \in DOMAIN text : text[i][1] \in Channels => \E j \in DOMAIN new : new[j] = text[i]
SameTemplates(text, new) ==
  /\ \A c \in Channels : TemplatesIn(new, c) = TemplatesIn(text, c)
  /\ TwoOfAChannel(new) => TwoOfAChannel(text)

\* A text whose pieces but the user's are carried over has the same templates.
LEMMA CarriedOverKeeps ==
  ASSUME NEW text, NEW new, NEW f, CarriedOver(text, new, f)
  PROVE  SameTemplates(text, new)
<1>1. \A c \in Channels : TemplatesIn(new, c) = TemplatesIn(text, c)
  <2> SUFFICES ASSUME NEW c \in Channels
               PROVE  TemplatesIn(new, c) = TemplatesIn(text, c)
    OBVIOUS
  <2>1. ASSUME NEW j \in DOMAIN new, new[j][1] = c
        PROVE  new[j] \in TemplatesIn(text, c)
    BY <2>1 DEF TemplatesIn, CarriedOver
  <2>2. ASSUME NEW i \in DOMAIN text, text[i][1] = c
        PROVE  text[i] \in TemplatesIn(new, c)
    BY <2>2 DEF TemplatesIn, CarriedOver
  <2>3. TemplatesIn(new, c) \subseteq TemplatesIn(text, c)
    BY <2>1 DEF TemplatesIn
  <2>4. TemplatesIn(text, c) \subseteq TemplatesIn(new, c)
    BY <2>2 DEF TemplatesIn, CarriedOver
  <2> QED  BY <2>3, <2>4
<1>2. ASSUME TwoOfAChannel(new)
      PROVE  TwoOfAChannel(text)
  <2>1. PICK j, k \in DOMAIN new : j # k /\ new[j][1] = new[k][1] /\ new[j][1] \in {"lat", "fork"}
    BY <1>2 DEF TwoOfAChannel
  <2>2. /\ f[j] \in DOMAIN text /\ f[k] \in DOMAIN text /\ text[f[j]] = new[j] /\ text[f[k]] = new[k]
        /\ f[j] # f[k]
    BY <2>1 DEF Channels, CarriedOver
  <2> QED  BY <2>1, <2>2 DEF TwoOfAChannel
<1> QED  BY <1>1, <1>2 DEF SameTemplates

\* A piece inserted: what is at each place.
LEMMA InsertedPlaces ==
  ASSUME NEW text \in Texts, NEW piece \in Pieces, NEW i \in 1..(Len(text) + 1), NEW new, new = InsertAt(text, i, piece)
  PROVE  /\ new \in Texts /\ Len(text) \in Nat /\ Len(new) = Len(text) + 1 /\ DOMAIN new = 1..(Len(text) + 1)
         /\ \A j \in 1..(i - 1) : new[j] = text[j]
         /\ new[i] = piece
         /\ \A j \in (i + 1)..(Len(text) + 1) : new[j] = text[j - 1]
<1> DEFINE n == Len(text)
           front == SubSeq(text, 1, i - 1)
           back == SubSeq(text, i, n)
           middle == <<piece>>
<1>1. n \in Nat /\ middle \in Texts /\ Len(middle) = 1 /\ middle[1] = piece
  BY DEF Texts
<1>2. new = (front \o middle) \o back
  BY DEF InsertAt
<1>3. front \in Texts /\ Len(front) = i - 1 /\ \A k \in 1..(i - 1) : front[k] = text[k]
  <2> DEFINE m == i - 1
  <2>1. m \in Nat /\ m <= Len(text) /\ 1 <= m + 1 /\ m - 1 + 1 = m /\ (\A k \in 1..m : 1 + k - 1 = k)
    BY <1>1
  <2> HIDE DEF m
  <2>2. /\ SubSeq(text, 1, m) \in Texts /\ Len(SubSeq(text, 1, m)) = m - 1 + 1
        /\ \A k \in 1..(m - 1 + 1) : SubSeq(text, 1, m)[k] = text[1 + k - 1]
    BY <2>1, PartIs
  <2>3. SubSeq(text, 1, m) \in Texts /\ Len(SubSeq(text, 1, m)) = m /\ \A k \in 1..m : SubSeq(text, 1, m)[k] = text[k]
    BY <2>1, <2>2
  <2> QED  BY <2>3 DEF m
<1>4. back \in Texts /\ Len(back) = n - i + 1 /\ \A k \in 1..(n - i + 1) : back[k] = text[i + k - 1]
  BY <1>1, PartIs
<1> HIDE DEF front, back, middle, n
<1> DEFINE upper == front \o middle
<1>5. /\ upper \in Texts /\ Len(upper) = i
      /\ \A j \in 1..i : upper[j] = IF j <= i - 1 THEN front[j] ELSE middle[j - (i - 1)]
  <2>1. /\ upper \in Texts /\ Len(upper) = Len(front) + Len(middle)
        /\ \A j \in 1..(Len(front) + Len(middle)) : upper[j] = IF j <= Len(front) THEN front[j] ELSE middle[j - Len(front)]
    BY <1>1, <1>3, Joined
  <2>2. (i - 1) + 1 = i
    BY <1>1 DEF n
  <2> QED  BY <1>1, <1>3, <2>1, <2>2
<1> HIDE DEF upper
<1>6. /\ new \in Texts /\ Len(new) = n + 1
      /\ \A j \in 1..(n + 1) : new[j] = IF j <= i THEN upper[j] ELSE back[j - i]
  <2>1. /\ upper \o back \in Texts /\ Len(upper \o back) = Len(upper) + Len(back)
        /\ \A j \in 1..(Len(upper) + Len(back)) : (upper \o back)[j] = IF j <= Len(upper) THEN upper[j] ELSE back[j - Len(upper)]
    BY <1>4, <1>5, Joined
  <2>2. i + (n - i + 1) = n + 1
    BY <1>1 DEF n
  <2> QED  BY <1>2, <1>4, <1>5, <2>1, <2>2 DEF upper
<1>7. \A j \in 1..(i - 1) : new[j] = text[j]
  <2>1. \A j \in 1..(i - 1) : j \in 1..(n + 1) /\ j \in 1..i /\ j <= i /\ j <= i - 1
    BY <1>1 DEF n
  <2> QED  BY <1>3, <1>5, <1>6, <2>1
<1>8. new[i] = piece
  <2>1. i \in 1..(n + 1) /\ i \in 1..i /\ i <= i /\ ~(i <= i - 1) /\ i - (i - 1) = 1
    BY <1>1 DEF n
  <2> QED  BY <1>1, <1>5, <1>6, <2>1
<1>9. \A j \in (i + 1)..(n + 1) : new[j] = text[j - 1]
  <2>1. \A j \in (i + 1)..(n + 1) : j \in 1..(n + 1) /\ ~(j <= i) /\ j - i \in 1..(n - i + 1) /\ i + (j - i) - 1 = j - 1
    BY <1>1 DEF n
  <2> QED  BY <1>4, <1>6, <2>1
<1>10. DOMAIN new = 1..(n + 1)
  BY <1>6 DEF Texts
<1> QED  BY <1>1, <1>6, <1>7, <1>8, <1>9, <1>10 DEF n

\* A piece removed: what is at each place.
LEMMA RemovedPlaces ==
  ASSUME NEW text \in Texts, NEW i \in 1..Len(text), NEW new, new = RemoveAt(text, i)
  PROVE  /\ new \in Texts /\ Len(text) \in Nat /\ Len(new) = Len(text) - 1 /\ DOMAIN new = 1..(Len(text) - 1)
         /\ \A j \in 1..(i - 1) : new[j] = text[j]
         /\ \A j \in i..(Len(text) - 1) : new[j] = text[j + 1]
<1> DEFINE n == Len(text)
           front == SubSeq(text, 1, i - 1)
           back == SubSeq(text, i + 1, n)
<1>1. n \in Nat
  BY DEF Texts
<1>2. new = front \o back
  BY DEF RemoveAt
<1>3. front \in Texts /\ Len(front) = i - 1 /\ \A k \in 1..(i - 1) : front[k] = text[k]
  <2> DEFINE m == i - 1
  <2>1. m \in Nat /\ m <= Len(text) /\ 1 <= m + 1 /\ m - 1 + 1 = m /\ (\A k \in 1..m : 1 + k - 1 = k)
    BY <1>1
  <2> HIDE DEF m
  <2>2. /\ SubSeq(text, 1, m) \in Texts /\ Len(SubSeq(text, 1, m)) = m - 1 + 1
        /\ \A k \in 1..(m - 1 + 1) : SubSeq(text, 1, m)[k] = text[1 + k - 1]
    BY <2>1, PartIs
  <2>3. SubSeq(text, 1, m) \in Texts /\ Len(SubSeq(text, 1, m)) = m /\ \A k \in 1..m : SubSeq(text, 1, m)[k] = text[k]
    BY <2>1, <2>2
  <2> QED  BY <2>3 DEF m
<1>4. back \in Texts /\ Len(back) = n - i /\ \A k \in 1..(n - i) : back[k] = text[i + k]
  <2> DEFINE m == i + 1
  <2>1. m \in Nat \ {0} /\ n <= Len(text) /\ n \in Nat /\ m <= n + 1 /\ n - m + 1 = n - i
        /\ \A k \in 1..(n - i) : m + k - 1 = i + k
    BY <1>1
  <2> HIDE DEF m
  <2>2. /\ SubSeq(text, m, n) \in Texts /\ Len(SubSeq(text, m, n)) = n - m + 1
        /\ \A k \in 1..(n - m + 1) : SubSeq(text, m, n)[k] = text[m + k - 1]
    BY <2>1, PartIs
  <2>3. back = SubSeq(text, m, n)
    BY DEF m
  <2> QED  BY <2>1, <2>2, <2>3
<1> HIDE DEF front, back, n
<1>6. /\ new \in Texts /\ Len(new) = n - 1
      /\ \A j \in 1..(n - 1) : new[j] = IF j <= i - 1 THEN front[j] ELSE back[j - (i - 1)]
  <2>1. /\ front \o back \in Texts /\ Len(front \o back) = Len(front) + Len(back)
        /\ \A j \in 1..(Len(front) + Len(back)) : (front \o back)[j] = IF j <= Len(front) THEN front[j] ELSE back[j - Len(front)]
    BY <1>3, <1>4, Joined
  <2>2. (i - 1) + (n - i) = n - 1
    BY <1>1 DEF n
  <2> QED  BY <1>2, <1>3, <1>4, <2>1, <2>2
<1>7. \A j \in 1..(i - 1) : new[j] = text[j]
  <2>1. \A j \in 1..(i - 1) : j \in 1..(n - 1) /\ j <= i - 1
    BY <1>1 DEF n
  <2> QED  BY <1>3, <1>6, <2>1
<1>9. \A j \in i..(n - 1) : new[j] = text[j + 1]
  <2>1. \A j \in i..(n - 1) : j \in 1..(n - 1) /\ ~(j <= i - 1) /\ j - (i - 1) \in 1..(n - i) /\ i + (j - (i - 1)) = j + 1
    BY <1>1 DEF n
  <2> QED  BY <1>4, <1>6, <2>1
<1>10. DOMAIN new = 1..(n - 1)
  BY <1>6 DEF Texts
<1> QED  BY <1>1, <1>6, <1>7, <1>9, <1>10 DEF n

\* A text with a piece of the user's counts at least one.
LEMMA SomeUser ==
  ASSUME NEW text \in Texts, NEW i \in DOMAIN text, IsUsers(text[i])
  PROVE  UsersIn(text) > 0 /\ UsersIn(text) # 0
<1>1. UserPlaces(text) # {}
  BY DEF UserPlaces
<1>2. UsersIn(text) # 0 /\ UsersIn(text) \in Nat
  BY <1>1, UsersAreCounted, FS_EmptySet
<1> QED  BY <1>2

Unmarked(text) == \A i \in DOMAIN text : text[i][1] \notin {"begin", "end"}

\* A piece the user puts into a text.
LEMMA InsertedTemplates ==
  ASSUME NEW text \in Texts, NEW i \in 1..(Len(text) + 1), NEW new, new = InsertAt(text, i, User)
  PROVE  /\ \A c \in Channels : TemplatesIn(new, c) = TemplatesIn(text, c)
         /\ TwoOfAChannel(new) => TwoOfAChannel(text)
         /\ new \in Texts /\ UsersIn(new) # 0 /\ (Unmarked(text) => Unmarked(new))
<1> DEFINE n == Len(text)
           f == [j \in DOMAIN new |-> IF j < i THEN j ELSE j - 1]
<1>1. User \in Pieces /\ User[1] \notin Channels \cup {"begin", "end"} /\ IsUsers(User)
  BY DEF User, Pieces, Channels, IsUsers
<1>2. /\ new \in Texts /\ n \in Nat /\ Len(new) = n + 1 /\ DOMAIN new = 1..(n + 1)
      /\ \A j \in 1..(i - 1) : new[j] = text[j]
      /\ new[i] = User
      /\ \A j \in (i + 1)..(n + 1) : new[j] = text[j - 1]
  BY <1>1, InsertedPlaces
<1>3. DOMAIN text = 1..n
  BY DEF Texts
<1> HIDE DEF n
<1>4. ASSUME NEW j \in DOMAIN new, j # i
      PROVE  f[j] \in DOMAIN text /\ text[f[j]] = new[j]
  <2>1. CASE j < i
    <3>1. j \in 1..(i - 1) /\ j \in 1..n /\ f[j] = j
      BY <1>2, <2>1 DEF n
    <3> QED  BY <1>2, <1>3, <3>1
  <2>2. CASE ~(j < i)
    <3>1. j \in (i + 1)..(n + 1) /\ j - 1 \in 1..n /\ f[j] = j - 1
      BY <1>2, <1>4, <2>2 DEF n
    <3> QED  BY <1>2, <1>3, <3>1
  <2> QED  BY <2>1, <2>2
<1>5. \A j, k \in DOMAIN new : j # i /\ k # i /\ j # k => f[j] # f[k]
  BY <1>2 DEF n
<1>6. ASSUME NEW x \in DOMAIN text
      PROVE  \E j \in DOMAIN new : new[j] = text[x]
  <2>1. CASE x < i
    <3>1. x \in 1..(i - 1) /\ x \in DOMAIN new
      BY <1>2, <1>3, <2>1
    <3> QED  BY <1>2, <3>1
  <2>2. CASE ~(x < i)
    <3>1. x + 1 \in (i + 1)..(n + 1) /\ x + 1 \in DOMAIN new /\ (x + 1) - 1 = x
      BY <1>2, <1>3, <2>2 DEF n
    <3>2. new[x + 1] = text[x]
      BY <1>2, <3>1
    <3> QED  BY <3>1, <3>2
  <2> QED  BY <2>1, <2>2
<1> HIDE DEF f
<1>7. /\ \A c \in Channels : TemplatesIn(new, c) = TemplatesIn(text, c)
      /\ TwoOfAChannel(new) => TwoOfAChannel(text)
  <2>1. \A j \in DOMAIN new : new[j][1] \in Channels => j # i
    BY <1>1, <1>2
  <2>2. \A j \in DOMAIN new : new[j][1] \in Channels => f[j] \in DOMAIN text /\ text[f[j]] = new[j]
    BY <1>4, <2>1
  <2>3. \A j, k \in DOMAIN new : new[j][1] \in Channels /\ new[k][1] \in Channels /\ j # k => f[j] # f[k]
    BY <1>5, <2>1
  <2>4. CarriedOver(text, new, f)
    BY <1>6, <2>2, <2>3 DEF CarriedOver
  <2> QED  BY <2>4, CarriedOverKeeps DEF SameTemplates
<1>8. UsersIn(new) # 0
  <2>1. i \in DOMAIN new
    BY <1>2 DEF n
  <2> QED  BY <1>1, <1>2, <2>1, SomeUser
<1>9. Unmarked(text) => Unmarked(new)
  BY <1>1, <1>2, <1>4 DEF Unmarked
<1> QED  BY <1>2, <1>7, <1>8, <1>9

\* A marker the user takes out of a text.
LEMMA RemovedTemplates ==
  ASSUME NEW text \in Texts, NEW i \in 1..Len(text), text[i][1] \in {"begin", "end"}, NEW new, new = RemoveAt(text, i)
  PROVE  /\ \A c \in Channels : TemplatesIn(new, c) = TemplatesIn(text, c)
         /\ TwoOfAChannel(new) => TwoOfAChannel(text)
         /\ new \in Texts /\ ~Unmarked(text)
<1> DEFINE n == Len(text)
           f == [j \in DOMAIN new |-> IF j < i THEN j ELSE j + 1]
<1>2. /\ new \in Texts /\ n \in Nat /\ DOMAIN new = 1..(n - 1)
      /\ \A j \in 1..(i - 1) : new[j] = text[j]
      /\ \A j \in i..(n - 1) : new[j] = text[j + 1]
  BY RemovedPlaces
<1>3. DOMAIN text = 1..n /\ text[i][1] \notin Channels
  BY DEF Texts, Channels
<1> HIDE DEF n
<1>4. ASSUME NEW j \in DOMAIN new
      PROVE  f[j] \in DOMAIN text /\ text[f[j]] = new[j]
  <2>1. CASE j < i
    <3>1. j \in 1..(i - 1) /\ j \in 1..n /\ f[j] = j
      BY <1>2, <2>1 DEF n
    <3> QED  BY <1>2, <1>3, <3>1
  <2>2. CASE ~(j < i)
    <3>1. j \in i..(n - 1) /\ j + 1 \in 1..n /\ f[j] = j + 1
      BY <1>2, <2>2 DEF n
    <3> QED  BY <1>2, <1>3, <3>1
  <2> QED  BY <2>1, <2>2
<1>5. \A j, k \in DOMAIN new : j # k => f[j] # f[k]
  BY <1>2 DEF n
<1>6. ASSUME NEW x \in DOMAIN text, x # i
      PROVE  \E j \in DOMAIN new : new[j] = text[x]
  <2>1. CASE x < i
    <3>1. x \in 1..(i - 1) /\ x \in DOMAIN new
      BY <1>2, <1>3, <2>1 DEF n
    <3> QED  BY <1>2, <3>1
  <2>2. CASE ~(x < i)
    <3>1. x - 1 \in i..(n - 1) /\ x - 1 \in DOMAIN new /\ (x - 1) + 1 = x
      BY <1>2, <1>3, <1>6, <2>2 DEF n
    <3>2. new[x - 1] = text[x]
      BY <1>2, <3>1
    <3> QED  BY <3>1, <3>2
  <2> QED  BY <2>1, <2>2
<1> HIDE DEF f
<1>7. /\ \A c \in Channels : TemplatesIn(new, c) = TemplatesIn(text, c)
      /\ TwoOfAChannel(new) => TwoOfAChannel(text)
  <2>1. \A x \in DOMAIN text : text[x][1] \in Channels => x # i
    BY <1>3
  <2>2. \A x \in DOMAIN text : text[x][1] \in Channels => \E j \in DOMAIN new : new[j] = text[x]
    BY <1>6, <2>1
  <2>3. CarriedOver(text, new, f)
    BY <1>4, <1>5, <2>2 DEF CarriedOver
  <2> QED  BY <2>3, CarriedOverKeeps DEF SameTemplates
<1>8. ~Unmarked(text)
  <2>1. i \in DOMAIN text
    BY <1>2, <1>3 DEF n
  <2> QED  BY <2>1 DEF Unmarked
<1> QED  BY <1>2, <1>7, <1>8

\* A hook entry the user appends.
LEMMA AppendedTemplates ==
  ASSUME NEW text \in Texts, NEW new, new = Append(text, Mixed)
  PROVE  /\ \A c \in Channels : TemplatesIn(new, c) = TemplatesIn(text, c)
         /\ TwoOfAChannel(new) => TwoOfAChannel(text)
         /\ new \in Texts
<1> DEFINE n == Len(text)
           f == [j \in DOMAIN new |-> j]
<1>1. Mixed \in Pieces /\ Mixed[1] \notin Channels
  BY DEF Mixed, Pieces, Channels
<1>2. /\ new \in Texts /\ n \in Nat /\ DOMAIN new = 1..(n + 1) /\ DOMAIN text = 1..n
      /\ \A j \in 1..n : new[j] = text[j]
      /\ new[n + 1] = Mixed
  BY <1>1 DEF Texts
<1> HIDE DEF n
<1>3. \A j \in DOMAIN new : j # n + 1 => j \in DOMAIN text /\ text[j] = new[j] /\ f[j] = j
  BY <1>2
<1>4. \A j \in DOMAIN text : j \in DOMAIN new /\ new[j] = text[j]
  BY <1>2
<1>5. \A j \in DOMAIN new : f[j] = j
  OBVIOUS
<1> HIDE DEF f
<1>6. /\ \A c \in Channels : TemplatesIn(new, c) = TemplatesIn(text, c)
      /\ TwoOfAChannel(new) => TwoOfAChannel(text)
  <2>1. \A j \in DOMAIN new : new[j][1] \in Channels => f[j] \in DOMAIN text /\ text[f[j]] = new[j]
    BY <1>1, <1>2, <1>3
  <2>2. \A j, k \in DOMAIN new : j # k => f[j] # f[k]
    BY <1>5
  <2>3. CarriedOver(text, new, f)
    BY <1>4, <2>1, <2>2 DEF CarriedOver
  <2> QED  BY <2>3, CarriedOverKeeps DEF SameTemplates
<1> QED  BY <1>2, <1>6

\* What an edit leaves.
LEMMA EditedFile ==
  ASSUME IInv, EditFile
  PROVE  \E file \in DOMAIN files, new \in Texts :
           /\ files' = [files EXCEPT ![file] = new]
           /\ \A c \in Channels : TemplatesIn(new, c) = TemplatesIn(files[file], c)
           /\ TwoOfAChannel(new) => TwoOfAChannel(files[file])
           /\ file \notin HookPaths /\ Unmarked(files[file]) => Unmarked(new) /\ UsersIn(new) # 0
<1>1. PICK file \in DOMAIN files : LET text == files[file] IN
       \E edited \in
            {InsertAt(text, i, User) : i \in Places(text)} \cup
            {RemoveAt(text, i) : i \in {j \in 1..Len(text) : text[j][1] \in {"begin", "end"}}} \cup
            (IF file \in {".claude/settings.json", ".codex/hooks.json"}
             THEN {Append(text, Mixed)} ELSE {}) :
         files' = [files EXCEPT ![file] = edited]
  BY DEF EditFile
<1> DEFINE text == files[file]
<1>2. text \in Texts
  BY DEF IInv, TextsAreTexts
<1>3. PICK new \in
            {InsertAt(text, i, User) : i \in Places(text)} \cup
            {RemoveAt(text, i) : i \in {j \in 1..Len(text) : text[j][1] \in {"begin", "end"}}} \cup
            (IF file \in {".claude/settings.json", ".codex/hooks.json"}
             THEN {Append(text, Mixed)} ELSE {}) :
         files' = [files EXCEPT ![file] = new]
  BY <1>1
<1> HIDE DEF text
<1>4. ASSUME NEW i \in Places(text), new = InsertAt(text, i, User)
      PROVE  /\ \A c \in Channels : TemplatesIn(new, c) = TemplatesIn(text, c)
             /\ TwoOfAChannel(new) => TwoOfAChannel(text)
             /\ new \in Texts /\ UsersIn(new) # 0 /\ (Unmarked(text) => Unmarked(new))
  <2>1. i \in 1..(Len(text) + 1)
    BY <1>2 DEF Places, Texts
  <2> QED  BY <1>2, <1>4, <2>1, InsertedTemplates
<1>5. ASSUME NEW i \in {j \in 1..Len(text) : text[j][1] \in {"begin", "end"}}, new = RemoveAt(text, i)
      PROVE  /\ \A c \in Channels : TemplatesIn(new, c) = TemplatesIn(text, c)
             /\ TwoOfAChannel(new) => TwoOfAChannel(text)
             /\ new \in Texts /\ ~Unmarked(text)
  BY <1>2, <1>5, RemovedTemplates
<1>6. ASSUME file \in HookPaths, new = Append(text, Mixed)
      PROVE  /\ \A c \in Channels : TemplatesIn(new, c) = TemplatesIn(text, c)
             /\ TwoOfAChannel(new) => TwoOfAChannel(text)
             /\ new \in Texts
  BY <1>2, <1>6, AppendedTemplates
<1>7. \/ \E i \in Places(text) : new = InsertAt(text, i, User)
      \/ \E i \in {j \in 1..Len(text) : text[j][1] \in {"begin", "end"}} : new = RemoveAt(text, i)
      \/ file \in HookPaths /\ new = Append(text, Mixed)
  BY <1>3 DEF HookPaths
<1>8. /\ \A c \in Channels : TemplatesIn(new, c) = TemplatesIn(text, c)
      /\ TwoOfAChannel(new) => TwoOfAChannel(text)
      /\ new \in Texts
      /\ file \notin HookPaths /\ Unmarked(text) => Unmarked(new) /\ UsersIn(new) # 0
  BY <1>4, <1>5, <1>6, <1>7
<1> QED  BY <1>3, <1>8 DEF text

-----------------------------------------------------------------------------
\* What holds of a list of steps, for these agents and their plan.
ListOk(list, sel, plan) ==
  /\ \A i \in DOMAIN list : Typed(list[i])
  /\ \A i \in DOMAIN list : list[i].op \in {"agents", "meta"} <=> i = Len(list)
  /\ sel # {} => list # <<>> /\ list[Len(list)].op = "meta"
  /\ \A i \in DOMAIN list : list[i].op \in Writing => sel # {} /\ list[i] \in plan
  /\ \A i, j \in DOMAIN list : i < j /\ list[i].op \in {"block", "conventions"} =>
       list[j].op \notin {"section", "template", "merged", "hooks", "mcp"}

QuietOps == {"mkdir", "copy", "modeDir", "listModes", "ignore", "embeddings", "offer"}
AllQuiet(list) == \A i \in DOMAIN list : list[i].op \in QuietOps

\* Steps that write no file of the agents may stand before a list.
LEMMA ListJoined ==
  ASSUME NEW pre \in Seq(Steps), NEW rest \in Seq(Steps), rest # <<>>, NEW sel, NEW plan,
         AllQuiet(pre), ListOk(rest, sel, plan)
  PROVE  ListOk(pre \o rest, sel, plan)
<1> DEFINE list == pre \o rest
           m == Len(pre)
           n == Len(rest)
<1>1. /\ m \in Nat /\ n \in Nat /\ Len(list) = m + n /\ DOMAIN list = 1..(m + n)
      /\ \A i \in 1..(m + n) : list[i] = IF i <= m THEN pre[i] ELSE rest[i - m]
  BY StepsJoined
<1>2. n # 0 /\ DOMAIN pre = 1..m /\ DOMAIN rest = 1..n
  OBVIOUS
<1>3. list # <<>>
  <2>1. Len(<<>>) = 0 /\ Len(list) # 0
    BY <1>1, <1>2
  <2> QED  BY <2>1
<1> HIDE DEF list, m
<1>4. ASSUME NEW i \in DOMAIN list, i <= m
      PROVE  list[i].op \in QuietOps /\ list[i].op \notin Writing \cup {"agents", "meta"} /\ Typed(list[i]) /\ i # m + n
  <2>1. i \in DOMAIN pre /\ list[i] = pre[i] /\ i # m + n
    BY <1>1, <1>2, <1>4
  <2> QED  BY <2>1 DEF AllQuiet, QuietOps, Writing, Typed
<1>5. ASSUME NEW i \in DOMAIN list, ~(i <= m)
      PROVE  list[i] = rest[i - m] /\ i - m \in DOMAIN rest /\ (i = m + n <=> i - m = n)
  BY <1>1, <1>2, <1>5
<1> HIDE DEF n
<1>6. \A i \in DOMAIN list : Typed(list[i])
  BY <1>4, <1>5 DEF ListOk
<1>7. \A i \in DOMAIN list : list[i].op \in {"agents", "meta"} <=> i = Len(list)
  BY <1>1, <1>4, <1>5 DEF ListOk, n
<1>8. sel # {} => list # <<>> /\ list[Len(list)].op = "meta"
  <2>1. m + n \in DOMAIN list /\ ~(m + n <= m) /\ (m + n) - m = n
    BY <1>1, <1>2 DEF n
  <2>2. list[m + n] = rest[n]
    BY <1>5, <2>1
  <2> QED  BY <1>1, <1>3, <2>2 DEF ListOk, n
<1>9. \A i \in DOMAIN list : list[i].op \in Writing => sel # {} /\ list[i] \in plan
  BY <1>4, <1>5 DEF ListOk
<1>10. \A i, j \in DOMAIN list : i < j /\ list[i].op \in {"block", "conventions"} =>
         list[j].op \notin {"section", "template", "merged", "hooks", "mcp"}
  <2> SUFFICES ASSUME NEW i \in DOMAIN list, NEW j \in DOMAIN list, i < j, list[i].op \in {"block", "conventions"}
               PROVE  list[j].op \notin {"section", "template", "merged", "hooks", "mcp"}
    OBVIOUS
  <2>1. ~(i <= m)
    BY <1>4 DEF Writing
  <2>2. ~(j <= m) /\ i - m < j - m
    BY <1>1, <2>1
  <2>3. list[i] = rest[i - m] /\ list[j] = rest[j - m] /\ i - m \in DOMAIN rest /\ j - m \in DOMAIN rest
    BY <1>5, <2>1, <2>2
  <2> QED  BY <2>2, <2>3 DEF ListOk
<1>11. ListOk(list, sel, plan)
  BY <1>6, <1>7, <1>8, <1>9, <1>10 DEF ListOk
<1> QED  BY <1>11 DEF list

\* The list of a run for some agents.
LEMMA PlanIsOk ==
  ASSUME NEW sel \in SUBSET DOMAIN Setup, sel # {}, NEW exist
  PROVE  ListOk(AgentPlan(sel, exist), sel, Rng(AgentPlan(sel, exist))) /\ AgentPlan(sel, exist) # <<>>
<1>1. PICK plan, forks \in Seq(Steps) :
           /\ AgentPlan(sel, exist) = plan \o forks \o << Step("meta", "") >>
           /\ Rng(plan) = MainSteps(sel) /\ Rng(forks) = ForkedSteps(sel, exist)
  BY PlanParts
<1> DEFINE last == << Step("meta", "") >>
           both == plan \o forks
           list == AgentPlan(sel, exist)
           m == Len(plan)
           k == Len(both)
<1>2. last \in Seq(Steps) /\ Len(last) = 1 /\ last[1].op = "meta" /\ Typed(last[1])
  <2>1. last \in Seq(Steps)
    BY StepIsStep DEF Ops, ProjectPaths
  <2> QED  BY <2>1 DEF Step, Typed
<1>3. /\ both \in Seq(Steps) /\ m \in Nat /\ k \in Nat /\ m <= k
      /\ \A i \in 1..k : IF i <= m THEN i \in DOMAIN plan /\ both[i] = plan[i]
                                   ELSE i - m \in DOMAIN forks /\ both[i] = forks[i - m]
  <2>1. /\ both \in Seq(Steps) /\ m \in Nat /\ Len(forks) \in Nat /\ k = m + Len(forks)
        /\ \A i \in 1..(m + Len(forks)) : both[i] = IF i <= m THEN plan[i] ELSE forks[i - m]
    BY StepsJoined
  <2>2. DOMAIN plan = 1..m /\ DOMAIN forks = 1..Len(forks)
    OBVIOUS
  <2> HIDE DEF both, m, k
  <2> QED  BY <2>1, <2>2
<1> HIDE DEF last, both, m
<1>4. list = both \o last
  BY <1>1 DEF both, last
<1>5. /\ Len(list) = k + 1 /\ DOMAIN list = 1..(k + 1)
      /\ \A i \in 1..(k + 1) : list[i] = IF i <= k THEN both[i] ELSE last[i - k]
  <2>1. /\ Len(both \o last) = k + Len(last) /\ DOMAIN (both \o last) = 1..(k + Len(last))
        /\ \A i \in 1..(k + Len(last)) : (both \o last)[i] = IF i <= k THEN both[i] ELSE last[i - k]
    BY <1>2, <1>3, StepsJoined
  <2> QED  BY <1>2, <1>4, <2>1
<1>6. \A i \in DOMAIN list : list[i] \in Rng(list)
  BY DEF Rng
<1> HIDE DEF list, k
<1>7. ASSUME NEW i \in DOMAIN list, i <= k
      PROVE  /\ list[i].op \notin {"agents", "meta"} /\ Typed(list[i]) /\ i # k + 1
             /\ list[i].op \in {"block", "conventions"} => ~(i <= m)
             /\ ~(i <= m) => list[i].op \in {"block", "conventions"}
  <2>1. i \in 1..k /\ list[i] = both[i] /\ i # k + 1
    BY <1>3, <1>5, <1>7
  <2>2. CASE i <= m
    <3>1. list[i] \in MainSteps(sel)
      BY <1>1, <1>3, <2>1, <2>2 DEF Rng
    <3> QED  BY <2>1, <2>2, <3>1, MainIsTyped DEF MainOps
  <2>3. CASE ~(i <= m)
    <3>1. list[i] \in ForkedSteps(sel, exist)
      BY <1>1, <1>3, <2>1, <2>3 DEF Rng
    <3> QED  BY <2>1, <2>3, <3>1, ForkedIsTyped
  <2> QED  BY <2>2, <2>3
<1>8. ASSUME NEW i \in DOMAIN list, ~(i <= k)
      PROVE  list[i].op = "meta" /\ Typed(list[i]) /\ i = k + 1
  <2>1. i = k + 1 /\ i - k = 1
    BY <1>3, <1>5, <1>8
  <2>2. list[i] = last[1]
    BY <1>5, <1>8, <2>1
  <2> QED  BY <1>2, <2>1, <2>2
<1>9. \A i \in DOMAIN list : Typed(list[i])
  BY <1>7, <1>8
<1>10. \A i \in DOMAIN list : list[i].op \in {"agents", "meta"} <=> i = Len(list)
  BY <1>5, <1>7, <1>8
<1>11. list # <<>> /\ list[Len(list)].op = "meta"
  <2>1. k + 1 \in DOMAIN list /\ ~(k + 1 <= k) /\ Len(list) # 0
    BY <1>3, <1>5
  <2>2. Len(<<>>) = 0
    OBVIOUS
  <2> QED  BY <1>5, <1>8, <2>1, <2>2
<1>12. \A i, j \in DOMAIN list : i < j /\ list[i].op \in {"block", "conventions"} =>
         list[j].op \notin {"section", "template", "merged", "hooks", "mcp"}
  <2> SUFFICES ASSUME NEW i \in DOMAIN list, NEW j \in DOMAIN list, i < j, list[i].op \in {"block", "conventions"}
               PROVE  list[j].op \notin {"section", "template", "merged", "hooks", "mcp"}
    OBVIOUS
  <2>1. CASE i <= k
    <3>1. ~(i <= m)
      BY <1>7, <2>1
    <3>2. ~(j <= m)
      BY <1>3, <1>5, <3>1
    <3> QED  BY <1>7, <1>8, <3>2
  <2>2. CASE ~(i <= k)
    <3>1. ~(j <= k)
      BY <1>3, <1>5, <2>2
    <3> QED  BY <1>8, <3>1
  <2> QED  BY <2>1, <2>2
<1>13. ListOk(list, sel, Rng(list)) /\ list # <<>>
  BY <1>6, <1>9, <1>10, <1>11, <1>12 DEF ListOk
<1> QED  BY <1>13 DEF list

ListNotes ==
  /\ selected \in Selections \cup {{}}
  /\ selected = {} => fresh = << >>
  /\ settled \in {Nobody, Disturbed} \cup Selections \cup {{}}
  /\ selected # {} => settled \in {Nobody, Disturbed, selected}
  /\ settled # Disturbed /\ prompt # NotAsked => prompt = <<files[Path]>>

\* The invariant of the list, in two parts.
LEMMA ListParts == ListInv <=> ListOk(todo, selected, Plan(selected)) /\ ListNotes
BY DEF ListInv, ListOk, ListNotes, Op

\* The parts of the invariant about the list of steps, after a step.
LEMMA ListPartsAfter == ListOk(todo', selected', (Plan(selected))') /\ ListNotes' => ListInv'
BY DEF ListInv, ListOk, ListNotes, Op

\* A list that is done has no step that needs the agents, one of theirs is not empty.
LEMMA ListNext ==
  ASSUME IInv, ListInv
  PROVE  /\ todo \in Seq(Steps) /\ DOMAIN todo = 1..Len(todo) /\ Len(todo) \in Nat
         /\ todo = <<>> => selected = {} /\ fresh = << >>
         /\ todo # <<>> => 1 \in DOMAIN todo /\ (Op(1) \in {"agents", "meta"} <=> 1 = Len(todo))
         /\ todo # <<>> /\ Op(1) = "agents" => selected = {} /\ fresh = << >>
         /\ todo # <<>> /\ Op(1) = "meta" => Tail(todo) = <<>>
<1>1. todo \in Seq(Steps) /\ DOMAIN todo = 1..Len(todo) /\ Len(todo) \in Nat
  BY DEF IInv
<1>2. todo # <<>> => 1 \in DOMAIN todo /\ Len(Tail(todo)) = Len(todo) - 1 /\ Tail(todo) \in Seq(Steps)
  BY <1>1
<1>3. todo # <<>> => (Op(1) \in {"agents", "meta"} <=> 1 = Len(todo))
  BY <1>2 DEF ListInv
<1>4. todo # <<>> /\ Op(1) = "agents" => selected = {}
  BY <1>3 DEF ListInv
<1>5. todo # <<>> /\ Op(1) = "meta" => Tail(todo) = <<>>
  <2>1. \A seq \in Seq(Steps) : Len(seq) = 0 => seq = <<>>
    OBVIOUS
  <2> QED  BY <1>1, <1>2, <1>3, <2>1
<1> QED  BY <1>1, <1>2, <1>3, <1>4, <1>5 DEF ListInv

\* A step of a writer asks, or is done.
Asks ==
  /\ todo' = todo /\ prompt = NotAsked /\ prompt' = <<files[Path]>> /\ answer' = "asked"
  /\ UNCHANGED <<files, fresh, notes, settled>>
Moves == todo' = Tail(todo) /\ prompt' = NotAsked /\ answer' \in {"none", "yes", "no"}

\* A writing step asks or moves on; only a consent or a swallowed section unsettles.
LEMMA WritersMove ==
  ASSUME IInv, Writers
  PROVE  /\ Asks \/ Moves
         /\ settled' = IF settled = Disturbed \/ Swallows THEN Disturbed
                       ELSE IF answer' = "yes" THEN Nobody ELSE settled
<1>1. settled' = IF settled = Disturbed \/ Swallows THEN Disturbed
                 ELSE IF answer' = "yes" THEN Nobody ELSE settled
  BY DEF Writers, AppendTemplateSection, WriteTemplateFile, WriteForkBlock, WriteForkSkill, SyncLatHooks,
         RegisterMcpServer, Untouched
<1>2. ASSUME Ask, migrated' = migrated
      PROVE  Asks
  <2>1. ~Swallows /\ answer' # "yes"
    BY <1>2 DEF Ask, Leaves, Swallows
  <2> QED  BY <1>1, <1>2, <2>1 DEF Ask, Asks, Leaves, notes
<1>3. ASSUME NEW text, NEW hash, NEW recorded,
             Put(text, hash, recorded) \/ UpToDate(hash, recorded) \/ Answer(text, hash, recorded)
      PROVE  Moves
  BY <1>3 DEF Put, UpToDate, Answer, StepDone, Moves
<1>4. CASE AppendTemplateSection
  <2>1. \/ Ask /\ migrated' = migrated
        \/ \E text, hash, recorded :
             Put(text, hash, recorded) \/ UpToDate(hash, recorded) \/ Answer(text, hash, recorded)
    BY <1>4 DEF AppendTemplateSection
  <2> QED  BY <1>1, <1>2, <1>3, <2>1
<1>5. CASE WriteTemplateFile
  <2>1. \/ Ask /\ migrated' = migrated
        \/ \E text, hash, recorded :
             Put(text, hash, recorded) \/ UpToDate(hash, recorded) \/ Answer(text, hash, recorded)
    BY <1>5 DEF WriteTemplateFile
  <2> QED  BY <1>1, <1>2, <1>3, <2>1
<1>6. CASE WriteForkBlock
  <2>1. \/ Ask /\ migrated' = migrated
        \/ StepDone /\ answer' = "none"
        \/ \E text, hash, recorded :
             Put(text, hash, recorded) \/ UpToDate(hash, recorded) \/ Answer(text, hash, recorded)
    BY <1>6 DEF WriteForkBlock
  <2> QED  BY <1>1, <1>2, <1>3, <2>1 DEF StepDone, Moves
<1>7. CASE WriteForkSkill
  <2>1. StepDone /\ answer' \in {"none", "yes", "no"}
    BY <1>7 DEF WriteForkSkill, UpToDate
  <2> QED  BY <1>1, <2>1 DEF StepDone, Moves
<1>8. CASE SyncLatHooks \/ RegisterMcpServer
  <2>1. todo # <<>> /\ todo[1].op \in {"hooks", "mcp"} /\ todo' = Tail(todo) /\ answer' = "none" /\ prompt' = prompt
    BY <1>8 DEF SyncLatHooks, RegisterMcpServer, Doing
  <2>2. prompt = NotAsked
    BY <2>1, NothingAsked
  <2> QED  BY <1>1, <2>1, <2>2 DEF Moves
<1> QED  BY <1>4, <1>5, <1>6, <1>7, <1>8 DEF Writers

\* The rest of the list, once its first step is taken.
LEMMA RestIsOk ==
  ASSUME IInv, ListInv, todo # <<>>, Op(1) \notin {"agents", "meta"}
  PROVE  Tail(todo) \in Seq(Steps) /\ Tail(todo) # <<>> /\ ListOk(Tail(todo), selected, Plan(selected))
<1> DEFINE rest == Tail(todo)
<1>1. /\ Len(todo) \in Nat \ {0} /\ DOMAIN todo = 1..Len(todo) /\ Len(rest) = Len(todo) - 1
      /\ rest \in Seq(Steps) /\ DOMAIN rest = 1..(Len(todo) - 1)
      /\ \A i \in 1..(Len(todo) - 1) : rest[i] = todo[i + 1]
  BY Shifted DEF IInv
<1> HIDE DEF rest
<1>2. Len(todo) # 1
  BY ListNext
<1>3. rest # <<>>
  <2>1. Len(<<>>) = 0 /\ Len(rest) # 0
    BY <1>1, <1>2
  <2> QED  BY <2>1
<1>4. \A i \in DOMAIN rest : i + 1 \in DOMAIN todo /\ rest[i] = todo[i + 1] /\ (i + 1 = Len(todo) <=> i = Len(rest))
  BY <1>1
<1>5. \A i, j \in DOMAIN rest : i < j => i + 1 < j + 1
  BY <1>1
<1>6. rest[Len(rest)] = todo[Len(todo)]
  <2>1. Len(rest) \in DOMAIN rest /\ Len(rest) + 1 = Len(todo)
    BY <1>1, <1>2
  <2> QED  BY <1>4, <2>1
<1>7. ListOk(todo, selected, Plan(selected))
  BY ListParts
<1>8. ListOk(rest, selected, Plan(selected))
  BY <1>3, <1>4, <1>5, <1>6, <1>7 DEF ListOk
<1> QED  BY <1>1, <1>3, <1>8 DEF rest

\* Writing steps keep the invariant about the list.
LEMMA ListOfWriters ==
  ASSUME IInv, ListInv, Writers
  PROVE  ListInv'
<1>1. todo # <<>> /\ Op(1) \in Writing /\ selected' = selected
  BY WritersAre
<1>2. selected # {} /\ (Plan(selected))' = Plan(selected)
  BY <1>1, StepOfPlan, PlanOfWriters DEF Plan
<1>3. ListOk(todo', selected', (Plan(selected))')
  <2>1. CASE Asks
    BY <1>1, <1>2, <2>1, ListParts DEF Asks
  <2>2. CASE Moves
    BY <1>1, <1>2, <2>2, RestIsOk DEF Moves, Writing
  <2> QED  BY <2>1, <2>2, WritersMove
<1>4. ListNotes'
  <2>1. settled' \in {Disturbed, Nobody, settled} /\ ListNotes
    BY WritersMove, ListParts
  <2>2. CASE Asks
    BY <1>1, <2>1, <2>2, <1>2 DEF Asks, ListNotes, Path
  <2>3. CASE Moves
    BY <1>1, <2>1, <2>3, <1>2 DEF Moves, ListNotes
  <2> QED  BY <2>2, <2>3, WritersMove
<1> QED  BY <1>3, <1>4, ListPartsAfter

\* So do the steps before the choice,
LEMMA ListOfBuilding ==
  ASSUME IInv, ListInv, CreateTree \/ WriteForkScaffold \/ SetupEmbeddings \/ EnsureGitignored
  PROVE  ListInv'
<1>1. /\ todo # <<>> /\ Op(1) \in QuietOps /\ todo' = Tail(todo)
      /\ UNCHANGED <<files, selected, fresh, prompt, settled>>
  BY DEF CreateTree, WriteForkScaffold, SetupEmbeddings, EnsureGitignored, Doing, project, Op, QuietOps
<1>2. prompt = NotAsked
  BY <1>1, NothingAsked DEF Op, QuietOps
<1>3. ListOk(todo', selected', (Plan(selected))')
  BY <1>1, RestIsOk DEF Plan, QuietOps
<1>4. ListNotes'
  BY <1>1, <1>2, ListParts DEF ListNotes
<1> QED  BY <1>3, <1>4, ListPartsAfter

\* the question whether a mode is required,
LEMMA ListOfOffer ==
  ASSUME IInv, ListInv, OfferRequireMode
  PROVE  ListInv'
<1>1. /\ todo # <<>> /\ Op(1) = "offer" /\ (todo' = Tail(todo) \/ todo' = ScaffoldSteps \o Tail(todo))
      /\ UNCHANGED <<files, selected, fresh, prompt, settled>>
  BY DEF OfferRequireMode, project, Op
<1>2. prompt = NotAsked
  BY <1>1, NothingAsked DEF Op
<1>3. /\ Tail(todo) \in Seq(Steps) /\ Tail(todo) # <<>> /\ ListOk(Tail(todo), selected, Plan(selected))
  BY <1>1, RestIsOk
<1>4. ListOk(todo', selected', (Plan(selected))')
  <2>1. CASE todo' = Tail(todo)
    BY <1>1, <1>3, <2>1 DEF Plan
  <2>2. CASE todo' = ScaffoldSteps \o Tail(todo)
    <3>1. ScaffoldSteps \in Seq(Steps) /\ AllQuiet(ScaffoldSteps)
      <4>1. /\ ScaffoldSteps \in Seq(Steps) /\ Len(ScaffoldSteps) = ModeCount + 1 /\ ModeCount \in Nat
            /\ \A i \in 1..ModeCount : ScaffoldSteps[i].op = "modeDir"
            /\ ScaffoldSteps[ModeCount + 1].op = "listModes"
        BY ScaffoldIs
      <4>2. DOMAIN ScaffoldSteps = 1..(ModeCount + 1)
        BY <4>1
      <4>3. \A i \in 1..(ModeCount + 1) : i \in 1..ModeCount \/ i = ModeCount + 1
        BY <4>1
      <4> QED  BY <4>1, <4>2, <4>3 DEF AllQuiet, QuietOps
    <3> DEFINE rest == Tail(todo)
               scaffold == ScaffoldSteps
    <3>2. rest \in Seq(Steps) /\ rest # <<>> /\ ListOk(rest, selected, Plan(selected))
      BY <1>3
    <3>3. scaffold \in Seq(Steps) /\ AllQuiet(scaffold)
      BY <3>1
    <3> HIDE DEF rest, scaffold
    <3>4. ListOk(scaffold \o rest, selected, Plan(selected))
      BY <3>2, <3>3, ListJoined
    <3> QED  BY <1>1, <2>2, <3>4 DEF rest, scaffold, Plan
  <2> QED  BY <1>1, <2>1, <2>2
<1>5. ListNotes'
  BY <1>1, <1>2, ListParts DEF ListNotes
<1> QED  BY <1>4, <1>5, ListPartsAfter

\* (a list that only stores the hashes is sound)
LEMMA OneIsOk ==
  ASSUME NEW step, step.op = "meta", NEW plan
  PROVE  ListOk(<<step>>, {}, plan) /\ <<step>> # <<>>
<1> DEFINE one == <<step>>
<1>1. DOMAIN one = {1} /\ Len(one) = 1 /\ one[1] = step /\ one # <<>>
  OBVIOUS
<1>2. Typed(step)
  BY DEF Typed
<1> HIDE DEF one
<1>3. \A i, j \in DOMAIN one : ~(i < j)
  BY <1>1
<1>4. ListOk(one, {}, plan) /\ one # <<>>
  BY <1>1, <1>2, <1>3 DEF ListOk, Writing
<1> QED  BY <1>4 DEF one

\* the choice of agents,
LEMMA ListOfChoice ==
  ASSUME IInv, ListInv, ChooseAgents
  PROVE  ListInv'
<1> DEFINE first == << Step("offer", "") >>
           rest == AfterChoice(selected')
<1>1. /\ selected' \in Selections \cup {{}} /\ selected' \in SUBSET DOMAIN Setup
      /\ settled' = IF settled = selected' THEN settled ELSE Nobody
      /\ todo' = first \o rest /\ first \in Seq(Steps) /\ rest \in Seq(Steps)
  BY ChosenPlan
<1>2. todo # <<>> /\ Op(1) = "agents" /\ UNCHANGED <<files, fresh, prompt>>
  BY DEF ChooseAgents, Op, project
<1>3. fresh = << >> /\ prompt = NotAsked
  BY <1>2, ListNext, NothingAsked DEF Op
<1>4. AllQuiet(first)
  <2> DEFINE offer == Step("offer", "")
  <2>1. offer.op = "offer"
    BY DEF Step
  <2> HIDE DEF offer
  <2>2. AllQuiet(<<offer>>)
    BY <2>1 DEF AllQuiet, QuietOps
  <2> QED  BY <2>2 DEF offer
<1>5. rest # <<>> /\ ListOk(rest, selected', Rng(AgentPlan(selected', DOMAIN files)))
  <2>1. CASE selected' = {}
    <3>1. rest = << Step("meta", "") >>
      BY <2>1 DEF AfterChoice
    <3> DEFINE meta0 == Step("meta", "")
    <3>2. meta0.op = "meta"
      BY DEF Step
    <3> HIDE DEF meta0
    <3>3. rest = <<meta0>>
      BY <3>1 DEF meta0
    <3> QED  BY <2>1, <3>2, <3>3, OneIsOk
  <2>2. CASE selected' # {}
    <3>1. rest = AgentPlan(selected', DOMAIN files)
      BY <2>2 DEF AfterChoice
    <3> QED  BY <1>1, <2>2, <3>1, PlanIsOk
  <2> QED  BY <2>1, <2>2
<1> HIDE DEF first, rest
<1>6. ListOk(first \o rest, selected', Rng(AgentPlan(selected', DOMAIN files)))
  BY <1>1, <1>4, <1>5, ListJoined
<1>7. ListOk(todo', selected', (Plan(selected))')
  BY <1>1, <1>2, <1>6 DEF Plan
<1>8. ListNotes'
  BY <1>1, <1>2, <1>3 DEF ListNotes
<1> QED  BY <1>7, <1>8, ListPartsAfter

\* and a run that starts.
LEMMA ListOfStart ==
  ASSUME IInv, ListInv, StartRun
  PROVE  ListInv'
<1> DEFINE tail == << Step("ignore", "config.local.yaml"), Step("ignore", ".lat-build"),
                      Step("embeddings", ""), Step("agents", "") >>
           head == << Step("mkdir", ""), Step("copy", "") >>
           scaffold == ScaffoldSteps
           first == IF tree THEN <<>> ELSE head \o scaffold
<1>1. /\ todo = <<>> /\ todo' = first \o tail /\ UNCHANGED <<files, selected, fresh, prompt>>
      /\ settled' = IF settled = Disturbed THEN Nobody ELSE settled
  BY DEF StartRun, Idle, project
<1>2. selected = {} /\ fresh = << >> /\ prompt = NotAsked
  BY <1>1, ListNext, NothingAsked
<1>3. \A op, file : Step(op, file).op = op /\ (op \notin Writing => Typed(Step(op, file)))
  BY DEF Step, Typed, Writing
<1>4. /\ Step("ignore", "config.local.yaml") \in Steps /\ Step("ignore", ".lat-build") \in Steps
      /\ Step("embeddings", "") \in Steps /\ Step("agents", "") \in Steps
      /\ Step("mkdir", "") \in Steps /\ Step("copy", "") \in Steps
  BY StepIsStep DEF Ops, ProjectPaths
<1>5. tail \in Seq(Steps) /\ tail # <<>> /\ ListOk(tail, {}, Plan(selected))
  <2>0. tail \in Seq(Steps)
    BY <1>4, FewSteps
  <2>10. Len(tail) = 4
    OBVIOUS
  <2>2. /\ tail[1] = Step("ignore", "config.local.yaml") /\ tail[2] = Step("ignore", ".lat-build")
        /\ tail[3] = Step("embeddings", "") /\ tail[4] = Step("agents", "")
    OBVIOUS
  <2> HIDE DEF tail
  <2>1. tail \in Seq(Steps) /\ DOMAIN tail = 1..4 /\ Len(tail) = 4
    BY <2>0, <2>10
  <2>3. \A i \in 1..4 : i = 1 \/ i = 2 \/ i = 3 \/ i = 4
    OBVIOUS
  <2>4. \A i \in 1..4 : tail[i].op = (IF i = 3 THEN "embeddings" ELSE IF i = 4 THEN "agents" ELSE "ignore") /\ Typed(tail[i])
    <3>1. tail[1].op = "ignore" /\ tail[2].op = "ignore" /\ tail[3].op = "embeddings" /\ tail[4].op = "agents"
      BY <1>3, <2>2
    <3>2. Typed(tail[1]) /\ Typed(tail[2]) /\ Typed(tail[3]) /\ Typed(tail[4])
      BY <1>3, <2>2 DEF Writing
    <3> QED  BY <2>3, <3>1, <3>2
  <2>5. tail # <<>>
    <3>1. Len(<<>>) = 0
      OBVIOUS
    <3> QED  BY <2>1, <3>1
  <2> QED  BY <2>1, <2>4, <2>5 DEF ListOk, Writing
<1>6. first \in Seq(Steps) /\ AllQuiet(first)
  <2>0. head \in Seq(Steps) /\ << >> \in Seq(Steps)
    <3>1. << >> \in Seq(Steps)
      OBVIOUS
    <3> QED  BY <1>4, <3>1, FewSteps
  <2>10. Len(head) = 2
    OBVIOUS
  <2>2. head[1].op = "mkdir" /\ head[2].op = "copy"
    BY <1>3
  <2> HIDE DEF head
  <2>1. head \in Seq(Steps) /\ << >> \in Seq(Steps) /\ Len(head) = 2 /\ DOMAIN head = 1..2
    BY <2>0, <2>10
  <2>3. AllQuiet(head)
    <3>1. \A i \in 1..2 : i = 1 \/ i = 2
      OBVIOUS
    <3> QED  BY <2>1, <2>2, <3>1 DEF AllQuiet, QuietOps
  <2>4. /\ scaffold \in Seq(Steps) /\ Len(scaffold) = ModeCount + 1 /\ ModeCount \in Nat
        /\ \A i \in 1..ModeCount : scaffold[i].op = "modeDir"
        /\ scaffold[ModeCount + 1].op = "listModes"
    BY ScaffoldIs
  <2> HIDE DEF scaffold
  <2>5. AllQuiet(scaffold)
    <3>1. \A i \in 1..(ModeCount + 1) : i \in 1..ModeCount \/ i = ModeCount + 1
      BY <2>4
    <3> QED  BY <2>4, <3>1 DEF AllQuiet, QuietOps
  <2>6. head \o scaffold \in Seq(Steps) /\ AllQuiet(head \o scaffold)
    <3> DEFINE both == head \o scaffold
               n == ModeCount + 1
    <3>1. n \in Nat /\ Len(scaffold) = n /\ DOMAIN scaffold = 1..n
      BY <2>4
    <3> HIDE DEF n
    <3>2. /\ both \in Seq(Steps) /\ DOMAIN both = 1..(2 + n)
          /\ \A i \in 1..(2 + n) : both[i] = IF i <= 2 THEN head[i] ELSE scaffold[i - 2]
      <4>1. /\ head \o scaffold \in Seq(Steps) /\ DOMAIN (head \o scaffold) = 1..(Len(head) + Len(scaffold))
            /\ \A i \in 1..(Len(head) + Len(scaffold)) :
                 (head \o scaffold)[i] = IF i <= Len(head) THEN head[i] ELSE scaffold[i - Len(head)]
        BY <2>1, <2>4, StepsJoined
      <4> QED  BY <2>1, <3>1, <4>1
    <3> HIDE DEF both
    <3>3. ASSUME NEW i \in DOMAIN both
          PROVE  both[i].op \in QuietOps
      <4>1. CASE i <= 2
        <5>1. i \in DOMAIN head /\ both[i] = head[i]
          BY <2>1, <3>1, <3>2, <4>1
        <5> QED  BY <2>3, <5>1 DEF AllQuiet
      <4>2. CASE ~(i <= 2)
        <5>1. i - 2 \in DOMAIN scaffold /\ both[i] = scaffold[i - 2]
          BY <3>1, <3>2, <4>2
        <5> QED  BY <2>5, <5>1 DEF AllQuiet
      <4> QED  BY <4>1, <4>2
    <3>4. both \in Seq(Steps) /\ AllQuiet(both)
      BY <3>2, <3>3 DEF AllQuiet
    <3> QED  BY <3>4 DEF both
  <2>7. AllQuiet(<<>>)
    BY DEF AllQuiet
  <2>8. CASE tree
    BY <2>1, <2>7, <2>8
  <2>9. CASE ~tree
    BY <2>6, <2>9
  <2> QED  BY <2>8, <2>9
<1> HIDE DEF first, tail
<1>7. ListOk(first \o tail, {}, Plan(selected))
  BY <1>5, <1>6, ListJoined
<1>8. ListOk(todo', selected', (Plan(selected))')
  BY <1>1, <1>2, <1>7 DEF Plan
<1>9. ListNotes'
  BY <1>1, <1>2, ListParts DEF ListNotes
<1> QED  BY <1>8, <1>9, ListPartsAfter

\* An empty list is sound.
LEMMA EmptyListIsOk ==
  ASSUME NEW plan
  PROVE  ListOk(<<>>, {}, plan)
BY DEF ListOk

\* Every step keeps the invariant about the list.
LEMMA ListStays ==
  ASSUME IInv, ListInv, [Next]_vars
  PROVE  ListInv'
<1>1. CASE Writers
  BY <1>1, ListOfWriters
<1>2. CASE CreateTree \/ WriteForkScaffold \/ SetupEmbeddings \/ EnsureGitignored
  BY <1>2, ListOfBuilding
<1>3. CASE OfferRequireMode
  BY <1>3, ListOfOffer
<1>4. CASE ChooseAgents
  BY <1>4, ListOfChoice
<1>5. CASE StartRun
  BY <1>5, ListOfStart
<1>6. CASE WriteInitMeta
  <2>1. /\ todo # <<>> /\ Op(1) = "meta" /\ todo' = Tail(todo) /\ selected' = {} /\ fresh' = << >>
        /\ prompt' = prompt /\ settled' \in {Nobody, selected}
    BY <1>6 DEF WriteInitMeta, Doing, Op
  <2>2. todo' = <<>> /\ prompt = NotAsked
    BY <2>1, ListNext, NothingAsked DEF Op
  <2>3. ListNotes'
    BY <2>1, <2>2, ListParts DEF ListNotes
  <2> QED  BY <2>1, <2>2, <2>3, EmptyListIsOk, ListPartsAfter
<1>7. CASE Cut \/ CutWhileWriting
  <2>1. /\ todo' = <<>> /\ selected' = {} /\ fresh' = << >> /\ prompt' = NotAsked
        /\ settled' \in {settled, Disturbed}
    BY <1>7 DEF Cut, CutWhileWriting, Ends
  <2>2. ListNotes'
    BY <2>1, ListParts DEF ListNotes
  <2> QED  BY <2>1, <2>2, EmptyListIsOk, ListPartsAfter
<1>8. CASE EditFile \/ Upgrade \/ ChangeGit \/ WipeCache
  <2>1. /\ settled' = Disturbed /\ UNCHANGED <<todo, selected, fresh, prompt>> /\ DOMAIN files' = DOMAIN files
    BY <1>8 DEF EditFile, Upgrade, ChangeGit, WipeCache, Event, run
  <2>2. ListNotes'
    BY <2>1, ListParts DEF ListNotes
  <2>3. ListOk(todo', selected', (Plan(selected))')
    BY <2>1, ListParts DEF Plan
  <2> QED  BY <2>2, <2>3, ListPartsAfter
<1>9. CASE SetGate \/ ChangeKey \/ Reindex \/ UNCHANGED vars
  <2>1. UNCHANGED <<settled, todo, selected, fresh, prompt, files>>
    BY <1>9 DEF SetGate, ChangeKey, Reindex, Event, run, project, vars, history
  <2>2. ListNotes'
    BY <2>1, ListParts DEF ListNotes, Path
  <2>3. ListOk(todo', selected', (Plan(selected))')
    BY <2>1, ListParts DEF Plan
  <2> QED  BY <2>2, <2>3, ListPartsAfter
<1> QED  BY <1>1, <1>2, <1>3, <1>4, <1>5, <1>6, <1>7, <1>8, <1>9 DEF Next, Writers

\* The invariant about the list holds at first.
LEMMA ListAtFirst == Init => ListInv
<1> SUFFICES ASSUME Init PROVE ListInv
  OBVIOUS
<1>1. todo = <<>> /\ selected = {} /\ fresh = << >> /\ settled = Nobody /\ prompt = NotAsked
  BY DEF Init
<1>2. ListNotes
  BY <1>1 DEF ListNotes
<1> QED  BY <1>1, <1>2, EmptyListIsOk, ListParts

-----------------------------------------------------------------------------
\* The kinds of files have no path in common, and a hash is of one file and channel.
LEMMA KindsOfFiles ==
  /\ SharedPaths \cap WholePaths = {} /\ SharedPaths \cap HookPaths = {} /\ SharedPaths \cap McpPaths = {}
  /\ WholePaths \cap HookPaths = {} /\ WholePaths \cap McpPaths = {} /\ HookPaths \cap McpPaths = {}
  /\ SkillFiles \subseteq WholePaths /\ SkillRoots \subseteq WholePaths
BY DEF SharedPaths, WholePaths, HookPaths, McpPaths, SkillFiles, SkillRoots, SkillFile

\* Each file and channel has a hash of its own.
LEMMA KeysDiffer ==
  ASSUME NEW p, NEW q, NEW c \in Channels, NEW d \in Channels
  PROVE  HashKey(p, c) = HashKey(q, d) <=> p = q /\ c = d
BY DEF HashKey, Channels

\* The hashes of a run, with one more.
LEMMA OneKept ==
  ASSUME NEW h, NEW text, KeepHash(h, text)
  PROVE  /\ DOMAIN fresh' = DOMAIN fresh \cup {h} /\ fresh'[h] = text
         /\ \A k \in DOMAIN fresh \ {h} : fresh'[k] = fresh[k]
<1>1. fresh' = [x \in DOMAIN fresh \cup {h} |-> IF x \in {h} THEN Each({h}, text)[x] ELSE fresh[x]]
  <2>1. DOMAIN Each({h}, text) = {h}
    BY DEF Each
  <2> QED  BY <2>1 DEF KeepHash, Override
<1>2. Each({h}, text)[h] = text
  BY DEF Each
<1> QED  BY <1>1, <1>2

\* The files, with one written.
LEMMA OneWritten ==
  ASSUME NEW p, NEW text, files' = WithFile(p, text)
  PROVE  /\ DOMAIN files' = DOMAIN files \cup {p} /\ files'[p] = text
         /\ \A q \in DOMAIN files \ {p} : files'[q] = files[q]
         /\ files' = [q \in DOMAIN files' |-> files'[q]]
         /\ p \in DOMAIN files /\ text = files[p] /\ files = [q \in DOMAIN files |-> files[q]] => files' = files
<1>1. files' = [q \in DOMAIN files \cup {p} |-> IF q = p THEN text ELSE files[q]]
  BY DEF WithFile
<1>2. DOMAIN files' = DOMAIN files \cup {p}
  BY <1>1
<1>3. files' = [q \in DOMAIN files' |-> files'[q]]
  BY <1>1
<1>4. ASSUME p \in DOMAIN files, text = files[p], files = [q \in DOMAIN files |-> files[q]]
      PROVE  files' = files
  <2>1. files' = [q \in DOMAIN files |-> IF q = p THEN text ELSE files[q]]
    <3>1. DOMAIN files \cup {p} = DOMAIN files
      BY <1>4
    <3> QED  BY <1>1, <3>1
  <2>2. files' = [q \in DOMAIN files |-> files[q]]
    BY <1>4, <2>1
  <2> QED  BY <1>4, <2>2
<1> QED  BY <1>1, <1>2, <1>3, <1>4

\* What a whole file should hold does not change with other files.
LEMMA WantedStays ==
  ASSUME NEW q, q \in DOMAIN files, q \in DOMAIN files', files'[q] = files[q], version' = version
  PROVE  (Wanted(q))' = Wanted(q)
BY DEF Wanted, MergedHooks, Exists

\* The effect of a step on a shared file that writes it, or finds it current.
SharedEffect(p, c, t, text) ==
  /\ files' = WithFile(p, text) /\ version' = version /\ meta' = meta
  /\ settled' # Disturbed => settled # Disturbed
  /\ unrecorded \subseteq unrecorded' /\ doubled \subseteq doubled'
  /\ p \in doubled' \/ ~TwoOfAChannel(text)
  /\ KeepHash(HashKey(p, c), <<t>>)
  /\ t \in TemplatesIn(text, c)
  /\ p \in doubled' \/ HashKey(p, c) \in unrecorded' \/ Recorded(HashKey(p, c), <<t>>)
  /\ \A d \in Channels \ {c} : TemplatesIn(text, d) \subseteq IF p \in DOMAIN files THEN TemplatesIn(files[p], d) ELSE {}
  /\ migrated \ {p} \subseteq migrated' /\ (c = "fork" => migrated \subseteq migrated')

\* A step that puts a section into a shared file, or finds it there, keeps the accounts.
LEMMA SharedStep ==
  ASSUME Accounts, NEW p \in SharedPaths, NEW c \in Channels, NEW v \in 0..Versions, NEW text,
         SharedEffect(p, c, Template(c, v), text),
         v = version \/ (c = "lat" /\ p \in migrated')
  PROVE  Accounts'
<1> DEFINE h == HashKey(p, c)
           t == Template(c, v)
<1>1. /\ files' = WithFile(p, text) /\ version' = version /\ meta' = meta
      /\ settled' # Disturbed => settled # Disturbed
      /\ unrecorded \subseteq unrecorded' /\ doubled \subseteq doubled'
      /\ p \in doubled' \/ ~TwoOfAChannel(text)
      /\ KeepHash(h, <<t>>)
      /\ t \in TemplatesIn(text, c)
      /\ p \in doubled' \/ h \in unrecorded' \/ Recorded(h, <<t>>)
      /\ \A d \in Channels \ {c} : TemplatesIn(text, d) \subseteq IF p \in DOMAIN files THEN TemplatesIn(files[p], d) ELSE {}
      /\ migrated \ {p} \subseteq migrated' /\ (c = "fork" => migrated \subseteq migrated')
  BY DEF SharedEffect
<1>2. /\ DOMAIN fresh' = DOMAIN fresh \cup {h} /\ fresh'[h] = <<t>>
      /\ \A k \in DOMAIN fresh \ {h} : fresh'[k] = fresh[k]
  BY <1>1, OneKept
<1>3. /\ DOMAIN files' = DOMAIN files \cup {p} /\ files'[p] = text
      /\ \A q \in DOMAIN files \ {p} : files'[q] = files[q]
      /\ files' = [q \in DOMAIN files' |-> files'[q]]
  BY <1>1, OneWritten
<1>4. \A q, d : d \in Channels => (HashKey(q, d) = h <=> q = p /\ d = c)
  BY KeysDiffer
<1>5. ~TwoOfAChannel(text) => TemplatesIn(text, c) = {t}
  BY <1>1, TheTemplate
<1> HIDE DEF h, t
<1>6. version' \in 1..Versions /\ files' = [q \in DOMAIN files' |-> files'[q]] /\ RecordedArePristine(meta.hashes)'
  BY <1>1, <1>3 DEF Accounts
<1>7. RecordedArePristine(fresh)'
  <2> SUFFICES ASSUME NEW q \in SharedPaths, NEW d \in Channels, HashKey(q, d) \in DOMAIN fresh'
               PROVE  Pristine(fresh'[HashKey(q, d)], d)
    BY DEF RecordedArePristine
  <2>1. CASE HashKey(q, d) = h
    <3>1. d = c /\ fresh'[h] = <<Template(c, v)>>
      BY <1>2, <1>4, <2>1 DEF t
    <3> QED  BY <2>1, <3>1 DEF Pristine
  <2>2. CASE HashKey(q, d) # h
    BY <1>2, <2>2 DEF Accounts, RecordedArePristine
  <2> QED  BY <2>1, <2>2
<1>8. OneOfAChannel'
  BY <1>1, <1>3 DEF Accounts, OneOfAChannel
<1>9. SharedAccounted'
  <2> SUFFICES ASSUME NEW q \in (SharedPaths \cap DOMAIN files') \ doubled', NEW d \in Channels, NEW u \in TemplatesIn(files'[q], d)
               PROVE  /\ Recorded(HashKey(q, d), <<u>>) \/ HashKey(q, d) \in unrecorded'
                      /\ HashKey(q, d) \in DOMAIN fresh' => fresh'[HashKey(q, d)] = <<u>>
    BY <1>1 DEF SharedAccounted, Recorded, Stored
  <2>1. CASE q = p /\ d = c
    <3>1. u = t /\ HashKey(q, d) = h
      BY <1>1, <1>3, <1>5, <2>1 DEF h
    <3> QED  BY <1>1, <1>2, <2>1, <3>1
  <2>2. CASE ~(q = p /\ d = c)
    <3>1. HashKey(q, d) # h
      BY <1>4, <2>2
    <3>2. q \in (SharedPaths \cap DOMAIN files) \ doubled /\ u \in TemplatesIn(files[q], d)
      <4>1. CASE q = p
        BY <1>1, <1>3, <2>2, <4>1
      <4>2. CASE q # p
        BY <1>1, <1>3, <4>2
      <4> QED  BY <4>1, <4>2
    <3>3. /\ Recorded(HashKey(q, d), <<u>>) \/ HashKey(q, d) \in unrecorded
          /\ HashKey(q, d) \in DOMAIN fresh => fresh[HashKey(q, d)] = <<u>>
      BY <3>2 DEF Accounts, SharedAccounted
    <3> QED  BY <1>1, <1>2, <3>1, <3>3
  <2> QED  BY <2>1, <2>2
<1>10. \A q \in WholePaths : /\ q \in DOMAIN files' <=> q \in DOMAIN files
                             /\ q \in DOMAIN files => files'[q] = files[q]
                             /\ HashKey(q, "lat") # h
  BY <1>3, <1>4, KindsOfFiles DEF Channels
<1>11. WholeAccounted'
  <2> SUFFICES ASSUME NEW q \in WholePaths \cap DOMAIN files'
               PROVE  /\ \A i \in DOMAIN files'[q] : files'[q][i][1] \notin {"begin", "end"}
                      /\ UsersIn(files'[q]) = 0 =>
                           /\ Recorded(HashKey(q, "lat"), files'[q]) \/ HashKey(q, "lat") \in unrecorded'
                           /\ HashKey(q, "lat") \in DOMAIN fresh' => fresh'[HashKey(q, "lat")] = files'[q]
    BY <1>1 DEF WholeAccounted, Recorded, Stored
  <2>1. q \in WholePaths \cap DOMAIN files /\ files'[q] = files[q] /\ HashKey(q, "lat") # h
    BY <1>10
  <2>2. /\ \A i \in DOMAIN files[q] : files[q][i][1] \notin {"begin", "end"}
        /\ UsersIn(files[q]) = 0 =>
             /\ Recorded(HashKey(q, "lat"), files[q]) \/ HashKey(q, "lat") \in unrecorded
             /\ HashKey(q, "lat") \in DOMAIN fresh => fresh[HashKey(q, "lat")] = files[q]
    BY <2>1 DEF Accounts, WholeAccounted
  <2> QED  BY <1>1, <1>2, <2>1, <2>2
<1>12. FreshIsCurrent'
  <2>1. ASSUME NEW q \in SharedPaths, NEW d \in Channels, HashKey(q, d) \in DOMAIN fresh'
        PROVE  fresh'[HashKey(q, d)] = <<Template(d, version')>> \/ (d = "lat" /\ q \in migrated')
    <3>1. CASE HashKey(q, d) = h
      BY <1>1, <1>2, <1>4, <3>1 DEF t
    <3>2. CASE HashKey(q, d) # h
      <4>1. fresh'[HashKey(q, d)] = <<Template(d, version)>> \/ (d = "lat" /\ q \in migrated)
        BY <1>2, <2>1, <3>2 DEF Accounts, FreshIsCurrent
      <4>2. d = "lat" => q # p \/ c = "fork"
        BY <1>4, <3>2 DEF Channels
      <4> QED  BY <1>1, <4>1, <4>2
    <3> QED  BY <3>1, <3>2
  <2>2. ASSUME settled' # Disturbed, NEW q \in WholePaths, HashKey(q, "lat") \in DOMAIN fresh'
        PROVE  q \in DOMAIN files' /\ fresh'[HashKey(q, "lat")] = files'[q] /\ files'[q] = (Wanted(q))'
    <3>1. HashKey(q, "lat") \in DOMAIN fresh /\ fresh'[HashKey(q, "lat")] = fresh[HashKey(q, "lat")]
      BY <1>2, <1>10, <2>2
    <3>2. q \in DOMAIN files /\ fresh[HashKey(q, "lat")] = files[q] /\ files[q] = Wanted(q)
      BY <1>1, <2>2, <3>1 DEF Accounts, FreshIsCurrent
    <3>3. q \in DOMAIN files' /\ files'[q] = files[q]
      BY <1>10, <3>2
    <3>4. (Wanted(q))' = Wanted(q)
      BY <1>1, <3>2, <3>3, WantedStays
    <3> QED  BY <3>1, <3>2, <3>3, <3>4
  <2> QED  BY <2>1, <2>2 DEF FreshIsCurrent
<1> QED  BY <1>6, <1>7, <1>8, <1>9, <1>11, <1>12 DEF Accounts

\* The same of a file of its own.
WholeEffect(q, text) ==
  /\ files' = WithFile(q, text) /\ version' = version /\ meta' = meta
  /\ settled' # Disturbed => settled # Disturbed
  /\ unrecorded \subseteq unrecorded' /\ doubled \subseteq doubled' /\ migrated' = migrated
  /\ KeepHash(HashKey(q, "lat"), text)
  /\ Unmarked(text)
  /\ HashKey(q, "lat") \in unrecorded' \/ Recorded(HashKey(q, "lat"), text) \/ UsersIn(text) # 0
  /\ settled' # Disturbed => text = (Wanted(q))'

\* So does one that writes a file of its own, or leaves it.
LEMMA WholeStep ==
  ASSUME Accounts, NEW p \in WholePaths, NEW text, WholeEffect(p, text)
  PROVE  Accounts'
<1> DEFINE h == HashKey(p, "lat")
<1>1. /\ files' = WithFile(p, text) /\ version' = version /\ meta' = meta
      /\ settled' # Disturbed => settled # Disturbed
      /\ unrecorded \subseteq unrecorded' /\ doubled \subseteq doubled' /\ migrated' = migrated
      /\ KeepHash(h, text)
      /\ Unmarked(text)
      /\ h \in unrecorded' \/ Recorded(h, text) \/ UsersIn(text) # 0
      /\ settled' # Disturbed => text = (Wanted(p))'
  BY DEF WholeEffect
<1>2. /\ DOMAIN fresh' = DOMAIN fresh \cup {h} /\ fresh'[h] = text
      /\ \A k \in DOMAIN fresh \ {h} : fresh'[k] = fresh[k]
  BY <1>1, OneKept
<1>3. /\ DOMAIN files' = DOMAIN files \cup {p} /\ files'[p] = text
      /\ \A q \in DOMAIN files \ {p} : files'[q] = files[q]
      /\ files' = [q \in DOMAIN files' |-> files'[q]]
  BY <1>1, OneWritten
<1>4. \A q, d : d \in Channels => (HashKey(q, d) = h <=> q = p /\ d = "lat")
  BY KeysDiffer DEF Channels
<1> HIDE DEF h
<1>5. \A q \in SharedPaths : /\ q \in DOMAIN files' <=> q \in DOMAIN files
                             /\ q \in DOMAIN files => files'[q] = files[q]
                             /\ \A d \in Channels : HashKey(q, d) # h
  BY <1>3, <1>4, KindsOfFiles
<1>6. version' \in 1..Versions /\ files' = [q \in DOMAIN files' |-> files'[q]] /\ RecordedArePristine(meta.hashes)'
  BY <1>1, <1>3 DEF Accounts
<1>7. RecordedArePristine(fresh)'
  BY <1>2, <1>5 DEF Accounts, RecordedArePristine
<1>8. OneOfAChannel'
  BY <1>1, <1>5 DEF Accounts, OneOfAChannel
<1>9. SharedAccounted'
  <2> SUFFICES ASSUME NEW q \in (SharedPaths \cap DOMAIN files') \ doubled', NEW d \in Channels, NEW u \in TemplatesIn(files'[q], d)
               PROVE  /\ Recorded(HashKey(q, d), <<u>>) \/ HashKey(q, d) \in unrecorded'
                      /\ HashKey(q, d) \in DOMAIN fresh' => fresh'[HashKey(q, d)] = <<u>>
    BY <1>1 DEF SharedAccounted, Recorded, Stored
  <2>1. HashKey(q, d) # h /\ q \in (SharedPaths \cap DOMAIN files) \ doubled /\ u \in TemplatesIn(files[q], d)
    BY <1>1, <1>5
  <2>2. /\ Recorded(HashKey(q, d), <<u>>) \/ HashKey(q, d) \in unrecorded
        /\ HashKey(q, d) \in DOMAIN fresh => fresh[HashKey(q, d)] = <<u>>
    BY <2>1 DEF Accounts, SharedAccounted
  <2> QED  BY <1>1, <1>2, <2>1, <2>2
<1>11. WholeAccounted'
  <2> SUFFICES ASSUME NEW q \in WholePaths \cap DOMAIN files'
               PROVE  /\ \A i \in DOMAIN files'[q] : files'[q][i][1] \notin {"begin", "end"}
                      /\ UsersIn(files'[q]) = 0 =>
                           /\ Recorded(HashKey(q, "lat"), files'[q]) \/ HashKey(q, "lat") \in unrecorded'
                           /\ HashKey(q, "lat") \in DOMAIN fresh' => fresh'[HashKey(q, "lat")] = files'[q]
    BY <1>1 DEF WholeAccounted, Recorded, Stored
  <2>1. CASE q = p
    <3>1. files'[q] = text /\ HashKey(q, "lat") = h
      BY <1>3, <2>1 DEF h
    <3>2. \A i \in DOMAIN text : text[i][1] \notin {"begin", "end"}
      BY <1>1 DEF Unmarked
    <3> QED  BY <1>1, <1>2, <3>1, <3>2
  <2>2. CASE q # p
    <3>1. q \in WholePaths \cap DOMAIN files /\ files'[q] = files[q] /\ HashKey(q, "lat") # h
      BY <1>3, <1>4, <2>2 DEF Channels
    <3>2. /\ \A i \in DOMAIN files[q] : files[q][i][1] \notin {"begin", "end"}
          /\ UsersIn(files[q]) = 0 =>
               /\ Recorded(HashKey(q, "lat"), files[q]) \/ HashKey(q, "lat") \in unrecorded
               /\ HashKey(q, "lat") \in DOMAIN fresh => fresh[HashKey(q, "lat")] = files[q]
      BY <3>1 DEF Accounts, WholeAccounted
    <3> QED  BY <1>1, <1>2, <3>1, <3>2
  <2> QED  BY <2>1, <2>2
<1>12. FreshIsCurrent'
  <2>1. ASSUME NEW q \in SharedPaths, NEW d \in Channels, HashKey(q, d) \in DOMAIN fresh'
        PROVE  fresh'[HashKey(q, d)] = <<Template(d, version')>> \/ (d = "lat" /\ q \in migrated')
    BY <1>1, <1>2, <1>5, <2>1 DEF Accounts, FreshIsCurrent
  <2>2. ASSUME settled' # Disturbed, NEW q \in WholePaths, HashKey(q, "lat") \in DOMAIN fresh'
        PROVE  q \in DOMAIN files' /\ fresh'[HashKey(q, "lat")] = files'[q] /\ files'[q] = (Wanted(q))'
    <3>1. CASE q = p
      <4>1. files'[q] = text /\ HashKey(q, "lat") = h /\ q \in DOMAIN files' /\ (Wanted(q))' = (Wanted(p))'
        BY <1>3, <3>1 DEF h
      <4> QED  BY <1>1, <1>2, <2>2, <4>1
    <3>2. CASE q # p
      <4>1. HashKey(q, "lat") \in DOMAIN fresh /\ fresh'[HashKey(q, "lat")] = fresh[HashKey(q, "lat")]
        BY <1>2, <1>4, <2>2, <3>2 DEF Channels
      <4>2. q \in DOMAIN files /\ fresh[HashKey(q, "lat")] = files[q] /\ files[q] = Wanted(q)
        BY <1>1, <2>2, <4>1 DEF Accounts, FreshIsCurrent
      <4>3. q \in DOMAIN files' /\ files'[q] = files[q]
        BY <1>3, <3>2, <4>2
      <4>4. (Wanted(q))' = Wanted(q)
        BY <1>1, <4>2, <4>3, WantedStays
      <4> QED  BY <4>1, <4>2, <4>3, <4>4
    <3> QED  BY <3>1, <3>2
  <2> QED  BY <2>1, <2>2 DEF FreshIsCurrent
<1> QED  BY <1>6, <1>7, <1>8, <1>9, <1>11, <1>12 DEF Accounts

\* A step that leaves the managed files and the hashes as they are.
ManagedUnchanged ==
  /\ \A q \in SharedPaths \cup WholePaths : /\ q \in DOMAIN files' <=> q \in DOMAIN files
                                            /\ q \in DOMAIN files => files'[q] = files[q]
  /\ files' = [q \in DOMAIN files' |-> files'[q]]

\* A step that leaves managed files, hashes and notes alone keeps the accounts.
LEMMA OtherStep ==
  ASSUME Accounts, ManagedUnchanged, UNCHANGED <<version, meta, fresh, notes>>, settled' # Disturbed => settled # Disturbed
  PROVE  Accounts'
<1>1. /\ UNCHANGED <<version, meta, fresh, unrecorded, doubled, migrated>>
      /\ \A q \in SharedPaths : /\ q \in DOMAIN files' <=> q \in DOMAIN files
                                /\ q \in DOMAIN files => files'[q] = files[q]
      /\ \A q \in WholePaths : /\ q \in DOMAIN files' <=> q \in DOMAIN files
                               /\ q \in DOMAIN files => files'[q] = files[q]
  BY DEF ManagedUnchanged, notes
<1>2. RecordedArePristine(meta.hashes)' /\ RecordedArePristine(fresh)' /\ version' \in 1..Versions
  BY <1>1 DEF Accounts
<1>3. OneOfAChannel'
  BY <1>1 DEF Accounts, OneOfAChannel
<1>4. SharedAccounted'
  BY <1>1 DEF Accounts, SharedAccounted, Recorded, Stored
<1>5. WholeAccounted'
  BY <1>1 DEF Accounts, WholeAccounted, Recorded, Stored
<1>6. \A q \in WholePaths : q \in DOMAIN files => (Wanted(q))' = Wanted(q)
  BY <1>1, WantedStays
<1>7. FreshIsCurrent'
  BY <1>1, <1>6 DEF Accounts, FreshIsCurrent
<1> QED  BY <1>2, <1>3, <1>4, <1>5, <1>7 DEF Accounts, ManagedUnchanged

-----------------------------------------------------------------------------
(***************************************************************************)
(* What a step on a shared file may come to.                               *)
(***************************************************************************)
Own == <<Template(Channel, version)>>
OwnKey == HashKey(Path, Channel)

Absent == Op(1) = "block" /\ ~Exists(Path) /\ Leaves /\ UNCHANGED <<fresh, migrated>>
Created == Op(1) = "section" /\ ~Exists(Path) /\ Writes(Wrap(Own, Channel), OwnKey) /\ KeepHash(OwnKey, Own) /\ migrated' = migrated
Current ==
  /\ Exists(Path) /\ HasSection(files[Path], Channel) /\ Section(files[Path], Channel) = Own
  /\ Leaves /\ KeepHash(OwnKey, Own) /\ migrated' = migrated
Replacing(text) ==
  /\ Exists(Path) /\ text \in Texts /\ HasSection(text, Channel)
  /\ Writes(Spliced(text, Own, Channel), OwnKey) /\ KeepHash(OwnKey, Own)
  /\ migrated' \in {migrated, migrated \ {Path}} /\ (Op(1) = "block" => migrated' = migrated)
  /\ \/ answer' = "yes" /\ prompt # NotAsked /\ text = prompt[1]
     \/ /\ prompt = NotAsked /\ text = files[Path] /\ Section(text, Channel) # Own
        /\ Recorded(OwnKey, Section(text, Channel)) \/ (Op(1) = "block" /\ ~Stored(OwnKey))
Kept == Exists(Path) /\ prompt # NotAsked /\ answer' = "no" /\ Leaves /\ UNCHANGED <<fresh, migrated>>
Marked ==
  /\ Op(1) = "section" /\ Exists(Path) /\ prompt = NotAsked /\ Recorded(OwnKey, files[Path])
  /\ Writes(Wrap(files[Path], Channel), OwnKey) /\ KeepHash(OwnKey, files[Path]) /\ migrated' = migrated \cup {Path}
Appended ==
  /\ Exists(Path) /\ ~HasSection(files[Path], Channel) /\ prompt = NotAsked
  /\ Writes(Spliced(files[Path], Own, Channel), OwnKey) /\ KeepHash(OwnKey, Own) /\ migrated' = migrated

\* The file and the channel of a step on a shared file, and what it reads.
LEMMA SharedIs ==
  ASSUME IInv, ListInv, todo # <<>>, Op(1) \in {"section", "block"}
  PROVE  /\ Path \in SharedPaths /\ Channel \in Channels
         /\ Channel = IF Op(1) = "block" THEN "fork" ELSE "lat"
         /\ prompt = NotAsked => Text = files[Path]
         /\ prompt # NotAsked =>
              /\ Text = prompt[1] /\ Text \in Texts /\ Path \in DOMAIN files /\ HasSection(Text, Channel)
              /\ ~Recorded(OwnKey, Section(Text, Channel))
              /\ Op(1) = "block" => Stored(OwnKey)
         /\ Path \in DOMAIN files => files[Path] \in Texts
<1>1. Typed(todo[1])
  BY StepOfPlan DEF Writing
<1>2. Path \in SharedPaths /\ Channel \in Channels /\ Channel = IF Op(1) = "block" THEN "fork" ELSE "lat"
  BY <1>1 DEF Typed, Path, Channel, Channels, Op
<1>3. prompt # NotAsked => AskedAbout
  BY DEF IInv
<1>4. prompt # NotAsked =>
              /\ prompt[1] \in Texts /\ Path \in DOMAIN files /\ HasSection(prompt[1], Channel)
              /\ ~Recorded(OwnKey, Section(prompt[1], Channel))
              /\ Op(1) = "block" => Stored(OwnKey)
  BY <1>2, <1>3 DEF AskedAbout, Op, OwnKey
<1> QED  BY <1>2, <1>4 DEF Text, IInv, TextsAreTexts

\* What lat's section comes to.
LEMMA SectionOutcomes ==
  ASSUME IInv, ListInv, AccountInv, AppendTemplateSection, Moves
  PROVE  Created \/ Current \/ (\E text : Replacing(text)) \/ Kept \/ Marked \/ Appended
<1>1. /\ todo # <<>> /\ Op(1) = "section" /\ Channel = "lat" /\ Own = <<Template("lat", version)>>
      /\ OwnKey = HashKey(Path, "lat")
  BY DEF AppendTemplateSection, Op, Channel, Own, OwnKey
<1>2. /\ prompt = NotAsked => Text = files[Path]
      /\ prompt # NotAsked =>
              /\ Text = prompt[1] /\ Text \in Texts /\ Path \in DOMAIN files /\ HasSection(Text, Channel)
              /\ ~Recorded(OwnKey, Section(Text, Channel))
      /\ Path \in DOMAIN files => files[Path] \in Texts
  BY <1>1, SharedIs
<1>3. prompt # NotAsked => Section(Text, Channel) # Own
  BY <1>1, <1>2 DEF AccountInv, Prompts, AskedDiffers, Own
<1> DEFINE replaced == Spliced(Text, Own, Channel)
<1>4. IF ~Exists(Path) THEN Put(Wrap(Own, Channel), OwnKey, Own) /\ UNCHANGED migrated
      ELSE IF HasSection(Text, Channel)
      THEN IF Section(Text, Channel) = Own THEN UpToDate(OwnKey, Own) /\ UNCHANGED migrated
           ELSE IF Recorded(OwnKey, Section(Text, Channel))
           THEN Put(replaced, OwnKey, Own) /\ migrated' = migrated \ {Path}
           ELSE Answer(replaced, OwnKey, Own) /\ UNCHANGED migrated
      ELSE IF Recorded(OwnKey, Text)
      THEN Put(Wrap(Text, Channel), OwnKey, Text) /\ migrated' = migrated \cup {Path}
      ELSE Put(replaced, OwnKey, Own) /\ UNCHANGED migrated
  <2>1. ~Ask
    BY DEF Moves, Ask
  <2> QED  BY <1>1, <2>1 DEF AppendTemplateSection
<1>5. CASE ~Exists(Path)
  BY <1>1, <1>4, <1>5 DEF Put, Created
<1>6. CASE Exists(Path) /\ HasSection(Text, Channel) /\ Section(Text, Channel) = Own
  BY <1>2, <1>3, <1>4, <1>6 DEF UpToDate, Current
<1>7. CASE Exists(Path) /\ HasSection(Text, Channel) /\ Section(Text, Channel) # Own /\ Recorded(OwnKey, Section(Text, Channel))
  <2>1. Replacing(Text)
    BY <1>1, <1>2, <1>4, <1>7 DEF Put, Replacing, Exists
  <2> QED  BY <2>1
<1>8. CASE Exists(Path) /\ HasSection(Text, Channel) /\ Section(Text, Channel) # Own /\ ~Recorded(OwnKey, Section(Text, Channel))
  <2>1. Answer(replaced, OwnKey, Own) /\ migrated' = migrated
    BY <1>4, <1>8
  <2>2. CASE answer' = "yes"
    <3>1. Replacing(Text)
      BY <1>1, <1>2, <1>8, <2>1, <2>2 DEF Answer, Replacing
    <3> QED  BY <3>1
  <2>3. CASE answer' # "yes"
    BY <1>8, <2>1, <2>3 DEF Answer, Kept
  <2> QED  BY <2>2, <2>3
<1>9. CASE Exists(Path) /\ ~HasSection(Text, Channel) /\ Recorded(OwnKey, Text)
  BY <1>1, <1>2, <1>4, <1>9 DEF Put, Marked
<1>10. CASE Exists(Path) /\ ~HasSection(Text, Channel) /\ ~Recorded(OwnKey, Text)
  BY <1>1, <1>2, <1>4, <1>10 DEF Put, Appended
<1> QED  BY <1>5, <1>6, <1>7, <1>8, <1>9, <1>10

\* What the fork's section comes to.
LEMMA BlockOutcomes ==
  ASSUME IInv, ListInv, AccountInv, WriteForkBlock, Moves
  PROVE  Absent \/ Current \/ (\E text : Replacing(text)) \/ Kept \/ Appended
<1>1. /\ todo # <<>> /\ Op(1) = "block" /\ Channel = "fork" /\ Own = <<Template("fork", version)>>
      /\ OwnKey = HashKey(Path, "fork")
  BY DEF WriteForkBlock, Op, Channel, Own, OwnKey
<1>2. /\ prompt = NotAsked => Text = files[Path]
      /\ prompt # NotAsked =>
              /\ Text = prompt[1] /\ Text \in Texts /\ Path \in DOMAIN files /\ HasSection(Text, Channel)
              /\ ~Recorded(OwnKey, Section(Text, Channel)) /\ Stored(OwnKey)
      /\ Path \in DOMAIN files => files[Path] \in Texts
  BY <1>1, SharedIs
<1>3. prompt # NotAsked => Section(Text, Channel) # Own
  BY <1>1, <1>2 DEF AccountInv, Prompts, AskedDiffers, Own
<1> DEFINE replaced == Spliced(Text, Own, Channel)
<1>4. /\ IF ~Exists(Path) THEN Leaves /\ UNCHANGED fresh
         ELSE IF ~HasSection(Text, Channel) THEN Put(replaced, OwnKey, Own)
         ELSE IF Section(Text, Channel) = Own THEN UpToDate(OwnKey, Own)
         ELSE IF Stored(OwnKey) /\ ~Recorded(OwnKey, Section(Text, Channel))
         THEN Answer(replaced, OwnKey, Own)
         ELSE Put(replaced, OwnKey, Own)
      /\ migrated' = migrated
  <2>1. ~Ask
    BY DEF Moves, Ask
  <2> QED  BY <1>1, <2>1 DEF WriteForkBlock
<1>5. CASE ~Exists(Path)
  BY <1>1, <1>4, <1>5 DEF Absent
<1>6. CASE Exists(Path) /\ HasSection(Text, Channel) /\ Section(Text, Channel) = Own
  BY <1>2, <1>3, <1>4, <1>6 DEF UpToDate, Current
<1>7. CASE Exists(Path) /\ HasSection(Text, Channel) /\ Section(Text, Channel) # Own /\ ~(Stored(OwnKey) /\ ~Recorded(OwnKey, Section(Text, Channel)))
  <2>1. Replacing(Text)
    BY <1>1, <1>2, <1>4, <1>7 DEF Put, Replacing, Exists
  <2> QED  BY <2>1
<1>8. CASE Exists(Path) /\ HasSection(Text, Channel) /\ Section(Text, Channel) # Own /\ Stored(OwnKey) /\ ~Recorded(OwnKey, Section(Text, Channel))
  <2>1. Answer(replaced, OwnKey, Own) /\ migrated' = migrated
    BY <1>4, <1>8
  <2>2. CASE answer' = "yes"
    <3>1. Replacing(Text)
      BY <1>1, <1>2, <1>8, <2>1, <2>2 DEF Answer, Replacing
    <3> QED  BY <3>1
  <2>3. CASE answer' # "yes"
    BY <1>8, <2>1, <2>3 DEF Answer, Kept
  <2> QED  BY <2>2, <2>3
<1>10. CASE Exists(Path) /\ ~HasSection(Text, Channel)
  BY <1>1, <1>2, <1>4, <1>10 DEF Put, Appended
<1> QED  BY <1>5, <1>6, <1>7, <1>8, <1>10

-----------------------------------------------------------------------------
\* Putting a file's own text into it changes nothing.
LEMMA SameFile ==
  ASSUME files = [q \in DOMAIN files |-> files[q]], NEW p \in DOMAIN files
  PROVE  WithFile(p, files[p]) = files
<1>1. DOMAIN files \cup {p} = DOMAIN files
  OBVIOUS
<1>2. WithFile(p, files[p]) = [q \in DOMAIN files |-> IF q = p THEN files[p] ELSE files[q]]
  BY <1>1 DEF WithFile
<1>3. WithFile(p, files[p]) = [q \in DOMAIN files |-> files[q]]
  BY <1>2
<1> QED  BY <1>3

\* A template between its markers, alone in a file.
LEMMA WrappedTemplates ==
  ASSUME NEW c \in Channels, NEW v \in Nat, NEW new, new = Wrap(<<Template(c, v)>>, c)
  PROVE  /\ new \in Texts /\ Template(c, v) \in TemplatesIn(new, c)
         /\ \A d \in Channels \ {c} : TemplatesIn(new, d) = {}
<1>1. Extended(<<>>, new, c, v)
  BY WrapIsCurrent
<1>2. << >> \in Texts
  BY DEF Texts
<1>3. \A d \in Channels : TemplatesIn(<<>>, d) = {}
  BY DEF TemplatesIn
<1>4. /\ \A d \in Channels \ {c} : TemplatesIn(new, d) \subseteq TemplatesIn(<<>>, d)
      /\ Template(c, v) \in TemplatesIn(new, c)
  BY <1>1, <1>2, TemplatesExtended
<1> QED  BY <1>1, <1>3, <1>4 DEF Extended

\* The version that runs is one of those released.
LEMMA VersionIs ==
  ASSUME Accounts
  PROVE  version \in Nat /\ version \in 0..Versions /\ Versions \in Nat
BY BoundsAssumption DEF Accounts

\* What a recorded section is.
LEMMA RecordedIs ==
  ASSUME Accounts, NEW p \in SharedPaths, NEW c \in Channels, NEW text, Recorded(HashKey(p, c), text)
  PROVE  \E v \in 0..Versions : text = <<Template(c, v)>>
BY DEF Accounts, RecordedArePristine, Recorded, Stored, Pristine

\* The steps on shared files keep the accounts.
LEMMA AccountOfShared ==
  ASSUME IInv, ListInv, AccountInv, AppendTemplateSection \/ WriteForkBlock, Moves
  PROVE  Accounts'
<1> DEFINE p == Path
           c == Channel
           t == Template(c, version)
<1>1. /\ todo # <<>> /\ Op(1) \in {"section", "block"} /\ Writers
  BY DEF AppendTemplateSection, WriteForkBlock, Op, Writers
<1>2. /\ p \in SharedPaths /\ c \in Channels /\ (c = "fork" => Op(1) = "block")
      /\ p \in DOMAIN files => files[p] \in Texts
      /\ OwnKey = HashKey(p, c) /\ Own = <<t>>
  BY <1>1, SharedIs DEF OwnKey, Own
<1>3. UNCHANGED <<version, meta>> /\ (settled' # Disturbed => settled # Disturbed)
  BY <1>1, WritersAre, WritersMove
<1>4. version \in Nat /\ version \in 0..Versions /\ Accounts /\ Versions \in Nat
  BY VersionIs DEF AccountInv
<1>5. \/ Absent \/ Created \/ Current \/ (\E text : Replacing(text)) \/ Kept \/ Marked \/ Appended
  BY SectionOutcomes, BlockOutcomes
<1> HIDE DEF t
<1>6. ASSUME NEW v \in 0..Versions, NEW text, SharedEffect(p, c, Template(c, v), text), v = version \/ (c = "lat" /\ p \in migrated')
      PROVE  Accounts'
  BY <1>2, <1>4, <1>6, SharedStep
<1>7. ASSUME SharedEffect(p, c, t, files[p]) \/ \E text : SharedEffect(p, c, t, text)
      PROVE  Accounts'
  BY <1>4, <1>6, <1>7 DEF t
<1>8. ASSUME NEW text, Writes(text, OwnKey), KeepHash(OwnKey, Own), t \in TemplatesIn(text, c),
             \A d \in Channels \ {c} : TemplatesIn(text, d) \subseteq IF p \in DOMAIN files THEN TemplatesIn(files[p], d) ELSE {},
             migrated' \in {migrated, migrated \ {p}}, Op(1) = "block" => migrated' = migrated
      PROVE  Accounts'
  <2>1. SharedEffect(p, c, t, text)
    BY <1>2, <1>3, <1>8 DEF SharedEffect, Writes
  <2> QED  BY <1>7, <2>1
<1>9. CASE Absent \/ Kept
  <2>1. UNCHANGED <<files, fresh, notes>>
    BY <1>9 DEF Absent, Kept, Leaves, notes
  <2>2. ManagedUnchanged
    BY <1>4, <2>1 DEF ManagedUnchanged, Accounts
  <2> QED  BY <1>3, <1>4, <2>1, <2>2, OtherStep
<1>10. CASE Created
  <2> DEFINE new == Wrap(<<t>>, c)
  <2>1. t \in TemplatesIn(new, c) /\ \A d \in Channels \ {c} : TemplatesIn(new, d) = {}
    BY <1>2, <1>4, WrappedTemplates DEF t
  <2>2. Writes(new, OwnKey) /\ KeepHash(OwnKey, Own) /\ migrated' = migrated
    BY <1>2, <1>10 DEF Created
  <2> HIDE DEF new
  <2> QED  BY <1>8, <2>1, <2>2
<1>11. CASE Current
  <2>1. /\ p \in DOMAIN files /\ HasSection(files[p], c) /\ Section(files[p], c) = <<t>>
        /\ Leaves /\ KeepHash(HashKey(p, c), <<t>>) /\ migrated' = migrated
    BY <1>2, <1>11 DEF Current, Exists
  <2>2. t \in TemplatesIn(files[p], c)
    BY <1>2, <2>1, SectionTemplate DEF t
  <2>3. files' = WithFile(p, files[p])
    BY <1>4, <2>1, SameFile DEF Leaves, Accounts
  <2>4. p \in doubled \/ ~TwoOfAChannel(files[p])
    BY <1>2, <1>4, <2>1 DEF Accounts, OneOfAChannel
  <2>5. p \in doubled \/ HashKey(p, c) \in unrecorded \/ Recorded(HashKey(p, c), <<t>>)
    BY <1>2, <1>4, <2>1, <2>2 DEF Accounts, SharedAccounted
  <2>6. SharedEffect(p, c, t, files[p])
    BY <1>3, <2>1, <2>2, <2>3, <2>4, <2>5 DEF SharedEffect, Leaves
  <2> QED  BY <1>7, <2>6
<1>12. ASSUME NEW text, Replacing(text)
       PROVE  Accounts'
  <2> DEFINE new == Spliced(text, <<t>>, c)
  <2>1. /\ p \in DOMAIN files /\ text \in Texts /\ HasSection(text, c)
        /\ Writes(new, OwnKey) /\ KeepHash(OwnKey, Own)
        /\ migrated' \in {migrated, migrated \ {p}} /\ (Op(1) = "block" => migrated' = migrated)
        /\ (prompt # NotAsked /\ text = prompt[1]) \/ text = files[p]
    BY <1>2, <1>12 DEF Replacing, Exists
  <2>2. Replaced(text, new, At(text, Begin(c)), At(text, End(c)), c, version)
    BY <1>2, <1>4, <2>1, SplicedPlaces DEF t
  <2> HIDE DEF new
  <2>3. /\ \A d \in Channels \ {c} : TemplatesIn(new, d) \subseteq TemplatesIn(text, d)
        /\ t \in TemplatesIn(new, c)
    BY <1>2, <1>4, <2>1, <2>2, TemplatesReplaced DEF t
  <2>4. \A d \in Channels : TemplatesIn(text, d) = TemplatesIn(files[p], d)
    BY <2>1 DEF AccountInv, Prompts, PromptIsOfFile
  <2> QED  BY <1>8, <2>1, <2>3, <2>4
<1>13. CASE Marked
  <2>1. /\ c = "lat" /\ p \in DOMAIN files /\ Recorded(HashKey(p, c), files[p])
        /\ Writes(Wrap(files[p], c), OwnKey) /\ KeepHash(OwnKey, files[p]) /\ migrated' = migrated \cup {p}
    BY <1>2, <1>13 DEF Marked, Exists, Channel, Op
  <2>2. PICK v \in 0..Versions : files[p] = <<Template(c, v)>>
    BY <1>2, <1>4, <2>1, RecordedIs
  <2> DEFINE new == Wrap(<<Template(c, v)>>, c)
  <2>3. Template(c, v) \in TemplatesIn(new, c) /\ \A d \in Channels \ {c} : TemplatesIn(new, d) = {}
    BY <1>2, <1>4, <2>2, WrappedTemplates
  <2>4. Writes(new, OwnKey) /\ KeepHash(OwnKey, <<Template(c, v)>>)
    BY <2>1, <2>2
  <2> HIDE DEF new
  <2>5. SharedEffect(p, c, Template(c, v), new)
    BY <1>2, <1>3, <2>1, <2>3, <2>4 DEF SharedEffect, Writes
  <2> QED  BY <1>6, <2>1, <2>5
<1>14. CASE Appended
  <2> DEFINE new == Spliced(files[p], <<t>>, c)
  <2>1. /\ p \in DOMAIN files /\ ~HasSection(files[p], c)
        /\ Writes(new, OwnKey) /\ KeepHash(OwnKey, Own) /\ migrated' = migrated
    BY <1>2, <1>14 DEF Appended, Exists
  <2>2. Extended(files[p], new, c, version)
    BY <1>2, <1>4, <2>1, AppendedPlaces DEF t
  <2> HIDE DEF new
  <2>3. /\ \A d \in Channels \ {c} : TemplatesIn(new, d) \subseteq TemplatesIn(files[p], d)
        /\ t \in TemplatesIn(new, c)
    BY <1>2, <1>4, <2>1, <2>2, TemplatesExtended DEF t
  <2> QED  BY <1>8, <2>1, <2>3
<1> QED  BY <1>5, <1>9, <1>10, <1>11, <1>12, <1>13, <1>14

-----------------------------------------------------------------------------
(***************************************************************************)
(* What a step on a file of its own may come to.                           *)
(***************************************************************************)
Target == IF Op(1) = "conventions" THEN SkillFile(Path) ELSE Path
TargetKey == HashKey(Target, "lat")

Rootless == Op(1) = "conventions" /\ ~RootExists(Path) /\ Leaves /\ UNCHANGED <<fresh, migrated>>
Uptodate == Exists(Target) /\ files[Target] = Wanted(Target) /\ Leaves /\ KeepHash(TargetKey, files[Target]) /\ migrated' = migrated
Rewritten(text) ==
  /\ files' = WithFile(Target, text) /\ unrecorded' = unrecorded \cup {TargetKey} /\ doubled \subseteq doubled'
  /\ KeepHash(TargetKey, text) /\ migrated' = migrated
  /\ text \in Texts
  /\ Op(1) # "merged" => text = Wanted(Target)
  /\ Op(1) = "merged" =>
       \/ ~Exists(Target) /\ text = <<Template("lat", version)>>
       \/ \E old \in Texts : text = Merged(old)
  /\ \/ ~Exists(Target) \/ answer' = "yes"
     \/ /\ files[Target] # Wanted(Target)
        /\ Recorded(TargetKey, files[Target]) \/ (Op(1) = "conventions" /\ ~Stored(TargetKey))
Refused ==
  /\ Exists(Target) /\ answer' = "no" /\ Leaves /\ UNCHANGED <<fresh, migrated>>
  /\ \/ prompt # NotAsked /\ Op(1) \in {"template", "merged"}
     \/ /\ Op(1) = "conventions" /\ Stored(TargetKey) /\ ~Recorded(TargetKey, files[Target])
        /\ files[Target] # Wanted(Target)

\* The file of a step on a file of its own, its template and the text worked on.
LEMMA TargetIs ==
  ASSUME IInv, ListInv, todo # <<>>, Op(1) \in {"template", "merged", "conventions"}
  PROVE  /\ Target \in WholePaths
         /\ Op(1) = "merged" <=> Target = ".agents/hooks.json"
         /\ Op(1) = "template" => TemplateOf(Path) = Wanted(Path)
         /\ Op(1) = "conventions" => Path \in SkillRoots /\ Target \in SkillFiles
         /\ prompt = NotAsked => Text = files[Path]
         /\ prompt # NotAsked =>
              /\ Text = prompt[1] /\ Text \in Texts /\ Path \in DOMAIN files
              /\ ~Recorded(TargetKey, Text) /\ Op(1) # "conventions"
         /\ Path \in DOMAIN files => files[Path] \in Texts
         /\ Target \in DOMAIN files => files[Target] \in Texts
<1>1. Typed(todo[1]) /\ todo[1] \in Steps
  BY StepOfPlan DEF Writing
<1>2. /\ Op(1) = "merged" <=> Path = ".agents/hooks.json"
      /\ Op(1) = "conventions" => Path \in SkillRoots /\ SkillFile(Path) \in SkillFiles
      /\ Op(1) = "template" => Path \in WholePaths \ {".agents/hooks.json"} /\ (Path \in SkillFiles => Path = SkillFile(".agents/skills/lat-md"))
  BY <1>1 DEF Steps, Typed, Op, Path, SkillFiles
<1>3. ".agents/hooks.json" \in WholePaths /\ ".agents/hooks.json" \notin SkillFiles /\ SkillFile(".agents/skills/lat-md") \in SkillFiles
  BY DEF WholePaths, SkillFiles, SkillFile, SkillRoots
<1>4. Target \in WholePaths /\ (Op(1) = "merged" <=> Target = ".agents/hooks.json")
  BY <1>2, <1>3, KindsOfFiles DEF Target
<1>5. Op(1) = "template" => TemplateOf(Path) = Wanted(Path)
  BY <1>2, <1>3 DEF TemplateOf, Wanted
<1>6. prompt # NotAsked => AskedAbout
  BY DEF IInv
<1>7. prompt # NotAsked =>
              /\ prompt[1] \in Texts /\ Path \in DOMAIN files
              /\ ~Recorded(TargetKey, prompt[1]) /\ Op(1) # "conventions"
  BY <1>6 DEF AskedAbout, Op, Target, TargetKey
<1> QED  BY <1>2, <1>4, <1>5, <1>7 DEF Text, IInv, TextsAreTexts, Target

\* What a template file comes to.
LEMMA WholeOutcomes ==
  ASSUME IInv, ListInv, AccountInv, WriteTemplateFile, Moves
  PROVE  Uptodate \/ (\E text : Rewritten(text)) \/ Refused
<1> DEFINE body == IF todo[1].op = "merged" /\ prompt = NotAsked THEN MergedHooks(Path)
                   ELSE IF todo[1].op = "merged"
                   THEN Keep(prompt[1], {User, Mixed}) \o <<Template("lat", version)>>
                   ELSE TemplateOf(Path)
           own == <<Template("lat", version)>>
<1>1. todo # <<>> /\ Op(1) \in {"template", "merged"} /\ Target = Path /\ TargetKey = HashKey(Path, "lat")
  BY DEF WriteTemplateFile, Op, Target, TargetKey
<1>2. /\ Op(1) = "merged" <=> Path = ".agents/hooks.json"
      /\ Op(1) = "template" => TemplateOf(Path) = Wanted(Path)
      /\ prompt = NotAsked => Text = files[Path]
      /\ prompt # NotAsked =>
           /\ Text = prompt[1] /\ Text \in Texts /\ Path \in DOMAIN files
           /\ ~Recorded(TargetKey, Text)
      /\ Path \in DOMAIN files => files[Path] \in Texts
  BY <1>1, TargetIs
<1>3. version \in Nat /\ own \in Texts
  BY TemplatesAre DEF IInv, Channels
<1>4. Op(1) = "merged" => Wanted(Path) = MergedHooks(Path)
  BY <1>2 DEF Wanted
<1>5. /\ Op(1) = "template" => body = Wanted(Path)
      /\ Op(1) = "merged" /\ prompt = NotAsked => body = Wanted(Path)
      /\ Op(1) = "merged" /\ prompt # NotAsked => body = Merged(prompt[1])
  BY <1>2, <1>4 DEF Op, Merged
<1>6. body \in Texts
  <2>1. CASE Op(1) = "template"
    BY <1>3, <1>2, <2>1, TemplatesAre DEF TemplateOf, Op, Channels
  <2>2. CASE Op(1) = "merged" /\ prompt = NotAsked
    <3>1. CASE ~Exists(Path)
      BY <1>3, <2>2, <3>1 DEF MergedHooks, Op
    <3>2. CASE Exists(Path)
      <4>1. body = Keep(files[Path], {User, Mixed}) \o own
        BY <2>2, <3>2 DEF MergedHooks, Op
      <4> QED  BY <1>2, <1>3, <3>2, <4>1, KeptWithTemplate DEF Exists
    <3> QED  BY <3>1, <3>2
  <2>3. CASE Op(1) = "merged" /\ prompt # NotAsked
    <3>1. body = Keep(prompt[1], {User, Mixed}) \o own
      BY <2>3 DEF Op
    <3> QED  BY <1>2, <1>3, <2>3, <3>1, KeptWithTemplate
  <2> QED  BY <1>1, <2>1, <2>2, <2>3
<1>7. Op(1) = "merged" =>
        \/ ~Exists(Path) /\ body = own
        \/ \E old \in Texts : body = Merged(old)
  <2>1. CASE prompt = NotAsked
    BY <1>2, <2>1 DEF MergedHooks, Op, Merged, Exists
  <2>2. CASE prompt # NotAsked
    BY <1>2, <2>2 DEF Op, Merged
  <2> QED  BY <2>1, <2>2
<1>8. /\ IF ~Exists(Path) THEN Put(body, TargetKey, body)
         ELSE IF Text = body THEN UpToDate(TargetKey, body)
         ELSE IF Recorded(TargetKey, Text) THEN Put(body, TargetKey, body)
         ELSE Answer(body, TargetKey, body)
      /\ migrated' = migrated
  <2>1. ~Ask
    BY DEF Moves, Ask
  <2> QED  BY <1>1, <2>1 DEF WriteTemplateFile
<1>9. prompt # NotAsked => Text # body
  <2>1. CASE Op(1) = "template" /\ prompt # NotAsked
    BY <1>2, <1>5, <2>1 DEF AccountInv, Prompts, AskedDiffers
  <2>2. CASE Op(1) = "merged" /\ prompt # NotAsked
    BY <1>2, <1>5, <2>2 DEF AccountInv, Prompts, AskedDiffers
  <2> QED  BY <1>1, <2>1, <2>2
<1> HIDE DEF body
<1>10. prompt = NotAsked => body = Wanted(Path)
  BY <1>1, <1>5
<1>11. ASSUME Writes(body, TargetKey), KeepHash(TargetKey, body),
              ~Exists(Path) \/ answer' = "yes" \/ (Text # body /\ Recorded(TargetKey, Text))
       PROVE  Rewritten(body)
  <2>1. doubled \subseteq doubled'
    BY <1>11 DEF Writes
  <2>2. Op(1) # "merged" => body = Wanted(Path)
    BY <1>1, <1>5
  <2>3. ~Exists(Path) \/ answer' = "yes" \/ (files[Path] # Wanted(Path) /\ Recorded(TargetKey, files[Path]))
    BY <1>2, <1>10, <1>11
  <2> QED  BY <1>1, <1>6, <1>7, <1>8, <1>11, <2>1, <2>2, <2>3 DEF Rewritten, Writes
<1>12. CASE ~Exists(Path)
  BY <1>8, <1>11, <1>12 DEF Put
<1>13. CASE Exists(Path) /\ Text = body
  BY <1>1, <1>2, <1>8, <1>9, <1>10, <1>13 DEF UpToDate, Uptodate
<1>14. CASE Exists(Path) /\ Text # body /\ Recorded(TargetKey, Text)
  BY <1>8, <1>11, <1>14 DEF Put
<1>15. CASE Exists(Path) /\ Text # body /\ ~Recorded(TargetKey, Text)
  <2>1. Answer(body, TargetKey, body)
    BY <1>8, <1>15
  <2>2. CASE answer' = "yes"
    BY <1>11, <2>1, <2>2 DEF Answer
  <2>3. CASE answer' # "yes"
    BY <1>1, <1>8, <1>15, <2>1, <2>3 DEF Answer, Refused
  <2> QED  BY <2>2, <2>3
<1> QED  BY <1>12, <1>13, <1>14, <1>15

\* What the conventions skill comes to.
LEMMA SkillOutcomes ==
  ASSUME IInv, ListInv, AccountInv, WriteForkSkill, Moves
  PROVE  Rootless \/ Uptodate \/ (\E text : Rewritten(text)) \/ Refused
<1> DEFINE body == <<Template("fork", version)>>
<1>1. todo # <<>> /\ Op(1) = "conventions" /\ Target = SkillFile(Path) /\ TargetKey = HashKey(SkillFile(Path), "lat")
  BY DEF WriteForkSkill, Op, Target, TargetKey
<1>2. Wanted(Target) = body /\ body \in Texts
  <2>1. Target \in SkillFiles /\ ".agents/hooks.json" \notin SkillFiles
    BY <1>1, TargetIs DEF SkillFiles, SkillFile, SkillRoots
  <2>2. version \in Nat
    BY DEF IInv
  <2> QED  BY <2>1, <2>2, TemplatesAre DEF Wanted, Channels
<1> DEFINE write == files' = WithFile(Target, body) /\ unrecorded' = unrecorded \cup {TargetKey} /\ UNCHANGED doubled
<1>3. /\ IF ~RootExists(Path) THEN Leaves /\ UNCHANGED fresh
         ELSE IF Exists(Target) /\ files[Target] = body THEN UpToDate(TargetKey, body)
         ELSE IF Exists(Target) /\ Stored(TargetKey) /\ ~Recorded(TargetKey, files[Target])
         THEN \/ answer' = "yes" /\ write /\ KeepHash(TargetKey, body)
              \/ answer' = "no" /\ Leaves /\ UNCHANGED fresh
         ELSE write /\ KeepHash(TargetKey, body)
      /\ migrated' = migrated
  BY <1>1 DEF WriteForkSkill
<1> HIDE DEF body
<1>4. ASSUME write, KeepHash(TargetKey, body),
             \/ ~Exists(Target) \/ answer' = "yes"
             \/ files[Target] # body /\ (Recorded(TargetKey, files[Target]) \/ ~Stored(TargetKey))
      PROVE  Rewritten(body)
  BY <1>1, <1>2, <1>3, <1>4 DEF Rewritten
<1> HIDE DEF write
<1>5. CASE ~RootExists(Path)
  BY <1>1, <1>3, <1>5 DEF Rootless
<1>6. CASE RootExists(Path) /\ Exists(Target) /\ files[Target] = body
  BY <1>2, <1>3, <1>6 DEF UpToDate, Uptodate
<1>7. CASE /\ RootExists(Path) /\ ~(Exists(Target) /\ files[Target] = body)
           /\ Exists(Target) /\ Stored(TargetKey) /\ ~Recorded(TargetKey, files[Target])
  <2>1. \/ answer' = "yes" /\ write /\ KeepHash(TargetKey, body)
        \/ answer' = "no" /\ Leaves /\ UNCHANGED fresh
    BY <1>3, <1>7
  <2>2. answer' = "no" /\ Leaves /\ UNCHANGED fresh => Refused
    BY <1>1, <1>2, <1>3, <1>7 DEF Refused
  <2> QED  BY <1>4, <2>1, <2>2
<1>8. CASE /\ RootExists(Path) /\ ~(Exists(Target) /\ files[Target] = body)
           /\ ~(Exists(Target) /\ Stored(TargetKey) /\ ~Recorded(TargetKey, files[Target]))
  <2>1. write /\ KeepHash(TargetKey, body)
    BY <1>3, <1>8
  <2> QED  BY <1>4, <1>8, <2>1
<1> QED  BY <1>5, <1>6, <1>7, <1>8

-----------------------------------------------------------------------------
\* What is written to a file of its own is what a run wants of it afterwards.
LEMMA RewrittenIsWanted ==
  ASSUME IInv, ListInv, todo # <<>>, Op(1) \in {"template", "merged", "conventions"}, version' = version,
         NEW text, Rewritten(text), NEW file, file = Target
  PROVE  text = (Wanted(file))' /\ Unmarked(text) /\ file \in DOMAIN files' /\ files'[file] = text
<1>1. /\ files' = WithFile(file, text) /\ text \in Texts
      /\ Op(1) # "merged" => text = Wanted(file)
      /\ Op(1) = "merged" =>
           \/ ~Exists(file) /\ text = <<Template("lat", version)>>
           \/ \E old \in Texts : text = Merged(old)
  BY DEF Rewritten
<1>2. DOMAIN files' = DOMAIN files \cup {file} /\ files'[file] = text
  BY <1>1, OneWritten
<1>3. (Op(1) = "merged" <=> file = ".agents/hooks.json") /\ version \in Nat
  BY TargetIs DEF IInv
<1>4. ASSUME NEW c \in Channels
      PROVE  Unmarked(<<Template(c, version)>>)
  BY DEF Unmarked, Template, Channels
<1>5. CASE Op(1) # "merged"
  <2>1. file # ".agents/hooks.json"
    BY <1>3, <1>5
  <2>2. text = <<Template(IF file \in SkillFiles THEN "fork" ELSE "lat", version)>>
    BY <1>1, <1>5, <2>1 DEF Wanted
  <2>3. (Wanted(file))' = <<Template(IF file \in SkillFiles THEN "fork" ELSE "lat", version)>>
    BY <2>1 DEF Wanted
  <2>4. Unmarked(text)
    <3>1. CASE file \in SkillFiles
      BY <1>4, <2>2, <3>1 DEF Channels
    <3>2. CASE file \notin SkillFiles
      BY <1>4, <2>2, <3>2 DEF Channels
    <3> QED  BY <3>1, <3>2
  <2> QED  BY <1>2, <2>1, <2>2, <2>3, <2>4
<1>6. CASE Op(1) = "merged"
  <2>1. /\ Keep(text, {User, Mixed}) \o <<Template("lat", version)>> = text
        /\ Unmarked(text)
    <3>1. CASE text = <<Template("lat", version)>>
      <4>1. Keep(text, {User, Mixed}) \o <<Template("lat", version)>> = <<Template("lat", version)>>
        <5>1. UsersIn(text) = 0
          BY <1>3, <3>1, TemplatesAre DEF Channels
        <5> QED  BY <1>1, <1>3, <5>1, KeepsNothing
      <4> QED  BY <1>4, <3>1, <4>1 DEF Channels
    <3>2. ASSUME NEW old \in Texts, text = Merged(old)
          PROVE  /\ Keep(text, {User, Mixed}) \o <<Template("lat", version)>> = text
                 /\ Unmarked(text)
      <4> DEFINE kept == Keep(old, {User, Mixed})
                 one == <<Template("lat", version)>>
      <4>1. text = kept \o one
        BY <3>2 DEF Merged
      <4>2. Keep(text, {User, Mixed}) = kept
        BY <1>3, <4>1, KeepTwice
      <4>3. kept \in Texts /\ \A i \in DOMAIN kept : kept[i] \in {User, Mixed}
        BY KeptAreThose
      <4>4. one \in Texts /\ Len(one) = 1 /\ one[1] = Template("lat", version)
        BY <1>3, TemplatesAre DEF Channels
      <4> HIDE DEF kept, one
      <4>5. /\ Len(kept) \in Nat /\ Len(text) = Len(kept) + 1 /\ DOMAIN kept = 1..Len(kept)
            /\ \A i \in 1..(Len(kept) + 1) : text[i] = IF i <= Len(kept) THEN kept[i] ELSE one[i - Len(kept)]
        <5>1. /\ Len(kept) \in Nat /\ Len(kept \o one) = Len(kept) + Len(one)
              /\ \A i \in 1..(Len(kept) + Len(one)) : (kept \o one)[i] = IF i <= Len(kept) THEN kept[i] ELSE one[i - Len(kept)]
          BY <4>3, <4>4, Joined
        <5> QED  BY <4>1, <4>3, <4>4, <5>1 DEF Texts
      <4>6. Unmarked(text)
        <5> SUFFICES ASSUME NEW i \in DOMAIN text
                     PROVE  text[i][1] \notin {"begin", "end"}
          BY DEF Unmarked
        <5>1. i \in 1..(Len(kept) + 1)
          BY <1>1, <4>5 DEF Texts
        <5>2. CASE i <= Len(kept)
          BY <4>3, <4>5, <5>1, <5>2 DEF User, Mixed
        <5>3. CASE ~(i <= Len(kept))
          <6>1. i - Len(kept) = 1
            BY <4>5, <5>1, <5>3
          <6>2. text[i] = Template("lat", version)
            BY <4>4, <4>5, <5>1, <5>3, <6>1
          <6> QED  BY <6>2 DEF Template
        <5> QED  BY <5>2, <5>3
      <4> QED  BY <4>1, <4>2, <4>6 DEF one
    <3> QED  BY <1>1, <1>6, <3>1, <3>2
  <2>2. file = ".agents/hooks.json" /\ file \in DOMAIN files'
    BY <1>2, <1>3, <1>6
  <2>3. (Wanted(file))' = Keep(files'[file], {User, Mixed}) \o <<Template("lat", version)>>
    BY <2>2 DEF Wanted, MergedHooks, Exists
  <2> QED  BY <1>2, <2>1, <2>2, <2>3
<1> QED  BY <1>5, <1>6

-----------------------------------------------------------------------------
\* A template file or a conventions skill, written or left, is accounted for.
LEMMA AccountOfWhole ==
  ASSUME IInv, ListInv, AccountInv, WriteTemplateFile \/ WriteForkSkill, Moves, NEW file, file = Target
  PROVE  Accounts'
<1>1. /\ todo # <<>> /\ Op(1) \in {"template", "merged", "conventions"} /\ Writers
  BY DEF WriteTemplateFile, WriteForkSkill, Op, Writers
<1>2. file \in WholePaths /\ TargetKey = HashKey(file, "lat")
  BY <1>1, TargetIs DEF TargetKey
<1>3. UNCHANGED <<version, meta>> /\ (settled' # Disturbed => settled # Disturbed)
  BY <1>1, WritersAre, WritersMove
<1>4. Accounts
  BY DEF AccountInv
<1>5. Rootless \/ Uptodate \/ (\E text : Rewritten(text)) \/ Refused
  BY WholeOutcomes, SkillOutcomes
<1>6. CASE Rootless \/ Refused
  <2>1. UNCHANGED <<files, fresh, notes>>
    BY <1>6 DEF Rootless, Refused, Leaves, notes
  <2>2. ManagedUnchanged
    BY <1>4, <2>1 DEF ManagedUnchanged, Accounts
  <2> QED  BY <1>3, <1>4, <2>1, <2>2, OtherStep
<1>7. CASE Uptodate
  <2>1. /\ file \in DOMAIN files /\ files[file] = Wanted(file)
        /\ files' = files /\ unrecorded' = unrecorded /\ doubled' = doubled /\ migrated' = migrated
        /\ KeepHash(HashKey(file, "lat"), files[file])
    BY <1>2, <1>7 DEF Uptodate, Exists, Leaves
  <2>2. files' = WithFile(file, files[file])
    BY <1>4, <2>1, SameFile DEF Accounts
  <2>3. (Wanted(file))' = Wanted(file)
    BY <1>3, <2>1, WantedStays
  <2>4. /\ Unmarked(files[file])
        /\ HashKey(file, "lat") \in unrecorded \/ Recorded(HashKey(file, "lat"), files[file]) \/ UsersIn(files[file]) # 0
    BY <1>2, <1>4, <2>1 DEF Accounts, WholeAccounted, Unmarked
  <2>5. WholeEffect(file, files[file])
    BY <1>3, <2>1, <2>2, <2>3, <2>4 DEF WholeEffect
  <2> QED  BY <1>2, <1>4, <2>5, WholeStep
<1>8. ASSUME NEW text, Rewritten(text)
      PROVE  Accounts'
  <2>1. text = (Wanted(file))' /\ Unmarked(text)
    BY <1>1, <1>3, <1>8, RewrittenIsWanted
  <2>2. WholeEffect(file, text)
    BY <1>2, <1>3, <1>8, <2>1 DEF WholeEffect, Rewritten
  <2> QED  BY <1>2, <1>4, <2>2, WholeStep
<1> QED  BY <1>5, <1>6, <1>7, <1>8

\* Hooks and MCP servers are not among the managed files.
LEMMA AccountOfEntries ==
  ASSUME IInv, ListInv, AccountInv, SyncLatHooks \/ RegisterMcpServer
  PROVE  Accounts'
<1>1. /\ todo # <<>> /\ Op(1) \in {"hooks", "mcp"} /\ Writers
      /\ UNCHANGED <<fresh, notes>>
  BY DEF SyncLatHooks, RegisterMcpServer, Doing, Op, Writers
<1>2. Path \in HookPaths \cup McpPaths
  BY <1>1, StepOfPlan DEF Typed, Writing, Op, Path
<1>3. UNCHANGED <<version, meta>> /\ (settled' # Disturbed => settled # Disturbed)
  BY <1>1, WritersAre, WritersMove
<1>4. Accounts
  BY DEF AccountInv
<1>5. files' = files \/ \E text : files' = WithFile(Path, text)
  BY DEF SyncLatHooks, RegisterMcpServer
<1>6. ManagedUnchanged
  <2>1. CASE files' = files
    BY <1>4, <2>1 DEF ManagedUnchanged, Accounts
  <2>2. ASSUME NEW text, files' = WithFile(Path, text)
        PROVE  ManagedUnchanged
    <3>1. /\ DOMAIN files' = DOMAIN files \cup {Path}
          /\ \A q \in DOMAIN files \ {Path} : files'[q] = files[q]
          /\ files' = [q \in DOMAIN files' |-> files'[q]]
      BY <2>2, OneWritten
    <3>2. Path \notin SharedPaths \cup WholePaths
      BY <1>2, KindsOfFiles
    <3> QED  BY <3>1, <3>2 DEF ManagedUnchanged
  <2> QED  BY <1>5, <2>1, <2>2
<1> QED  BY <1>1, <1>3, <1>4, <1>6, OtherStep

-----------------------------------------------------------------------------
\* No question is open after a step.
LEMMA PromptsGone ==
  ASSUME prompt' = NotAsked, answer' # "asked"
  PROVE  Prompts'
BY DEF Prompts, PromptIsOfFile, AskedNow, AskedDiffers

\* A question stays open while its file keeps its templates.
LEMMA PromptsKept ==
  ASSUME Prompts, UNCHANGED <<todo, prompt, version>>, answer' # "asked",
         prompt # NotAsked => \A c \in Channels : TemplatesIn(files'[Path], c) = TemplatesIn(files[Path], c)
  PROVE  Prompts'
<1>1. Path' = Path /\ Channel' = Channel /\ (Op(1))' = Op(1)
  BY DEF Path, Channel, Op
<1>2. PromptIsOfFile'
  BY <1>1 DEF Prompts, PromptIsOfFile
<1>3. AskedNow'
  BY DEF AskedNow
<1>4. (TemplateOf(Path))' = TemplateOf(Path)
  BY <1>1 DEF TemplateOf
<1>5. AskedDiffers'
  <2>1. (Merged(prompt[1]))' = Merged(prompt[1])
    BY DEF Merged
  <2> QED  BY <1>1, <1>4, <2>1 DEF Prompts, AskedDiffers
<1> QED  BY <1>2, <1>3, <1>5 DEF Prompts

\* What is asked about differs from what the step would write.
LEMMA PromptsAsked ==
  ASSUME IInv, ListInv, Writers, Asks
  PROVE  Prompts'
<1>1. Path' = Path /\ Channel' = Channel /\ (Op(1))' = Op(1) /\ (TemplateOf(Path))' = TemplateOf(Path)
      /\ version' = version
  <2>1. version' = version
    BY WritersAre
  <2> QED  BY <2>1 DEF Asks, Path, Channel, Op, TemplateOf
<1>2. PromptIsOfFile' /\ AskedNow'
  BY <1>1 DEF PromptIsOfFile, AskedNow, Asks, NotAsked
<1>3. prompt = NotAsked /\ prompt'[1] = files[Path] /\ answer' = "asked" /\ files' = files
  BY DEF Asks
<1>4. Text = files[Path]
  BY <1>3 DEF Text
<1>5. CASE AppendTemplateSection
  <2>1. Op(1) = "section" /\ Channel = "lat" /\ Section(Text, "lat") # <<Template("lat", version)>>
    BY <1>3, <1>5 DEF AppendTemplateSection, Put, UpToDate, Op, Channel
  <2>2. AskedDiffers'
    BY <1>1, <1>3, <1>4, <2>1 DEF AskedDiffers
  <2> QED  BY <1>2, <2>2 DEF Prompts
<1>6. CASE WriteForkBlock
  <2>1. Op(1) = "block" /\ Channel = "fork" /\ Section(Text, "fork") # <<Template("fork", version)>>
    BY <1>3, <1>6 DEF WriteForkBlock, Put, UpToDate, Op, Channel
  <2>2. AskedDiffers'
    BY <1>1, <1>3, <1>4, <2>1 DEF AskedDiffers
  <2> QED  BY <1>2, <2>2 DEF Prompts
<1>7. CASE WriteTemplateFile
  <2> DEFINE body == IF todo[1].op = "merged" /\ prompt = NotAsked THEN MergedHooks(Path)
                     ELSE IF todo[1].op = "merged"
                     THEN Keep(prompt[1], {User, Mixed}) \o <<Template("lat", version)>>
                     ELSE TemplateOf(Path)
  <2>1. Op(1) \in {"template", "merged"} /\ Exists(Path) /\ Text # body
    BY <1>3, <1>7 DEF WriteTemplateFile, Put, UpToDate, Op
  <2>2. Op(1) = "template" => body = TemplateOf(Path)
    BY DEF Op
  <2>3. Op(1) = "merged" => body = Merged(Text)
    BY <1>3, <1>4, <2>1 DEF Op, MergedHooks, Merged
  <2> HIDE DEF body
  <2>4. (Merged(prompt[1]))' = Merged(Text)
    BY <1>1, <1>3, <1>4 DEF Merged
  <2>5. AskedDiffers'
    BY <1>1, <1>3, <1>4, <2>1, <2>2, <2>3, <2>4 DEF AskedDiffers
  <2> QED  BY <1>2, <2>5 DEF Prompts
<1>8. CASE WriteForkSkill \/ SyncLatHooks \/ RegisterMcpServer
  BY <1>3, <1>8 DEF WriteForkSkill, SyncLatHooks, RegisterMcpServer, UpToDate
<1> QED  BY <1>5, <1>6, <1>7, <1>8 DEF Writers

\* Every step of a writer keeps the account.
LEMMA AccountOfWriters ==
  ASSUME IInv, ListInv, AccountInv, Writers
  PROVE  AccountInv'
<1>1. CASE Asks
  <2>1. UNCHANGED <<version, meta, fresh, notes, files, settled>>
    BY <1>1, WritersAre DEF Asks
  <2>2. ManagedUnchanged /\ Accounts
    BY <2>1 DEF ManagedUnchanged, AccountInv, Accounts
  <2>3. Accounts'
    BY <2>1, <2>2, OtherStep
  <2> QED  BY <1>1, <2>3, PromptsAsked DEF AccountInv
<1>2. CASE Moves
  <2>1. Prompts'
    BY <1>2, PromptsGone DEF Moves
  <2>2. Accounts'
    BY <1>2, AccountOfShared, AccountOfWhole, AccountOfEntries DEF Writers
  <2> QED  BY <2>1, <2>2 DEF AccountInv
<1> QED  BY <1>1, <1>2, WritersMove

-----------------------------------------------------------------------------
\* With no hash in hand, the account is of what is stored.
LEMMA EmptyHanded ==
  ASSUME Accounts, files' = files, fresh' = << >>, version' \in 1..Versions, UNCHANGED <<doubled, migrated>>,
         RecordedArePristine(meta.hashes)',
         \A h, text : /\ Recorded(h, text) \/ h \in unrecorded
                      /\ h \in DOMAIN fresh => fresh[h] = text
                      => (Recorded(h, text))' \/ h \in unrecorded'
  PROVE  Accounts'
<1>1. DOMAIN fresh' = {}
  OBVIOUS
<1>2. RecordedArePristine(fresh)' /\ FreshIsCurrent'
  BY <1>1 DEF RecordedArePristine, FreshIsCurrent
<1>3. OneOfAChannel' /\ files' = [p \in DOMAIN files' |-> files'[p]]
  BY DEF Accounts, OneOfAChannel
<1>4. SharedAccounted'
  <2> SUFFICES ASSUME NEW p \in (SharedPaths \cap DOMAIN files) \ doubled, NEW c \in Channels, NEW t \in TemplatesIn(files[p], c)
               PROVE  (Recorded(HashKey(p, c), <<t>>))' \/ HashKey(p, c) \in unrecorded'
    BY <1>1 DEF SharedAccounted
  <2>1. /\ Recorded(HashKey(p, c), <<t>>) \/ HashKey(p, c) \in unrecorded
        /\ HashKey(p, c) \in DOMAIN fresh => fresh[HashKey(p, c)] = <<t>>
    BY DEF Accounts, SharedAccounted
  <2> QED  BY <2>1
<1>5. WholeAccounted'
  <2> SUFFICES ASSUME NEW p \in WholePaths \cap DOMAIN files
               PROVE  /\ \A i \in DOMAIN files[p] : files[p][i][1] \notin {"begin", "end"}
                      /\ UsersIn(files[p]) = 0 =>
                           (Recorded(HashKey(p, "lat"), files[p]))' \/ HashKey(p, "lat") \in unrecorded'
    BY <1>1 DEF WholeAccounted
  <2>1. /\ \A i \in DOMAIN files[p] : files[p][i][1] \notin {"begin", "end"}
        /\ UsersIn(files[p]) = 0 =>
             /\ Recorded(HashKey(p, "lat"), files[p]) \/ HashKey(p, "lat") \in unrecorded
             /\ HashKey(p, "lat") \in DOMAIN fresh => fresh[HashKey(p, "lat")] = files[p]
    BY DEF Accounts, WholeAccounted
  <2> QED  BY <2>1
<1> QED  BY <1>2, <1>3, <1>4, <1>5 DEF Accounts

\* The steps of a run that write nothing, and those that end it.
LEMMA AccountOfOthers ==
  ASSUME IInv, ListInv, AccountInv,
         \/ StartRun \/ CreateTree \/ WriteForkScaffold \/ SetupEmbeddings \/ ChooseAgents \/ OfferRequireMode
         \/ EnsureGitignored \/ Cut \/ WriteInitMeta
  PROVE  AccountInv'
<1>1. Accounts /\ Prompts
  BY DEF AccountInv
<1>2. files' = files /\ version' = version /\ UNCHANGED <<migrated, doubled>>
  BY DEF StartRun, CreateTree, WriteForkScaffold, SetupEmbeddings, ChooseAgents, OfferRequireMode, EnsureGitignored, Cut, Ends,
         WriteInitMeta, project, notes
<1>3. version' \in 1..Versions
  BY <1>1, <1>2 DEF Accounts
<1>4. Prompts'
  <2>1. CASE Cut \/ StartRun \/ ChooseAgents \/ EnsureGitignored \/ WriteInitMeta
    <3>1. answer' = "none" /\ (Cut \/ prompt' = prompt)
      BY <2>1 DEF Cut, Ends, StartRun, ChooseAgents, EnsureGitignored, WriteInitMeta
    <3>2. Cut \/ prompt = NotAsked
      BY <2>1, NothingAsked DEF StartRun, ChooseAgents, EnsureGitignored, WriteInitMeta, Idle, Doing
    <3>3. prompt' = NotAsked
      BY <3>1, <3>2 DEF Cut, Ends
    <3> QED  BY <3>1, <3>3, PromptsGone
  <2>2. CASE CreateTree \/ WriteForkScaffold \/ SetupEmbeddings \/ OfferRequireMode
    <3>1. prompt = NotAsked
      BY <2>2, NothingAsked DEF CreateTree, WriteForkScaffold, SetupEmbeddings, OfferRequireMode, Doing
    <3>2. prompt' = NotAsked /\ answer' = answer
      BY <2>2, <3>1 DEF CreateTree, WriteForkScaffold, SetupEmbeddings, OfferRequireMode
    <3>3. answer # "asked"
      BY <1>1, <3>1 DEF Prompts, AskedNow
    <3> QED  BY <3>2, <3>3, PromptsGone
  <2> QED  BY <2>1, <2>2
<1>5. Accounts'
  <2>1. CASE CreateTree \/ WriteForkScaffold \/ SetupEmbeddings \/ OfferRequireMode \/ EnsureGitignored
    <3>1. UNCHANGED <<version, meta, fresh, notes, settled>>
      BY <2>1 DEF CreateTree, WriteForkScaffold, SetupEmbeddings, OfferRequireMode, EnsureGitignored, project, notes
    <3>2. ManagedUnchanged
      BY <1>1, <1>2 DEF ManagedUnchanged, Accounts
    <3> QED  BY <1>1, <3>1, <3>2, OtherStep
  <2>2. CASE StartRun \/ ChooseAgents \/ Cut
    <3>1. fresh' = << >> /\ UNCHANGED <<meta, notes>>
      <4>1. StartRun \/ ChooseAgents => fresh = << >> /\ fresh' = fresh
        BY ListNext DEF StartRun, ChooseAgents, Idle, Op
      <4> QED  BY <2>2, <4>1 DEF StartRun, ChooseAgents, Cut, Ends, project, notes
    <3>2. RecordedArePristine(meta.hashes)'
      BY <1>1, <3>1 DEF Accounts
    <3>3. \A h, text : (Recorded(h, text) \/ h \in unrecorded) => (Recorded(h, text))' \/ h \in unrecorded'
      BY <3>1 DEF Recorded, Stored, notes
    <3> QED  BY <1>1, <1>2, <1>3, <3>1, <3>2, <3>3, EmptyHanded
  <2>3. CASE WriteInitMeta
    <3>1. fresh' = << >> /\ meta'.hashes = Override(meta.hashes, fresh) /\ unrecorded' = unrecorded \ DOMAIN fresh
      BY <2>3 DEF WriteInitMeta
    <3>2. meta'.hashes = [x \in DOMAIN meta.hashes \cup DOMAIN fresh |-> IF x \in DOMAIN fresh THEN fresh[x] ELSE meta.hashes[x]]
      BY <3>1 DEF Override
    <3>3. RecordedArePristine(meta.hashes)'
      BY <1>1, <3>2 DEF Accounts, RecordedArePristine
    <3>4. ASSUME NEW h, NEW text, Recorded(h, text) \/ h \in unrecorded, h \in DOMAIN fresh => fresh[h] = text
          PROVE  (Recorded(h, text))' \/ h \in unrecorded'
      BY <3>1, <3>2, <3>4 DEF Recorded, Stored
    <3> QED  BY <1>1, <1>2, <1>3, <3>1, <3>3, <3>4, EmptyHanded
  <2> QED  BY <2>1, <2>2, <2>3
<1> QED  BY <1>4, <1>5 DEF AccountInv

\* A run that is killed in a write: the emptied file holds no template to account for.
LEMMA AccountOfTruncation ==
  ASSUME IInv, ListInv, AccountInv, CutWhileWriting
  PROVE  AccountInv'
<1>1. Accounts /\ Prompts'
  <2>1. prompt' = NotAsked /\ answer' # "asked"
    BY DEF CutWhileWriting, Ends
  <2> QED  BY <2>1, PromptsGone DEF AccountInv
<1>2. /\ fresh' = << >> /\ DOMAIN fresh' = {} /\ UNCHANGED <<version, meta, migrated, doubled>>
  BY DEF CutWhileWriting, Ends
<1>3. /\ version' \in 1..Versions /\ RecordedArePristine(meta.hashes)'
      /\ RecordedArePristine(fresh)' /\ FreshIsCurrent'
  BY <1>1, <1>2 DEF Accounts, RecordedArePristine, FreshIsCurrent
<1>4. CASE UNCHANGED <<files, unrecorded>>
  <2>1. \A h, text : (Recorded(h, text) \/ h \in unrecorded) => (Recorded(h, text))' \/ h \in unrecorded'
    BY <1>2, <1>4 DEF Recorded, Stored
  <2>2. Accounts'
    BY <1>1, <1>2, <1>3, <1>4, <2>1, EmptyHanded
  <2> QED  BY <1>1, <2>2 DEF AccountInv
<1>5. ASSUME NEW p, NEW h, p \in WholePaths => h = HashKey(p, "lat"), files' = WithFile(p, <<>>),
             unrecorded' = unrecorded \cup {h}
      PROVE  AccountInv'
  <2>1. /\ DOMAIN files' = DOMAIN files \cup {p} /\ files'[p] = <<>>
        /\ \A q \in DOMAIN files \ {p} : files'[q] = files[q]
        /\ files' = [q \in DOMAIN files' |-> files'[q]]
    BY <1>5, OneWritten
  <2>2. DOMAIN <<>> = {} /\ ~TwoOfAChannel(<<>>) /\ \A c \in Channels : TemplatesIn(<<>>, c) = {}
    BY DEF TwoOfAChannel, TemplatesIn
  <2>3. OneOfAChannel'
    BY <1>1, <1>2, <2>1, <2>2 DEF Accounts, OneOfAChannel
  <2>4. SharedAccounted'
    <3> SUFFICES ASSUME NEW q \in (SharedPaths \cap DOMAIN files') \ doubled, NEW c \in Channels,
                        NEW t \in TemplatesIn(files'[q], c)
                 PROVE  (Recorded(HashKey(q, c), <<t>>))' \/ HashKey(q, c) \in unrecorded'
      BY <1>2 DEF SharedAccounted
    <3>1. q \in DOMAIN files /\ files'[q] = files[q]
      BY <2>1, <2>2
    <3>2. Recorded(HashKey(q, c), <<t>>) \/ HashKey(q, c) \in unrecorded
      BY <1>1, <3>1 DEF Accounts, SharedAccounted
    <3> QED  BY <1>2, <1>5, <3>2 DEF Recorded, Stored
  <2>5. WholeAccounted'
    <3> SUFFICES ASSUME NEW q \in WholePaths \cap DOMAIN files'
                 PROVE  /\ \A i \in DOMAIN files'[q] : files'[q][i][1] \notin {"begin", "end"}
                        /\ UsersIn(files'[q]) = 0 =>
                             (Recorded(HashKey(q, "lat"), files[q]))' \/ HashKey(q, "lat") \in unrecorded'
      BY <1>2 DEF WholeAccounted
    <3>1. CASE q = p
      BY <1>5, <2>1, <2>2, <3>1
    <3>2. CASE q # p
      <4>1. q \in DOMAIN files /\ files'[q] = files[q]
        BY <2>1, <3>2
      <4>2. /\ \A i \in DOMAIN files[q] : files[q][i][1] \notin {"begin", "end"}
            /\ UsersIn(files[q]) = 0 =>
                 Recorded(HashKey(q, "lat"), files[q]) \/ HashKey(q, "lat") \in unrecorded
        BY <1>1, <4>1 DEF Accounts, WholeAccounted
      <4> QED  BY <1>2, <1>5, <4>1, <4>2 DEF Recorded, Stored
    <3> QED  BY <3>1, <3>2
  <2> QED  BY <1>1, <1>3, <2>1, <2>3, <2>4, <2>5 DEF AccountInv, Accounts
<1>6. ASSUME BlockIsDue
      PROVE  Path \notin WholePaths
  <2>1. Op(1) = "block" /\ 1 \in DOMAIN todo
    BY <1>6, ListNext DEF BlockIsDue, Op, CutWhileWriting, Ends, Idle
  <2>2. Path \in SharedPaths
    BY <2>1 DEF ListInv, Typed, Op, Path
  <2> QED  BY <2>2, KindsOfFiles
<1> QED  BY <1>4, <1>5, <1>6 DEF CutWhileWriting, Truncates

-----------------------------------------------------------------------------
\* What the user edits keeps its templates, and is the user's from then on.
LEMMA AccountOfEdit ==
  ASSUME IInv, AccountInv, EditFile
  PROVE  AccountInv'
<1>1. PICK file \in DOMAIN files, new \in Texts :
        /\ files' = [files EXCEPT ![file] = new]
        /\ \A c \in Channels : TemplatesIn(new, c) = TemplatesIn(files[file], c)
        /\ TwoOfAChannel(new) => TwoOfAChannel(files[file])
        /\ file \notin HookPaths /\ Unmarked(files[file]) => Unmarked(new) /\ UsersIn(new) # 0
  BY EditedFile
<1>2. /\ UNCHANGED <<version, meta, fresh, todo, prompt, unrecorded, migrated, doubled>>
      /\ settled' = Disturbed /\ answer' = "none"
  BY DEF EditFile, Event, run, notes
<1>3. Accounts /\ Prompts
  BY DEF AccountInv
<1>4. /\ DOMAIN files' = DOMAIN files /\ files'[file] = new
      /\ \A q \in DOMAIN files \ {file} : files'[q] = files[q]
      /\ files' = [q \in DOMAIN files' |-> files'[q]]
  BY <1>1
<1>5. \A q \in DOMAIN files : /\ \A c \in Channels : TemplatesIn(files'[q], c) = TemplatesIn(files[q], c)
                              /\ TwoOfAChannel(files'[q]) => TwoOfAChannel(files[q])
  <2> SUFFICES ASSUME NEW q \in DOMAIN files
               PROVE  /\ \A c \in Channels : TemplatesIn(files'[q], c) = TemplatesIn(files[q], c)
                      /\ TwoOfAChannel(files'[q]) => TwoOfAChannel(files[q])
    OBVIOUS
  <2>1. CASE q = file
    BY <1>1, <1>4, <2>1
  <2>2. CASE q # file
    BY <1>4, <2>2
  <2> QED  BY <2>1, <2>2
<1>6. RecordedArePristine(meta.hashes)' /\ RecordedArePristine(fresh)' /\ version' \in 1..Versions
  BY <1>2, <1>3 DEF Accounts
<1>7. OneOfAChannel'
  BY <1>2, <1>3, <1>4, <1>5 DEF Accounts, OneOfAChannel
<1>8. SharedAccounted'
  BY <1>2, <1>3, <1>4, <1>5 DEF Accounts, SharedAccounted, Recorded, Stored
<1>9. WholeAccounted'
  <2> SUFFICES ASSUME NEW q \in WholePaths \cap DOMAIN files'
               PROVE  /\ \A i \in DOMAIN files'[q] : files'[q][i][1] \notin {"begin", "end"}
                      /\ UsersIn(files'[q]) = 0 =>
                           /\ Recorded(HashKey(q, "lat"), files'[q]) \/ HashKey(q, "lat") \in unrecorded
                           /\ HashKey(q, "lat") \in DOMAIN fresh => fresh[HashKey(q, "lat")] = files'[q]
    BY <1>2 DEF WholeAccounted, Recorded, Stored
  <2>1. /\ \A i \in DOMAIN files[q] : files[q][i][1] \notin {"begin", "end"}
        /\ UsersIn(files[q]) = 0 =>
             /\ Recorded(HashKey(q, "lat"), files[q]) \/ HashKey(q, "lat") \in unrecorded
             /\ HashKey(q, "lat") \in DOMAIN fresh => fresh[HashKey(q, "lat")] = files[q]
    BY <1>3, <1>4 DEF Accounts, WholeAccounted
  <2>2. CASE q = file
    <3>1. Unmarked(new) /\ UsersIn(new) # 0
      BY <1>1, <2>1, <2>2, KindsOfFiles DEF Unmarked
    <3> QED  BY <1>4, <2>2, <3>1 DEF Unmarked
  <2>3. CASE q # file
    BY <1>4, <2>1, <2>3
  <2> QED  BY <2>2, <2>3
<1>10. FreshIsCurrent'
  BY <1>2, <1>3 DEF Accounts, FreshIsCurrent
<1>11. prompt # NotAsked => Path \in DOMAIN files
  BY DEF IInv, AskedAbout
<1>12. Prompts'
  BY <1>2, <1>3, <1>5, <1>11, PromptsKept
<1> QED  BY <1>4, <1>6, <1>7, <1>8, <1>9, <1>10, <1>12 DEF AccountInv, Accounts

\* The user's other doings, and nothing at all.
LEMMA AccountOfEvents ==
  ASSUME IInv, ListInv, AccountInv, Upgrade \/ ChangeGit \/ WipeCache \/ SetGate \/ ChangeKey \/ Reindex \/ UNCHANGED vars
  PROVE  AccountInv'
<1>1. Accounts /\ Prompts
  BY DEF AccountInv
<1>2. CASE Upgrade \/ ChangeGit \/ WipeCache
  <2>1. /\ files' = files /\ todo = <<>> /\ todo' = todo /\ prompt' = prompt /\ fresh' = fresh
        /\ UNCHANGED <<migrated, doubled>> /\ answer' = "none"
    BY <1>2 DEF Upgrade, ChangeGit, WipeCache, Event, Idle, run, notes
  <2>2. prompt = NotAsked /\ fresh = << >>
    BY <2>1, NothingAsked, ListNext
  <2>3. Prompts'
    BY <2>1, <2>2, PromptsGone
  <2>4. version' \in 1..Versions
    <3>1. version \in 1..Versions /\ Versions \in Nat
      BY <1>1, BoundsAssumption DEF Accounts
    <3>2. version' = version \/ (version < Versions /\ version' = version + 1)
      BY <1>2 DEF Upgrade, ChangeGit, WipeCache
    <3> QED  BY <3>1, <3>2
  <2>5. RecordedArePristine(meta.hashes)'
    <3>1. CASE Upgrade \/ ChangeGit
      BY <1>1, <3>1 DEF Upgrade, ChangeGit, Accounts
    <3>2. CASE WipeCache
      <4>1. meta'.hashes = << >> /\ DOMAIN meta'.hashes = {}
        BY <3>2 DEF WipeCache
      <4> QED  BY <4>1 DEF RecordedArePristine
    <3> QED  BY <1>2, <3>1, <3>2
  <2>6. \A h, text : (Recorded(h, text) \/ h \in unrecorded) => (Recorded(h, text))' \/ h \in unrecorded'
    <3>1. CASE Upgrade \/ ChangeGit
      BY <3>1 DEF Upgrade, ChangeGit, Recorded, Stored, notes
    <3>2. CASE WipeCache
      BY <3>2 DEF WipeCache, Recorded, Stored
    <3> QED  BY <1>2, <3>1, <3>2
  <2>7. Accounts'
    BY <1>1, <2>1, <2>2, <2>4, <2>5, <2>6, EmptyHanded
  <2> QED  BY <2>3, <2>7 DEF AccountInv
<1>3. CASE SetGate \/ ChangeKey \/ Reindex \/ UNCHANGED vars
  <2>1. UNCHANGED <<version, meta, fresh, notes, files, settled, todo, prompt>> /\ answer' \in {"none", answer}
    BY <1>3 DEF SetGate, ChangeKey, Reindex, Event, run, project, vars, history, notes
  <2>2. ManagedUnchanged
    BY <1>1, <2>1 DEF ManagedUnchanged, Accounts
  <2>3. Accounts'
    BY <1>1, <2>1, <2>2, OtherStep
  <2>4. Prompts'
    <3>1. CASE answer' # "asked"
      BY <1>1, <2>1, <3>1, PromptsKept
    <3>2. CASE UNCHANGED vars
      <4>1. UNCHANGED <<answer, prompt, files, todo, version>>
        BY <3>2 DEF vars, history, project, run
      <4>2. Path' = Path /\ Channel' = Channel /\ (Op(1))' = Op(1) /\ (TemplateOf(Path))' = TemplateOf(Path)
        BY <4>1 DEF Path, Channel, Op, TemplateOf
      <4>3. (Merged(prompt[1]))' = Merged(prompt[1])
        BY <4>1 DEF Merged
      <4> QED  BY <1>1, <4>1, <4>2, <4>3 DEF Prompts, PromptIsOfFile, AskedNow, AskedDiffers
    <3>3. CASE answer' = "asked" /\ (SetGate \/ ChangeKey \/ Reindex)
      BY <3>3 DEF SetGate, ChangeKey, Reindex, Event
    <3> QED  BY <1>3, <3>1, <3>2, <3>3
  <2> QED  BY <2>3, <2>4 DEF AccountInv
<1> QED  BY <1>2, <1>3

\* The account stays true.
LEMMA AccountStays ==
  ASSUME IInv, ListInv, AccountInv, [Next]_vars
  PROVE  AccountInv'
<1>1. CASE Writers
  BY <1>1, AccountOfWriters
<1>2. CASE \/ StartRun \/ CreateTree \/ WriteForkScaffold \/ SetupEmbeddings \/ ChooseAgents \/ OfferRequireMode
           \/ EnsureGitignored \/ Cut \/ WriteInitMeta
  BY <1>2, AccountOfOthers
<1>3. CASE EditFile
  BY <1>3, AccountOfEdit
<1>4. CASE Upgrade \/ ChangeGit \/ WipeCache \/ SetGate \/ ChangeKey \/ Reindex \/ UNCHANGED vars
  BY <1>4, AccountOfEvents
<1>5. CASE CutWhileWriting
  BY <1>5, AccountOfTruncation
<1> QED  BY <1>1, <1>2, <1>3, <1>4, <1>5 DEF Next, Writers

-----------------------------------------------------------------------------
\* The two sections of a shared file, as a complete run of version 0 left it.
BothSections == Wrap(<<Template("lat", 0)>>, "lat") \o Wrap(<<Template("fork", 0)>>, "fork")

\* The two sections of version 0 are the only templates, one for each channel.
LEMMA BothAre ==
  /\ \A c \in Channels : \A t \in TemplatesIn(BothSections, c) : t = Template(c, 0)
  /\ ~TwoOfAChannel(BothSections)
<1> DEFINE upper == Wrap(<<Template("lat", 0)>>, "lat")
           lower == Wrap(<<Template("fork", 0)>>, "fork")
           both == upper \o lower
<1>1. /\ upper \in Texts /\ Len(upper) = 3 /\ upper[1] = Begin("lat") /\ upper[2] = Template("lat", 0) /\ upper[3] = End("lat")
      /\ lower \in Texts /\ Len(lower) = 3 /\ lower[1] = Begin("fork") /\ lower[2] = Template("fork", 0) /\ lower[3] = End("fork")
  BY WrapIs, 0 \in Nat DEF Channels
<1> HIDE DEF upper, lower
<1>2. /\ both \in Texts /\ Len(both) = Len(upper) + Len(lower)
      /\ \A i \in 1..(Len(upper) + Len(lower)) : both[i] = IF i <= Len(upper) THEN upper[i] ELSE lower[i - Len(upper)]
  BY <1>1, Joined
<1>3. DOMAIN both = 1..6
  BY <1>1, <1>2 DEF Texts
<1>4. /\ both[1] = Begin("lat") /\ both[2] = Template("lat", 0) /\ both[3] = End("lat")
      /\ both[4] = Begin("fork") /\ both[5] = Template("fork", 0) /\ both[6] = End("fork")
  BY <1>1, <1>2
<1> HIDE DEF both
<1>5. \A i \in DOMAIN both : both[i][1] \in Channels => (i = 2 /\ both[i][1] = "lat") \/ (i = 5 /\ both[i][1] = "fork")
  BY <1>3, <1>4 DEF Begin, End, Template, Channels
<1>6. both = BothSections
  BY DEF both, upper, lower, BothSections
<1>7. ~TwoOfAChannel(both)
  BY <1>5 DEF TwoOfAChannel, Channels
<1>8. ASSUME NEW c \in Channels, NEW t \in TemplatesIn(both, c)
      PROVE  t = Template(c, 0)
  <2>1. PICK i \in DOMAIN both : t = both[i] /\ both[i][1] = c
    BY <1>8 DEF TemplatesIn
  <2>2. (i = 2 /\ c = "lat") \/ (i = 5 /\ c = "fork")
    BY <1>5, <2>1
  <2> QED  BY <1>4, <2>1, <2>2
<1> QED  BY <1>6, <1>7, <1>8

\* What a complete run left, file by file.
LEMMA SetUpIs ==
  ASSUME NEW sel \in SUBSET DOMAIN Setup, NEW texts, texts = SetUp(sel).files, NEW hashes, hashes = SetUp(sel).hashes
  PROVE  /\ \A p \in SharedPaths \cap DOMAIN texts :
              /\ texts[p] = BothSections
              /\ \A c \in Channels : HashKey(p, c) \in DOMAIN hashes /\ hashes[HashKey(p, c)] = <<Template(c, 0)>>
         /\ \A p \in SharedPaths, c \in Channels : HashKey(p, c) \in DOMAIN hashes => hashes[HashKey(p, c)] = <<Template(c, 0)>>
         /\ \A p \in WholePaths \cap DOMAIN texts :
              /\ texts[p] \in {<<Template("lat", 0)>>, <<Template("fork", 0)>>}
              /\ HashKey(p, "lat") \in DOMAIN hashes /\ hashes[HashKey(p, "lat")] = texts[p]
         /\ texts = [p \in DOMAIN texts |-> texts[p]]
<1> DEFINE plan == AgentPlan(sel, {})
           steps == {plan[i] : i \in DOMAIN plan}
           Left(op) == {step.path : step \in {s \in steps : s.op = op}}
           shared == Left("section")
           forks == {SkillFile(skill) : skill \in Left("conventions")}
           own == UNION {Left(op) : op \in {"template", "merged", "hooks", "mcp"}}
           mine == <<Template("lat", 0)>>
           theirs == <<Template("fork", 0)>>
           alone == Override(Each(own, mine), Each(forks, theirs))
           made == Override(alone, Each(shared, BothSections))
           whole == [h \in {HashKey(p, "lat") : p \in DOMAIN made \ shared} |-> made[h[1]]]
           sections == Each({HashKey(p, "lat") : p \in shared}, mine)
           blocks == Each({HashKey(p, "fork") : p \in shared}, theirs)
<1>1. texts = made /\ hashes = Override(Override(whole, sections), blocks)
  BY DEF SetUp, BothSections
<1>2. shared \subseteq SharedPaths /\ own \cap SharedPaths = {} /\ forks \cap SharedPaths = {}
  <2>1. \A s \in steps : Typed(s) /\ s \in Steps
    <3>1. \A s \in Rng(plan) : Typed(s)
      BY PlanIsTyped
    <3>2. plan \in Seq(Steps)
      BY AgentPlanIsSteps
    <3> HIDE DEF plan
    <3> QED  BY <3>1, <3>2 DEF Rng
  <2> HIDE DEF steps
  <2>2. shared \subseteq SharedPaths
    BY <2>1 DEF Typed
  <2>3. ASSUME NEW s \in steps, s.op \in {"template", "merged", "hooks", "mcp"}
        PROVE  s.path \notin SharedPaths
    BY <2>1, <2>3, KindsOfFiles DEF Typed, Steps, SharedPaths
  <2>4. ASSUME NEW s \in steps, s.op = "conventions"
        PROVE  SkillFile(s.path) \notin SharedPaths
    <3>1. s.path \in SkillRoots
      BY <2>1, <2>4 DEF Steps
    <3> QED  BY <3>1, KindsOfFiles DEF SkillFiles
  <2> QED  BY <2>2, <2>3, <2>4
<1> HIDE DEF shared, own, forks, mine, theirs
<1>3. DOMAIN alone = own \cup forks /\ \A p \in DOMAIN alone : alone[p] \in {mine, theirs}
  BY DEF Override, Each
<1> HIDE DEF alone
<1>4. /\ DOMAIN made = own \cup forks \cup shared /\ made = [p \in DOMAIN made |-> made[p]]
      /\ \A p \in DOMAIN made : IF p \in shared THEN made[p] = BothSections ELSE made[p] \in {mine, theirs}
  BY <1>3 DEF Override, Each
<1> HIDE DEF made
<1>5. /\ \A p \in DOMAIN made \ shared : HashKey(p, "lat") \in DOMAIN whole /\ whole[HashKey(p, "lat")] = made[p]
      /\ \A h \in DOMAIN whole : \E p \in DOMAIN made \ shared : h = HashKey(p, "lat")
  BY DEF HashKey
<1>6. /\ \A p : (HashKey(p, "lat") \in DOMAIN sections <=> p \in shared) /\ HashKey(p, "fork") \notin DOMAIN sections
      /\ \A p \in shared : sections[HashKey(p, "lat")] = mine
  BY KeysDiffer DEF Each, HashKey
<1>7. /\ \A p : (HashKey(p, "fork") \in DOMAIN blocks <=> p \in shared) /\ HashKey(p, "lat") \notin DOMAIN blocks
      /\ \A p \in shared : blocks[HashKey(p, "fork")] = theirs
  BY KeysDiffer DEF Each, HashKey
<1> HIDE DEF whole, sections, blocks
<1>8. /\ DOMAIN hashes = DOMAIN whole \cup DOMAIN sections \cup DOMAIN blocks
      /\ \A h \in DOMAIN blocks : hashes[h] = blocks[h]
      /\ \A h \in DOMAIN sections \ DOMAIN blocks : hashes[h] = sections[h]
      /\ \A h \in DOMAIN whole \ (DOMAIN sections \cup DOMAIN blocks) : hashes[h] = whole[h]
  BY <1>1 DEF Override
<1>9. ASSUME NEW p \in shared, NEW c \in Channels
      PROVE  HashKey(p, c) \in DOMAIN hashes /\ hashes[HashKey(p, c)] = <<Template(c, 0)>>
  <2>1. CASE c = "lat"
    BY <1>6, <1>7, <1>8, <2>1 DEF mine
  <2>2. CASE c = "fork"
    BY <1>7, <1>8, <2>2 DEF theirs
  <2> QED  BY <2>1, <2>2 DEF Channels
<1>10. ASSUME NEW p \in SharedPaths, NEW c \in Channels, HashKey(p, c) \in DOMAIN hashes
       PROVE  p \in shared
  <2>1. CASE HashKey(p, c) \in DOMAIN whole
    <3>1. PICK q \in DOMAIN made \ shared : HashKey(p, c) = HashKey(q, "lat")
      BY <1>5, <2>1
    <3>2. p = q
      BY <3>1 DEF HashKey
    <3> QED  BY <1>2, <1>4, <3>1, <3>2
  <2>2. CASE HashKey(p, c) \in DOMAIN sections \cup DOMAIN blocks
    BY <1>6, <1>7, <2>2 DEF Channels
  <2> QED  BY <1>8, <1>10, <2>1, <2>2
<1>11. ASSUME NEW p \in WholePaths \cap DOMAIN made
       PROVE  /\ made[p] \in {mine, theirs}
              /\ HashKey(p, "lat") \in DOMAIN hashes /\ hashes[HashKey(p, "lat")] = made[p]
  <2>1. p \notin shared
    BY <1>2, KindsOfFiles
  <2>2. HashKey(p, "lat") \in DOMAIN whole \ (DOMAIN sections \cup DOMAIN blocks)
    BY <1>5, <1>6, <1>7, <2>1
  <2> QED  BY <1>4, <1>5, <1>8, <2>1, <2>2
<1>12. SharedPaths \cap DOMAIN made \subseteq shared
  BY <1>2, <1>4
<1> QED  BY <1>1, <1>4, <1>9, <1>10, <1>11, <1>12 DEF mine, theirs

\* A template alone in a text.
LEMMA OneTemplate ==
  ASSUME NEW c \in Channels, NEW v
  PROVE  /\ \A d \in Channels : \A t \in TemplatesIn(<<Template(c, v)>>, d) : d = c /\ t = Template(c, v)
         /\ ~TwoOfAChannel(<<Template(c, v)>>) /\ Unmarked(<<Template(c, v)>>)
<1> DEFINE piece == Template(c, v)
           text == <<piece>>
<1>1. piece[1] = c /\ c \notin {"begin", "end"}
  BY PiecesNamed DEF Channels
<1> HIDE DEF piece
<1>2. DOMAIN text = {1} /\ text[1] = piece
  OBVIOUS
<1> HIDE DEF text
<1>3. \A d \in Channels : \A t \in TemplatesIn(text, d) : d = c /\ t = piece
  BY <1>1, <1>2 DEF TemplatesIn
<1>4. ~TwoOfAChannel(text) /\ Unmarked(text)
  BY <1>1, <1>2 DEF TwoOfAChannel, Unmarked
<1> QED  BY <1>3, <1>4 DEF text, piece

\* The account of a project at first: nothing is there, or what a run recorded.
LEMMA AccountAtFirst == Init => AccountInv
<1> SUFFICES ASSUME Init PROVE AccountInv
  OBVIOUS
<1>1. /\ version = 1 /\ fresh = << >> /\ prompt = NotAsked /\ answer = "none"
      /\ unrecorded = {} /\ migrated = {} /\ doubled = {}
  BY DEF Init
<1>2. Prompts
  BY <1>1 DEF Prompts, PromptIsOfFile, AskedNow, AskedDiffers
<1>3. DOMAIN fresh = {}
  BY <1>1
<1>4. version \in 1..Versions /\ RecordedArePristine(fresh) /\ FreshIsCurrent
  <2>1. Versions \in Nat \ {0}
    BY BoundsAssumption
  <2> QED  BY <1>1, <1>3, <2>1 DEF RecordedArePristine, FreshIsCurrent
<1>5. ASSUME files = [p \in DOMAIN files |-> files[p]],
             \A p \in SharedPaths, c \in Channels : HashKey(p, c) \in DOMAIN meta.hashes => meta.hashes[HashKey(p, c)] = <<Template(c, 0)>>,
             \A p \in SharedPaths \cap DOMAIN files :
               /\ ~TwoOfAChannel(files[p])
               /\ \A c \in Channels : \A t \in TemplatesIn(files[p], c) : Recorded(HashKey(p, c), <<t>>),
             \A p \in WholePaths \cap DOMAIN files : Unmarked(files[p]) /\ Recorded(HashKey(p, "lat"), files[p])
      PROVE  AccountInv
  <2>1. RecordedArePristine(meta.hashes)
    <3>1. 0 \in 0..Versions
      BY BoundsAssumption
    <3> QED  BY <1>5, <3>1 DEF RecordedArePristine, Pristine
  <2>2. OneOfAChannel /\ SharedAccounted
    BY <1>3, <1>5 DEF OneOfAChannel, SharedAccounted
  <2>3. WholeAccounted
    BY <1>3, <1>5 DEF WholeAccounted, Unmarked
  <2> QED  BY <1>2, <1>4, <1>5, <2>1, <2>2, <2>3 DEF AccountInv, Accounts
<1>6. CASE files = << >> /\ meta = [version |-> 0, hashes |-> << >>]
  <2>1. DOMAIN files = {} /\ DOMAIN meta.hashes = {} /\ files = [p \in DOMAIN files |-> files[p]]
    BY <1>6
  <2> QED  BY <1>5, <2>1
<1>7. ASSUME NEW sel \in Selections, files = SetUp(sel).files, meta = [version |-> 0, hashes |-> SetUp(sel).hashes]
      PROVE  AccountInv
  <2>1. sel \in SUBSET DOMAIN Setup
    BY Selected
  <2>2. meta.hashes = SetUp(sel).hashes
    BY <1>7
  <2>3. /\ \A p \in SharedPaths \cap DOMAIN files :
              /\ files[p] = BothSections
              /\ \A c \in Channels : HashKey(p, c) \in DOMAIN meta.hashes /\ meta.hashes[HashKey(p, c)] = <<Template(c, 0)>>
        /\ \A p \in SharedPaths, c \in Channels : HashKey(p, c) \in DOMAIN meta.hashes => meta.hashes[HashKey(p, c)] = <<Template(c, 0)>>
        /\ \A p \in WholePaths \cap DOMAIN files :
              /\ files[p] \in {<<Template("lat", 0)>>, <<Template("fork", 0)>>}
              /\ HashKey(p, "lat") \in DOMAIN meta.hashes /\ meta.hashes[HashKey(p, "lat")] = files[p]
        /\ files = [p \in DOMAIN files |-> files[p]]
    BY <1>7, <2>1, <2>2, SetUpIs
  <2>4. Unmarked(<<Template("lat", 0)>>) /\ Unmarked(<<Template("fork", 0)>>)
    BY OneTemplate DEF Channels
  <2>5. ASSUME NEW p \in SharedPaths \cap DOMAIN files
        PROVE  /\ ~TwoOfAChannel(files[p])
               /\ \A c \in Channels : \A t \in TemplatesIn(files[p], c) : Recorded(HashKey(p, c), <<t>>)
    BY <2>3, BothAre DEF Recorded, Stored
  <2>6. ASSUME NEW p \in WholePaths \cap DOMAIN files
        PROVE  Unmarked(files[p]) /\ Recorded(HashKey(p, "lat"), files[p])
    BY <2>3, <2>4 DEF Recorded, Stored
  <2> QED  BY <1>5, <2>3, <2>5, <2>6
<1>8. CASE /\ files = Each({"AGENTS.md"}, <<Template("lat", 0)>>)
           /\ meta = [version |-> 0, hashes |-> Each({HashKey("AGENTS.md", "lat")}, files["AGENTS.md"])]
  <2> DEFINE one == <<Template("lat", 0)>>
  <2>1. /\ ~TwoOfAChannel(one)
        /\ \A d \in Channels : \A t \in TemplatesIn(one, d) : d = "lat" /\ <<t>> = one
    BY OneTemplate DEF Channels
  <2>2. one = <<Template("lat", 0)>>
    OBVIOUS
  <2> HIDE DEF one
  <2>3. /\ DOMAIN files = {"AGENTS.md"} /\ files["AGENTS.md"] = one /\ files = [p \in DOMAIN files |-> files[p]]
        /\ DOMAIN meta.hashes = {HashKey("AGENTS.md", "lat")} /\ meta.hashes[HashKey("AGENTS.md", "lat")] = one
    BY <1>8 DEF Each, one
  <2>4. "AGENTS.md" \notin WholePaths
    BY KindsOfFiles DEF SharedPaths
  <2>5. ASSUME NEW p \in SharedPaths, NEW c \in Channels, HashKey(p, c) \in DOMAIN meta.hashes
        PROVE  meta.hashes[HashKey(p, c)] = <<Template(c, 0)>>
    <3>1. c = "lat"
      BY <2>3, <2>5, KeysDiffer DEF Channels
    <3> QED  BY <2>2, <2>3, <2>5, <3>1
  <2>6. ASSUME NEW p \in SharedPaths \cap DOMAIN files
        PROVE  /\ ~TwoOfAChannel(files[p])
               /\ \A c \in Channels : \A t \in TemplatesIn(files[p], c) : Recorded(HashKey(p, c), <<t>>)
    BY <2>1, <2>3 DEF Recorded, Stored
  <2>7. WholePaths \cap DOMAIN files = {}
    BY <2>3, <2>4
  <2> QED  BY <1>5, <2>3, <2>5, <2>6, <2>7
<1> QED  BY <1>6, <1>7, <1>8 DEF Init

-----------------------------------------------------------------------------
\* What is accounted for is not asked about.
LEMMA AccountAnswers ==
  ASSUME IInv, ListInv, AccountInv
  PROVE  PristineIsNotAskedAbout
<1> SUFFICES ASSUME answer = "asked"
             PROVE  LET text == files[Path] IN
                      \/ HashKey(Path, Channel) \in unrecorded \/ Path \in doubled
                      \/ IF todo[1].op \in {"section", "block"}
                         THEN ~Pristine(Section(text, Channel), Channel)
                         ELSE ~Pristine(text, "lat") /\ ~Pristine(text, "fork")
  BY DEF PristineIsNotAskedAbout
<1>1. prompt # NotAsked /\ prompt[1] = files[Path] /\ Accounts
  BY DEF AccountInv, Prompts, AskedNow
<1>2. AskedAbout
  BY <1>1 DEF IInv
<1>3. todo # <<>> /\ Op(1) \in {"section", "block", "template", "merged"} /\ Path \in DOMAIN files
  BY <1>2 DEF AskedAbout, Op
<1>4. CASE Op(1) \in {"section", "block"}
  <2>1. /\ Path \in SharedPaths /\ Channel \in Channels /\ files[Path] \in Texts /\ HasSection(files[Path], Channel)
        /\ ~Recorded(HashKey(Path, Channel), Section(files[Path], Channel))
    BY <1>1, <1>3, <1>4, SharedIs DEF OwnKey
  <2>2. ASSUME NEW v \in 0..Versions, Section(files[Path], Channel) = <<Template(Channel, v)>>
        PROVE  HashKey(Path, Channel) \in unrecorded \/ Path \in doubled
    <3>1. Template(Channel, v) \in TemplatesIn(files[Path], Channel)
      BY <2>1, <2>2, SectionTemplate
    <3> QED  BY <1>1, <1>3, <2>1, <2>2, <3>1 DEF Accounts, SharedAccounted
  <2> QED  BY <1>4, <2>2 DEF Pristine, Op
<1>5. CASE Op(1) \in {"template", "merged"}
  <2>1. Path \in WholePaths /\ ~Recorded(HashKey(Path, "lat"), files[Path])
    BY <1>1, <1>3, <1>5, TargetIs DEF Target, TargetKey
  <2>2. ASSUME NEW c \in Channels, Pristine(files[Path], c)
        PROVE  HashKey(Path, "lat") \in unrecorded
    <3>1. PICK v \in 0..Versions : files[Path] = <<Template(c, v)>>
      BY <2>2 DEF Pristine
    <3>2. v \in Nat
      BY BoundsAssumption
    <3>3. UsersIn(files[Path]) = 0
      BY <3>1, <3>2, TemplatesAre
    <3> QED  BY <1>1, <1>3, <2>1, <3>3 DEF Accounts, WholeAccounted
  <2>3. HashKey(Path, Channel) = HashKey(Path, "lat")
    BY <1>5 DEF Channel, Op
  <2> QED  BY <1>5, <2>2, <2>3 DEF Op, Channels
<1> QED  BY <1>3, <1>4, <1>5

-----------------------------------------------------------------------------
(***************************************************************************)
(* A step that is done stays so while its file and its hash do.            *)
(***************************************************************************)
FileOf(s) == IF s.op = "conventions" THEN SkillFile(s.path) ELSE s.path

\* What needs no entry in .gitignore any more stays so.
IgnoresMore == ignored \subseteq ignored' /\ git' = git

\* All that a step may have changed is of this file.
FilesAgree(p) ==
  /\ \A q \in DOMAIN files : q # p => q \in DOMAIN files' /\ files'[q] = files[q]
  /\ version' = version /\ IgnoresMore
  /\ \A q : q # p /\ q \in migrated => q \in migrated'
  /\ doubled \subseteq doubled'

\* These hashes and those say the same, of a text and of a file.
Agree(h, hashes, loose, more, looser) ==
  /\ h \in DOMAIN more <=> h \in DOMAIN hashes
  /\ h \in DOMAIN hashes => more[h] = hashes[h]
  /\ h \in loose => h \in looser
SameAt(q, hashes, loose, more, looser) ==
  \A c \in Channels : Agree(HashKey(q, c), hashes, loose, more, looser)

\* A section stays as it is left while its text does.
LEMMA SectionSame ==
  ASSUME NEW text, NEW c \in Channels, NEW v, NEW hashes, NEW loose, NEW more, NEW looser, NEW q,
         NEW twice \in BOOLEAN, NEW again \in BOOLEAN, twice => again,
         SameAt(q, hashes, loose, more, looser),
         SectionLeft(text, c, v, hashes, HashKey(q, c), loose, twice)
  PROVE  SectionLeft(text, c, v, more, HashKey(q, c), looser, again)
BY DEF SectionLeft, SameAt, Agree, Knows

\* A step is done as before when what changes is another file, and hashes of others.
LEMMA DoneElsewhere ==
  ASSUME NEW s, NEW p, NEW hashes, NEW loose, NEW more, NEW looser,
         s.op \in Writing => FileOf(s) # p,
         SameAt(FileOf(s), hashes, loose, more, looser), FilesAgree(p), Done(s, hashes, loose)
  PROVE  (Done(s, more, looser))'
<1> DEFINE q == FileOf(s)
<1>1. /\ \A x \in DOMAIN files : x # p => x \in DOMAIN files' /\ files'[x] = files[x]
      /\ version' = version /\ IgnoresMore
      /\ \A x : x # p /\ x \in migrated => x \in migrated'
      /\ doubled \subseteq doubled'
  BY DEF FilesAgree
<1>2. SameAt(q, hashes, loose, more, looser) /\ (s.op \in Writing => q # p)
  OBVIOUS
<1>3. s.op # "conventions" => q = s.path
  BY DEF FileOf
<1>4. s.op = "conventions" => q = SkillFile(s.path)
  BY DEF FileOf
<1> HIDE DEF q
<1>5. ASSUME NEW c \in Channels, s.op \in {"section", "block"}, SectionDone(q, c, hashes, loose)
      PROVE  (SectionDone(q, c, more, looser))'
  <2>1. q # p
    BY <1>2, <1>5 DEF Writing
  <2>2. q \in DOMAIN files /\ q \in DOMAIN files' /\ files'[q] = files[q]
    BY <1>1, <1>5, <2>1 DEF SectionDone
  <2>3. CASE c = "lat" /\ q \in migrated
    BY <1>1, <2>1, <2>2, <2>3 DEF SectionDone
  <2>4. CASE SectionLeft(files[q], c, version, hashes, HashKey(q, c), loose, q \in doubled)
    <3>1. SectionLeft(files[q], c, version, more, HashKey(q, c), looser, q \in doubled')
      <4>1. (q \in doubled) \in BOOLEAN /\ (q \in doubled') \in BOOLEAN /\ (q \in doubled => q \in doubled')
        BY <1>1
      <4> QED  BY <1>2, <2>4, <4>1, SectionSame
    <3> QED  BY <1>1, <2>2, <3>1 DEF SectionDone
  <2> QED  BY <1>5, <2>3, <2>4 DEF SectionDone
<1>6. s.op \in Writing /\ q \in DOMAIN files => q \in DOMAIN files' /\ files'[q] = files[q] /\ (Wanted(q))' = Wanted(q)
  BY <1>1, <1>2, WantedStays
<1>7. /\ HashKey(q, "lat") \in DOMAIN more <=> HashKey(q, "lat") \in DOMAIN hashes
      /\ HashKey(q, "lat") \in DOMAIN hashes => more[HashKey(q, "lat")] = hashes[HashKey(q, "lat")]
      /\ HashKey(q, "lat") \in loose => HashKey(q, "lat") \in looser
  BY <1>2 DEF SameAt, Agree, Channels
<1>8. CASE s.op = "section"
  BY <1>3, <1>5, <1>8 DEF Done, Channels
<1>9. CASE s.op = "block"
  BY <1>3, <1>5, <1>9 DEF Done, Channels
<1>10. CASE s.op \in {"template", "merged"}
  <2>1. WholeDone(q, hashes, loose) /\ s.path = q
    BY <1>3, <1>10 DEF Done
  <2>2. (WholeDone(q, more, looser))'
    BY <1>6, <1>7, <1>10, <2>1 DEF WholeDone, WholeLeft, Knows, Writing
  <2> QED  BY <1>10, <2>1, <2>2 DEF Done
<1>11. CASE s.op = "conventions"
  <2>1. q \in DOMAIN files /\ SkillLeft(files[q], Wanted(q), hashes, HashKey(q, "lat")) /\ SkillFile(s.path) = q
    BY <1>4, <1>11 DEF Done
  <2>2. q \in DOMAIN files' /\ SkillLeft(files'[q], (Wanted(q))', more, HashKey(q, "lat"))
    BY <1>6, <1>7, <1>11, <2>1 DEF SkillLeft, Knows, Writing
  <2> QED  BY <1>11, <2>1, <2>2 DEF Done
<1>12. CASE s.op = "hooks"
  BY <1>1, <1>3, <1>6, <1>12 DEF Done, Writing
<1>13. CASE s.op = "mcp"
  BY <1>3, <1>6, <1>13 DEF Done, Writing
<1>14. CASE s.op \notin Writing
  BY <1>1, <1>14 DEF Done, Writing, IgnoreIsDone, IgnoresMore
<1> QED  BY <1>8, <1>9, <1>10, <1>11, <1>12, <1>13, <1>14 DEF Writing

\* The hashes in hand after a step.
LEMMA DoneNext ==
  ASSUME NEW s, NEW hashes, NEW loose, hashes = Known', loose = Loose', (Done(s, hashes, loose))'
  PROVE  (Done(s, Known, Loose))'
BY DEF Done, SectionDone, WholeDone

\* What is done of the steps stays so when nothing of the files or hashes changes.
LEMMA DoneSame ==
  ASSUME NEW s, NEW hashes, NEW loose, UNCHANGED <<files, version, migrated, doubled>>, IgnoresMore,
         Done(s, hashes, loose)
  PROVE  (Done(s, hashes, loose))'
<1>1. \A q \in DOMAIN files : (Wanted(q))' = Wanted(q)
  BY WantedStays
<1> QED  BY <1>1 DEF Done, SectionDone, WholeDone, IgnoreIsDone, IgnoresMore

-----------------------------------------------------------------------------
\* The agents' own step for a shared file makes its section, for a skill its file.
LEMMA MainFile ==
  ASSUME NEW sel \in SUBSET DOMAIN Setup, NEW s \in MainSteps(sel)
  PROVE  /\ s.path \in SharedPaths => s.op = "section"
         /\ s.path \in SkillRoots \cup SkillFiles => s.op = "template"
<1> DEFINE Fits(list) ==
      \A i \in DOMAIN list : /\ list[i].path \in SharedPaths => list[i].op = "section"
                             /\ list[i].path \in SkillRoots \cup SkillFiles => list[i].op = "template"
<1>1. Fits(SetupClaudeCode)
  BY DEF SetupClaudeCode, Skill, Step, SharedPaths, SkillRoots, SkillFiles, SkillFile
<1>2. Fits(SetupPi)
  BY DEF SetupPi, Skill, Step, SharedPaths, SkillRoots, SkillFiles, SkillFile
<1>3. Fits(SetupCursor)
  BY DEF SetupCursor, Skill, Step, SharedPaths, SkillRoots, SkillFiles, SkillFile
<1>4. Fits(SetupCopilot)
  BY DEF SetupCopilot, Skill, Step, SharedPaths, SkillRoots, SkillFiles, SkillFile
<1>5. Fits(SetupOpenCode)
  BY DEF SetupOpenCode, Skill, Step, SharedPaths, SkillRoots, SkillFiles, SkillFile
<1>6. Fits(SetupCodex)
  BY DEF SetupCodex, Skill, Step, SharedPaths, SkillRoots, SkillFiles, SkillFile
<1>7. Fits(SetupAntigravity)
  BY DEF SetupAntigravity, Skill, Step, SharedPaths, SkillRoots, SkillFiles, SkillFile
<1> HIDE DEF Fits
<1>8. \A agent \in sel : Fits(Setup[agent])
  BY <1>1, <1>2, <1>3, <1>4, <1>5, <1>6, <1>7 DEF Setup
<1>9. CASE s = Step("section", "AGENTS.md")
  BY <1>9 DEF Step, SkillRoots, SkillFiles, SkillFile
<1>10. ASSUME NEW agent \in sel, s \in Rng(Setup[agent])
       PROVE  /\ s.path \in SharedPaths => s.op = "section"
              /\ s.path \in SkillRoots \cup SkillFiles => s.op = "template"
  BY <1>8, <1>10 DEF Rng, Fits
<1> QED  BY <1>9, <1>10 DEF MainSteps

\* Where the fork's turn has come, what the agents' own steps make is there.
LEMMA MainIsThere ==
  ASSUME IInv, ListInv, RunInv, todo # <<>>, Op(1) \in {"block", "conventions"}, settled # Disturbed,
         NEW s \in MainSteps(selected), s.path \in SharedPaths \cup SkillRoots \cup SkillFiles
  PROVE  s.path \in DOMAIN files
<1>1. selected # {} /\ selected \in SUBSET DOMAIN Setup
  BY StepOfPlan DEF Writing
<1>2. s.op \in {"section", "template"}
  BY <1>1, MainFile
<1>3. s \in Plan(selected)
  BY <1>1, PlanIs DEF Plan
<1>4. s \notin Rng(todo)
  <2> SUFFICES ASSUME NEW j \in DOMAIN todo, todo[j] = s
               PROVE  FALSE
    BY DEF Rng
  <2>1. 1 \in DOMAIN todo /\ DOMAIN todo = 1..Len(todo) /\ Len(todo) \in Nat
    BY ListNext
  <2>2. Op(j) \in {"section", "template"}
    BY <1>2 DEF Op
  <2>3. j # 1
    BY <2>2
  <2>4. 1 < j
    BY <2>1, <2>3
  <2> QED  BY <2>1, <2>2, <2>4 DEF ListInv
<1>5. Done(s, Known, Loose)
  BY <1>1, <1>3, <1>4 DEF RunInv
<1> QED  BY <1>2, <1>5 DEF Done, SectionDone, WholeDone

\* So the fork's own steps have a file to work on.
LEMMA ForksHaveFiles ==
  ASSUME IInv, ListInv, RunInv, todo # <<>>, settled # Disturbed
  PROVE  ~Absent /\ ~Rootless
<1>1. ASSUME Op(1) \in {"block", "conventions"}
      PROVE  /\ selected \in SUBSET DOMAIN Setup /\ todo[1] \in ForkedSteps(selected, DOMAIN files)
             /\ \A p \in There(selected, DOMAIN files) :
                  p \in SharedPaths \cup SkillRoots \cup SkillFiles => p \in DOMAIN files
  <2>1. selected \in SUBSET DOMAIN Setup /\ todo[1] \in Plan(selected)
    BY <1>1, StepOfPlan DEF Writing
  <2>2. \/ todo[1] \in MainSteps(selected) \/ todo[1] \in ForkedSteps(selected, DOMAIN files)
        \/ todo[1] = Step("meta", "")
    BY <2>1, PlanIs DEF Plan
  <2>3. todo[1] \in ForkedSteps(selected, DOMAIN files)
    <3>1. todo[1] \in MainSteps(selected) => Op(1) \in MainOps
      BY <2>1, MainIsTyped DEF Op
    <3>2. todo[1] = Step("meta", "") => Op(1) = "meta"
      <4>1. Step("meta", "").op = "meta"
        BY DEF Step
      <4> QED  BY <4>1 DEF Op
    <3> QED  BY <1>1, <2>2, <3>1, <3>2 DEF MainOps
  <2> QED  BY <1>1, <2>1, <2>3, MainIsThere DEF There
<1>2. Op(1) = "block" => Path \in SharedPaths \cap There(selected, DOMAIN files)
  BY <1>1, ForkedIsTyped DEF Op, Path
<1>3. Op(1) = "conventions" => Path \in Roots(There(selected, DOMAIN files))
  BY <1>1, ForkedIsTyped DEF Op, Path
<1>4. ~Absent
  BY <1>1, <1>2 DEF Absent, Exists
<1>5. ~Rootless
  BY <1>1, <1>3 DEF Rootless, RootExists, Exists, Roots, SkillFiles
<1> QED  BY <1>4, <1>5

-----------------------------------------------------------------------------
\* The hashes a run will have stored.
LEMMA KnownIs ==
  /\ DOMAIN Known = DOMAIN meta.hashes \cup DOMAIN fresh
  /\ \A h \in DOMAIN fresh : Known[h] = fresh[h]
  /\ \A h \in DOMAIN meta.hashes \ DOMAIN fresh : Known[h] = meta.hashes[h]
BY DEF Known, Override

\* The hashes a run will have stored, after a step.
LEMMA KnownAfter ==
  /\ DOMAIN Known' = DOMAIN meta'.hashes \cup DOMAIN fresh'
  /\ \A h \in DOMAIN fresh' : Known'[h] = fresh'[h]
  /\ \A h \in DOMAIN meta'.hashes \ DOMAIN fresh' : Known'[h] = meta'.hashes[h]
BY DEF Known, Override

\* A template alone has no markers.
LEMMA NoMarkers ==
  ASSUME NEW c \in Channels, NEW d \in Channels, NEW v \in Nat
  PROVE  ~HasSection(<<Template(c, v)>>, d) /\ ~EndFirst(<<Template(c, v)>>, d)
<1> DEFINE piece == Template(c, v)
           text == <<piece>>
<1>1. text \in Texts
  BY TemplatesAre
<1>2. piece # Begin(d) /\ piece # End(d)
  BY PiecesNamed
<1> HIDE DEF piece
<1>3. Len(text) = 1 /\ text[1] = piece
  OBVIOUS
<1> HIDE DEF text
<1>4. ASSUME NEW m, m # piece
      PROVE  At(text, m) = 0
  <2>1. At(text, m) \in 0..Len(text) /\ (At(text, m) > 0 => text[At(text, m)] = m)
    BY <1>1, FirstPlace
  <2> QED  BY <1>3, <1>4, <2>1
<1>5. At(text, Begin(d)) = 0 /\ At(text, End(d)) = 0
  BY <1>2, <1>4
<1> QED  BY <1>5 DEF HasSection, EndFirst, text, piece

\* What a step on a shared file reads is the file, unless the user edits behind the question.
LEMMA ReplacesTheFile ==
  ASSUME ListInv, NEW text, Replacing(text), settled # Disturbed
  PROVE  text = files[Path]
BY DEF Replacing, ListInv

\* The text a shared step leaves, and the hash it has in hand.
LEMMA SharedIsDone ==
  ASSUME IInv, ListInv, AccountInv, RunInv, AppendTemplateSection \/ WriteForkBlock, Moves, settled' # Disturbed,
         NEW p, p = Path, NEW c, c = Channel, NEW hashes, hashes = Known', NEW loose, loose = Loose'
  PROVE  (SectionDone(p, c, hashes, loose))'
<1> DEFINE t == Template(c, version)
           h == HashKey(p, c)
<1>1. /\ todo # <<>> /\ Op(1) \in {"section", "block"} /\ Writers
  BY DEF AppendTemplateSection, WriteForkBlock, Op, Writers
<1>2. /\ p \in SharedPaths /\ c \in Channels /\ (c = "fork" <=> Op(1) = "block") /\ (c = "lat" <=> Op(1) = "section")
      /\ p \in DOMAIN files => files[p] \in Texts
      /\ OwnKey = h /\ Own = <<t>>
      /\ prompt # NotAsked => p \in DOMAIN files /\ Text = prompt[1]
  BY <1>1, SharedIs DEF OwnKey, Own, Channels
<1>3. UNCHANGED <<version, meta>> /\ settled # Disturbed /\ version \in Nat
  BY <1>1, WritersAre, WritersMove DEF IInv
<1>4. Accounts
  BY DEF AccountInv
<1>5. \/ Created \/ Current \/ (\E text : Replacing(text)) \/ Kept \/ Marked \/ Appended
  BY <1>1, <1>3, ForksHaveFiles, SectionOutcomes, BlockOutcomes
<1> HIDE DEF t, h
<1>6. ASSUME NEW text, p \in DOMAIN files', files'[p] = text,
             \/ c = "lat" /\ p \in migrated'
             \/ EndFirst(text, c)
             \/ /\ HasSection(text, c)
                /\ \/ Section(text, c) = <<t>>
                   \/ /\ ~Knows(hashes, h, Section(text, c))
                      /\ c = "fork" => h \in DOMAIN hashes
                      /\ Pristine(Section(text, c), c) => p \in doubled' \/ h \in loose
      PROVE  (SectionDone(p, c, hashes, loose))'
  BY <1>3, <1>6 DEF SectionDone, SectionLeft, t, h
<1>7. ASSUME NEW text, Writes(text, OwnKey) \/ (p \in DOMAIN files /\ text = files[p] /\ files' = files)
      PROVE  p \in DOMAIN files' /\ files'[p] = text
  BY <1>7, OneWritten DEF Writes
<1>8. CASE Created
  <2> DEFINE new == Wrap(<<t>>, c)
  <2>1. HasSection(new, c) /\ Section(new, c) = <<t>>
    BY <1>2, <1>3, WrapIsCurrent DEF t
  <2>2. Writes(new, OwnKey)
    BY <1>2, <1>8 DEF Created
  <2> HIDE DEF new
  <2> QED  BY <1>6, <1>7, <2>1, <2>2
<1>9. CASE Current
  <2>1. p \in DOMAIN files /\ files' = files /\ HasSection(files[p], c) /\ Section(files[p], c) = <<t>>
    BY <1>2, <1>9 DEF Current, Exists, Leaves
  <2> QED  BY <1>6, <2>1
<1>10. ASSUME NEW text, Replacing(text)
       PROVE  (SectionDone(p, c, hashes, loose))'
  <2> DEFINE new == Spliced(text, <<t>>, c)
  <2>1. text \in Texts /\ HasSection(text, c) /\ Writes(new, OwnKey)
    BY <1>2, <1>10 DEF Replacing
  <2>2. HasSection(new, c) /\ Section(new, c) = <<t>>
    BY <1>2, <1>3, <2>1, SplicedIsCurrent DEF t
  <2> HIDE DEF new
  <2> QED  BY <1>6, <1>7, <2>1, <2>2
<1>11. CASE Kept
  <2> DEFINE body == Section(files[p], c)
  <2>1. /\ p \in DOMAIN files /\ prompt # NotAsked
        /\ UNCHANGED <<files, unrecorded, doubled, fresh, migrated>>
    BY <1>2, <1>11 DEF Kept, Leaves, Exists
  <2>2. prompt = <<files[p]>> /\ prompt[1] = files[p]
    BY <1>3, <2>1 DEF ListInv
  <2>3. /\ HasSection(files[p], c) /\ ~Recorded(h, body) /\ (c = "fork" => Stored(h))
    BY <1>1, <1>2, <2>1, <2>2, SharedIs
  <2>4. body # <<t>>
    BY <1>1, <1>2, <2>1, <2>2 DEF AccountInv, Prompts, AskedDiffers, t
  <2> HIDE DEF body
  <2>5. h \in DOMAIN fresh => fresh[h] = <<t>> \/ (c = "lat" /\ p \in migrated)
    BY <1>2, <1>4 DEF Accounts, FreshIsCurrent, t, h
  <2>6. CASE c = "lat" /\ p \in migrated
    BY <1>6, <2>1, <2>6
  <2>7. CASE ~(c = "lat" /\ p \in migrated)
    <3>1. ~Knows(hashes, h, body)
      BY <1>3, <2>1, <2>3, <2>4, <2>5, <2>7, KnownAfter DEF Knows, Recorded, Stored
    <3>2. c = "fork" => h \in DOMAIN hashes
      BY <1>3, <2>3, KnownAfter DEF Stored
    <3>3. ASSUME Pristine(body, c), p \notin doubled
          PROVE  h \in loose
      <4>1. PICK v \in 0..Versions : body = <<Template(c, v)>>
        BY <3>3 DEF Pristine
      <4>2. Template(c, v) \in TemplatesIn(files[p], c)
        BY <1>2, <2>1, <2>3, <4>1, SectionTemplate DEF body
      <4>3. /\ Recorded(h, body) \/ h \in unrecorded
            /\ h \in DOMAIN fresh => fresh[h] = body
        BY <1>2, <1>4, <2>1, <3>3, <4>1, <4>2 DEF Accounts, SharedAccounted, h
      <4> QED  BY <2>1, <2>3, <2>4, <2>5, <2>7, <4>3 DEF Loose
    <3> QED  BY <1>6, <2>1, <2>3, <3>1, <3>2, <3>3 DEF body
  <2> QED  BY <2>6, <2>7
<1>12. CASE Marked
  <2>1. c = "lat" /\ Writes(Wrap(files[p], c), OwnKey) /\ p \in migrated'
    BY <1>2, <1>12 DEF Marked
  <2> QED  BY <1>6, <1>7, <2>1
<1>13. CASE Appended
  <2> DEFINE new == Spliced(files[p], <<t>>, c)
  <2>1. /\ p \in DOMAIN files /\ ~HasSection(files[p], c)
        /\ Writes(new, OwnKey) /\ KeepHash(h, <<t>>)
    BY <1>2, <1>13 DEF Appended, Exists
  <2>2. Extended(files[p], new, c, version)
    BY <1>2, <1>3, <2>1, AppendedPlaces DEF t
  <2> HIDE DEF new
  <2>3. \/ EndFirst(new, c)
        \/ HasSection(new, c) /\ (Section(new, c) = <<t>> \/ Holds(Section(new, c), Begin(c)))
    BY <1>2, <1>3, <2>1, <2>2, OwnSectionExtended DEF t
  <2>4. h \in DOMAIN hashes /\ hashes[h] = <<t>>
    BY <2>1, OneKept, KnownAfter
  <2>5. ASSUME Holds(Section(new, c), Begin(c))
        PROVE  ~Knows(hashes, h, Section(new, c)) /\ ~Pristine(Section(new, c), c)
    BY <1>2, <2>4, <2>5, NotATemplate DEF Knows, Pristine, t
  <2> QED  BY <1>6, <1>7, <2>1, <2>3, <2>4, <2>5
<1> QED  BY <1>5, <1>8, <1>9, <1>10, <1>11, <1>12, <1>13

\* A section that a complete run left stays so when the next run comes to it.
LEMMA SharedStaysDone ==
  ASSUME IInv, ListInv, AccountInv, AppendTemplateSection \/ WriteForkBlock, Moves,
         NEW p, p = Path, NEW c, c = Channel, NEW hashes, NEW loose, NEW looser, loose \subseteq looser,
         SectionDone(p, c, hashes, loose)
  PROVE  (SectionDone(p, c, hashes, looser))'
<1> DEFINE t == Template(c, version)
<1>1. /\ todo # <<>> /\ Op(1) \in {"section", "block"} /\ Writers
  BY DEF AppendTemplateSection, WriteForkBlock, Op, Writers
<1>2. /\ p \in SharedPaths /\ c \in Channels
      /\ p \in DOMAIN files /\ files[p] \in Texts
      /\ Own = <<t>>
  BY <1>1, SharedIs DEF Own, SectionDone
<1>3. version' = version /\ version \in Nat
  BY <1>1, WritersAre DEF IInv
<1>4. \/ Absent \/ Created \/ Current \/ (\E text : Replacing(text)) \/ Kept \/ Marked \/ Appended
  BY SectionOutcomes, BlockOutcomes
<1> HIDE DEF t
<1>5. ASSUME p \in DOMAIN files',
             \/ c = "lat" /\ p \in migrated'
             \/ EndFirst(files'[p], c)
             \/ HasSection(files'[p], c) /\ Section(files'[p], c) = <<t>>
      PROVE  (SectionDone(p, c, hashes, looser))'
  BY <1>3, <1>5 DEF SectionDone, SectionLeft, t
<1>6. ASSUME NEW text, Writes(text, OwnKey)
      PROVE  p \in DOMAIN files' /\ files'[p] = text
  BY <1>6, OneWritten DEF Writes
<1>7. CASE Current \/ Kept
  <2>1. UNCHANGED <<files, doubled, migrated>>
    BY <1>7 DEF Current, Kept, Leaves
  <2> QED  BY <1>3, <2>1 DEF SectionDone, SectionLeft
<1>8. ASSUME NEW text, Replacing(text)
      PROVE  (SectionDone(p, c, hashes, looser))'
  <2> DEFINE new == Spliced(text, <<t>>, c)
  <2>1. text \in Texts /\ HasSection(text, c) /\ Writes(new, OwnKey)
    BY <1>2, <1>8 DEF Replacing
  <2>2. HasSection(new, c) /\ Section(new, c) = <<t>>
    BY <1>2, <1>3, <2>1, SplicedIsCurrent DEF t
  <2> HIDE DEF new
  <2> QED  BY <1>5, <1>6, <2>1, <2>2
<1>9. CASE Marked
  <2>1. c = "lat" /\ Writes(Wrap(files[p], c), OwnKey) /\ p \in migrated'
    BY <1>1, <1>9 DEF Marked, Channel, Op
  <2> QED  BY <1>5, <1>6, <2>1
<1>10. CASE Appended
  <2> DEFINE new == Spliced(files[p], <<t>>, c)
  <2>1. ~HasSection(files[p], c) /\ Writes(new, OwnKey) /\ migrated' = migrated
    BY <1>2, <1>10 DEF Appended
  <2>2. Extended(files[p], new, c, version)
    BY <1>2, <1>3, <2>1, AppendedPlaces DEF t
  <2> HIDE DEF new
  <2>3. EndFirst(files[p], c) => EndFirst(new, c)
    BY <1>2, <1>3, <2>1, <2>2, OwnSectionExtended
  <2>4. (c = "lat" /\ p \in migrated) \/ EndFirst(files[p], c)
    BY <2>1 DEF SectionDone, SectionLeft
  <2> QED  BY <1>5, <1>6, <2>1, <2>3, <2>4
<1>11. ~Absent /\ ~Created
  BY <1>2 DEF Absent, Created, Exists
<1> QED  BY <1>4, <1>7, <1>8, <1>9, <1>10, <1>11

-----------------------------------------------------------------------------
\* A section that takes no markers out with it holds none of the other's.
LEMMA NothingSwallowed ==
  ASSUME NEW p \in DOMAIN files, p = Path, NEW c \in Channels, c = Channel, files' # files, ~Swallows,
         files[p] \in Texts, HasSection(files[p], c), NEW d \in Channels, d # c
  PROVE  \A i \in At(files[p], Begin(c))..At(files[p], End(c)) : files[p][i] \notin {Begin(d), End(d)}
<1> DEFINE text == files[p]
           b == At(text, Begin(c))
           e == At(text, End(c))
           body == SubSeq(text, b + 1, e - 1)
<1>1. text \in Texts /\ b > 0 /\ e > b
  BY DEF HasSection
<1>2. Len(text) \in Nat /\ b \in 0..Len(text) /\ e \in 0..Len(text)
  BY <1>1, FirstPlace DEF Texts
<1>3. text[b] = Begin(c) /\ text[e] = End(c)
  BY <1>1, <1>2, FirstPlace
<1>4. body = Section(text, c)
  BY DEF Section
<1>5. ~Holds(body, Begin(d)) /\ ~Holds(body, End(d))
  <2>1. ~\E i \in DOMAIN body, k \in {"lat", "fork"} \ {c} : body[i] \in {Begin(k), End(k)}
    BY <1>4 DEF Swallows, Exists
  <2>2. d \in {"lat", "fork"} \ {c}
    BY DEF Channels
  <2> HIDE DEF body
  <2> QED  BY <2>1, <2>2 DEF Holds
<1> HIDE DEF text, b, e
<1>6. ASSUME NEW i \in (b + 1)..(e - 1)
      PROVE  text[i] \notin {Begin(d), End(d)}
  <2>1. /\ b + 1 \in Nat /\ e - 1 \in Nat /\ 1 <= b + 1 /\ b + 1 <= (e - 1) + 1 /\ e - 1 <= Len(text)
    BY <1>1, <1>2
  <2>2. Holds(body, text[i])
    BY <1>1, <2>1, PartHolds
  <2> HIDE DEF body
  <2> QED  BY <1>5, <2>2
<1>7. Begin(c) \notin {Begin(d), End(d)} /\ End(c) \notin {Begin(d), End(d)}
  BY DEF Begin, End
<1>8. \A i \in b..e : text[i] \notin {Begin(d), End(d)}
  <2> SUFFICES ASSUME NEW i \in b..e
               PROVE  text[i] \notin {Begin(d), End(d)}
    OBVIOUS
  <2>1. i = b \/ i = e \/ i \in (b + 1)..(e - 1)
    BY <1>2
  <2> QED  BY <1>3, <1>6, <1>7, <2>1
<1> QED  BY <1>8 DEF text, b, e

\* So the other's stays as it is left.
LEMMA SparedIsLeft ==
  ASSUME NEW text, NEW new, NEW c, NEW d \in Channels, Spared(text, new, c, d),
         NEW w, NEW h, NEW hashes, NEW loose, NEW more, NEW looser, Agree(h, hashes, loose, more, looser),
         h \in DOMAIN hashes => Pristine(hashes[h], d),
         NEW twice \in BOOLEAN, NEW again \in BOOLEAN, twice => again,
         SectionLeft(text, d, w, hashes, h, loose, twice)
  PROVE  SectionLeft(new, d, w, more, h, looser, again)
<1>1. /\ h \in DOMAIN more <=> h \in DOMAIN hashes
      /\ h \in DOMAIN hashes => more[h] = hashes[h]
      /\ h \in loose => h \in looser
  BY DEF Agree
<1>2. /\ EndFirst(text, d) => EndFirst(new, d)
      /\ HasSection(text, d) =>
           /\ HasSection(new, d)
           /\ \/ Section(new, d) = Section(text, d)
              \/ Holds(Section(text, d), Begin(c)) /\ Holds(Section(new, d), Begin(c))
  BY DEF Spared
<1>3. CASE EndFirst(text, d)
  BY <1>2, <1>3 DEF SectionLeft
<1>4. CASE HasSection(text, d) /\ Section(new, d) = Section(text, d)
  BY <1>1, <1>2, <1>3, <1>4 DEF SectionLeft, Knows
<1>5. CASE HasSection(text, d) /\ Holds(Section(text, d), Begin(c)) /\ Holds(Section(new, d), Begin(c))
  <2>1. \A v : Section(text, d) # <<Template(d, v)>> /\ Section(new, d) # <<Template(d, v)>>
    BY <1>5, NotATemplate
  <2>2. EndFirst(text, d) \/ ((d = "fork") => h \in DOMAIN hashes)
    BY <2>1 DEF SectionLeft
  <2>3. ~Pristine(Section(new, d), d) /\ ~Knows(more, h, Section(new, d))
    BY <1>1, <2>1 DEF Pristine, Knows
  <2> QED  BY <1>1, <1>2, <1>3, <1>5, <2>2, <2>3 DEF SectionLeft
<1> QED  BY <1>2, <1>3, <1>4, <1>5 DEF SectionLeft

\* What a step does to the section of one channel leaves that of the other.
LEMMA OtherChannelDone ==
  ASSUME IInv, ListInv, AccountInv, AppendTemplateSection \/ WriteForkBlock, Moves, settled' # Disturbed,
         NEW p, p = Path, NEW d \in Channels, d # Channel,
         NEW hashes, NEW loose, NEW more, NEW looser, Agree(HashKey(p, d), hashes, loose, more, looser),
         HashKey(p, d) \in DOMAIN hashes => Pristine(hashes[HashKey(p, d)], d),
         SectionDone(p, d, hashes, loose)
  PROVE  (SectionDone(p, d, more, looser))'
<1> DEFINE t == Template(Channel, version)
           h == HashKey(p, d)
<1>1. /\ todo # <<>> /\ Op(1) \in {"section", "block"} /\ Writers
  BY DEF AppendTemplateSection, WriteForkBlock, Op, Writers
<1>2. PICK c \in Channels : c = Channel
  BY <1>1, SharedIs
<1>3. /\ p \in DOMAIN files /\ files[p] \in Texts /\ Own = <<t>> /\ d # c
      /\ (c = "fork" <=> Op(1) = "block") /\ (c = "lat" <=> Op(1) = "section")
  BY <1>1, <1>2, SharedIs DEF Own, SectionDone, Channels
<1>4. version' = version /\ version \in Nat /\ ~Swallows /\ settled # Disturbed
  BY <1>1, WritersAre, WritersMove DEF IInv
<1>5. \/ Absent \/ Created \/ Current \/ (\E text : Replacing(text)) \/ Kept \/ Marked \/ Appended
  BY SectionOutcomes, BlockOutcomes
<1>6. doubled \subseteq doubled'
  BY <1>5 DEF Absent, Created, Current, Replacing, Kept, Marked, Appended, Leaves, Writes
<1>7. d = "lat" /\ p \in migrated => p \in migrated'
  <2>1. d = "lat" => Op(1) = "block"
    BY <1>3 DEF Channels
  <2> QED  BY <1>5, <2>1 DEF Absent, Created, Current, Replacing, Kept, Marked, Appended
<1>8. Agree(h, hashes, loose, more, looser)
  OBVIOUS
<1> HIDE DEF t, h
<1>9. ASSUME NEW new, p \in DOMAIN files', files'[p] = new, Spared(files[p], new, c, d)
      PROVE  (SectionDone(p, d, more, looser))'
  <2>1. CASE d = "lat" /\ p \in migrated
    BY <1>7, <1>9, <2>1 DEF SectionDone
  <2>2. CASE SectionLeft(files[p], d, version, hashes, h, loose, p \in doubled)
    <3> DEFINE twice == p \in doubled
               again == p \in doubled'
               text == files[p]
    <3>1. twice \in BOOLEAN /\ again \in BOOLEAN /\ (twice => again)
      BY <1>6
    <3>3. /\ SectionLeft(text, d, version, hashes, h, loose, twice) /\ Spared(text, new, c, d)
          /\ h = HashKey(p, d) /\ (h \in DOMAIN hashes => Pristine(hashes[h], d))
      BY <1>9, <2>2 DEF h
    <3> HIDE DEF twice, again, text
    <3>4. SectionLeft(new, d, version, more, h, looser, again)
      BY <1>8, <3>1, <3>3, SparedIsLeft
    <3>2. SectionLeft(new, d, version, more, h, looser, p \in doubled')
      BY <3>4 DEF again
    <3> QED  BY <1>4, <1>9, <3>2 DEF SectionDone, h
  <2> QED  BY <2>1, <2>2 DEF SectionDone, h
<1>10. ASSUME NEW text, Writes(text, OwnKey)
       PROVE  p \in DOMAIN files' /\ files'[p] = text
  BY <1>10, OneWritten DEF Writes
<1>11. CASE files' = files
  BY <1>3, <1>9, <1>11 DEF Spared
<1>12. ASSUME NEW text, Replacing(text), files' # files
       PROVE  (SectionDone(p, d, more, looser))'
  <2> DEFINE new == Spliced(text, <<t>>, c)
             b == At(text, Begin(c))
             e == At(text, End(c))
  <2>1. text = files[p] /\ HasSection(text, c) /\ Writes(new, OwnKey)
    BY <1>2, <1>3, <1>4, <1>12, ReplacesTheFile DEF Replacing
  <2>2. Replaced(text, new, b, e, c, version)
    BY <1>2, <1>3, <1>4, <2>1, SplicedPlaces DEF t
  <2>3. \A i \in b..e : text[i] \notin {Begin(d), End(d)}
    BY <1>2, <1>3, <1>4, <1>12, <2>1, NothingSwallowed
  <2> HIDE DEF new, b, e
  <2>4. Spared(text, new, c, d)
    BY <1>3, <1>4, <2>1, <2>2, <2>3, OtherSectionKept
  <2> QED  BY <1>9, <1>10, <2>1, <2>4
<1>13. CASE Marked
  <2>1. c = "lat" /\ d = "fork" /\ Recorded(HashKey(p, c), files[p]) /\ p \in SharedPaths
    BY <1>1, <1>2, <1>3, <1>13, SharedIs DEF Marked, OwnKey, Channels
  <2>2. PICK v \in 0..Versions : files[p] = <<Template(c, v)>>
    BY <2>1, RecordedIs DEF AccountInv, Channels
  <2>3. ~HasSection(files[p], d) /\ ~EndFirst(files[p], d)
    BY <2>2, NoMarkers, BoundsAssumption
  <2> QED  BY <2>1, <2>3 DEF SectionDone, SectionLeft
<1>14. CASE Appended
  <2> DEFINE new == Spliced(files[p], <<t>>, c)
  <2>1. ~HasSection(files[p], c) /\ Writes(new, OwnKey)
    BY <1>2, <1>3, <1>14 DEF Appended
  <2>2. Extended(files[p], new, c, version)
    BY <1>2, <1>3, <1>4, <2>1, AppendedPlaces DEF t
  <2> HIDE DEF new
  <2>3. Spared(files[p], new, c, d)
    BY <1>3, <1>4, <2>2, OtherSectionExtended
  <2> QED  BY <1>9, <1>10, <2>1, <2>3
<1>15. CASE Absent \/ Created \/ Current \/ Kept
  <2>1. ~Created
    BY <1>3 DEF Created, Exists
  <2> QED  BY <1>11, <1>15, <2>1 DEF Absent, Current, Kept, Leaves
<1> QED  BY <1>5, <1>11, <1>12, <1>13, <1>14, <1>15

-----------------------------------------------------------------------------
\* A step on a file of its own makes it what is wanted, or changes nothing.
LEMMA WantedOrSame ==
  ASSUME IInv, ListInv, AccountInv, WriteTemplateFile \/ WriteForkSkill, Moves, NEW file, file = Target
  PROVE  \/ file \in DOMAIN files' /\ files'[file] = (Wanted(file))'
         \/ (Rootless \/ Refused) /\ UNCHANGED <<files, fresh, unrecorded, migrated, doubled>>
<1>1. /\ todo # <<>> /\ Op(1) \in {"template", "merged", "conventions"} /\ Writers
  BY DEF WriteTemplateFile, WriteForkSkill, Op, Writers
<1>2. version' = version
  BY <1>1, WritersAre
<1>3. Rootless \/ Uptodate \/ (\E text : Rewritten(text)) \/ Refused
  BY WholeOutcomes, SkillOutcomes
<1>4. CASE Rootless \/ Refused
  BY <1>4 DEF Rootless, Refused, Leaves
<1>5. CASE Uptodate
  <2>1. file \in DOMAIN files /\ files[file] = Wanted(file) /\ files' = files
    BY <1>5 DEF Uptodate, Exists, Leaves
  <2>2. (Wanted(file))' = Wanted(file)
    BY <1>2, <2>1, WantedStays
  <2> QED  BY <2>1, <2>2
<1>6. ASSUME NEW text, Rewritten(text)
      PROVE  file \in DOMAIN files' /\ files'[file] = (Wanted(file))'
  BY <1>1, <1>2, <1>6, RewrittenIsWanted
<1> QED  BY <1>3, <1>4, <1>5, <1>6

\* A file that is as wanted is so for each step on it.
LEMMA WantedIsDone ==
  ASSUME NEW s, s.op \in {"template", "merged", "conventions"}, NEW file, file = FileOf(s),
         file \in DOMAIN files', files'[file] = (Wanted(file))', NEW hashes, NEW loose
  PROVE  (Done(s, hashes, loose))'
<1>1. CASE s.op = "conventions"
  <2>1. file = SkillFile(s.path)
    BY <1>1 DEF FileOf
  <2> QED  BY <1>1, <2>1 DEF Done, SkillLeft
<1>2. CASE s.op # "conventions"
  <2>1. file = s.path
    BY <1>2 DEF FileOf
  <2> QED  BY <1>2, <2>1 DEF Done, WholeDone, WholeLeft
<1> QED  BY <1>1, <1>2

\* A file that the user keeps is accounted for as such.
LEMMA RefusedIsDone ==
  ASSUME IInv, ListInv, AccountInv, todo # <<>>, Op(1) \in {"template", "merged", "conventions"},
         Refused, UNCHANGED <<version, meta>>, settled # Disturbed,
         NEW s, s = todo[1], NEW hashes, hashes = Known', NEW loose, loose = Loose'
  PROVE  (Done(s, hashes, loose))'
<1> DEFINE file == Target
           h == TargetKey
<1>1. /\ file \in DOMAIN files /\ UNCHANGED <<files, fresh, unrecorded>>
      /\ \/ prompt # NotAsked /\ Op(1) \in {"template", "merged"}
         \/ Op(1) = "conventions" /\ Stored(h) /\ ~Recorded(h, files[file])
  BY DEF Refused, Exists, Leaves
<1>2. /\ file \in WholePaths
      /\ prompt # NotAsked => Text = prompt[1] /\ ~Recorded(h, Text) /\ Op(1) # "conventions"
  BY TargetIs
<1>3. ~Recorded(h, files[file])
  <2>1. CASE prompt # NotAsked /\ Op(1) \in {"template", "merged"}
    <3>1. prompt = <<files[Path]>> /\ file = Path
      BY <2>1 DEF ListInv, Target
    <3>2. prompt[1] = files[file]
      BY <3>1
    <3> QED  BY <1>2, <2>1, <3>2
  <2> QED  BY <1>1, <2>1
<1>4. /\ h \in DOMAIN fresh => files[file] = Wanted(file)
      /\ UsersIn(files[file]) = 0 => Recorded(h, files[file]) \/ h \in unrecorded
  BY <1>1, <1>2 DEF AccountInv, Accounts, FreshIsCurrent, WholeAccounted, TargetKey
<1>5. /\ s.op = Op(1) /\ file = FileOf(s) /\ h = HashKey(file, "lat")
  BY DEF Op, Target, TargetKey, FileOf, Path
<1>8. PICK q : q = file
  OBVIOUS
<1> HIDE DEF file, h
<1>6. CASE h \in DOMAIN fresh
  <2>1. q \in DOMAIN files /\ q \in DOMAIN files' /\ files'[q] = files[q] /\ files[q] = Wanted(q)
    BY <1>1, <1>4, <1>6, <1>8
  <2>2. (Wanted(q))' = Wanted(q)
    BY <2>1, WantedStays
  <2>3. s.op \in {"template", "merged", "conventions"} /\ q = FileOf(s) /\ files'[q] = (Wanted(q))'
    BY <1>5, <1>8, <2>1, <2>2
  <2> QED  BY <2>1, <2>3, WantedIsDone
<1>7. CASE h \notin DOMAIN fresh
  <2>1. /\ h \in DOMAIN hashes <=> Stored(h)
        /\ Stored(h) => hashes[h] = meta.hashes[h]
        /\ h \in loose <=> h \in unrecorded
    BY <1>1, <1>7, KnownAfter DEF Loose, Stored
  <2>2. ~Knows(hashes, h, files[file])
    BY <1>3, <2>1 DEF Knows, Recorded, Stored
  <2>3. CASE s.op = "conventions"
    <3>1. q = SkillFile(s.path) /\ h \in DOMAIN hashes
      BY <1>1, <1>5, <1>8, <2>1, <2>3 DEF FileOf
    <3>2. q \in DOMAIN files' /\ ~Knows(hashes, HashKey(q, "lat"), files'[q]) /\ HashKey(q, "lat") \in DOMAIN hashes
      BY <1>1, <1>5, <1>8, <2>2, <3>1
    <3> QED  BY <2>3, <3>1, <3>2 DEF Done, SkillLeft
  <2>4. CASE s.op # "conventions"
    <3>1. q = s.path /\ s.op \in {"template", "merged"}
      BY <1>5, <1>8, <2>4 DEF FileOf
    <3>2. /\ q \in DOMAIN files' /\ ~Knows(hashes, HashKey(q, "lat"), files'[q])
          /\ UsersIn(files'[q]) > 0 \/ HashKey(q, "lat") \in loose
      <4>1. UsersIn(files[file]) = 0 \/ UsersIn(files[file]) > 0
        <5>1. files[file] \in Texts
          BY <1>1 DEF IInv, TextsAreTexts
        <5>2. UsersIn(files[file]) \in Nat
          BY <5>1, UsersAreCounted
        <5> QED  BY <5>2
      <4> QED  BY <1>1, <1>3, <1>4, <1>5, <1>8, <2>1, <2>2, <4>1
    <3>3. (WholeDone(q, hashes, loose))'
      BY <3>2 DEF WholeDone, WholeLeft
    <3> QED  BY <3>1, <3>3 DEF Done
  <2> QED  BY <2>3, <2>4
<1> QED  BY <1>6, <1>7

-----------------------------------------------------------------------------
\* Of lat's own template the user has nothing.
LEMMA KeepsNoTemplate ==
  ASSUME NEW v \in Nat, NEW pieces, pieces \subseteq {User, Mixed}
  PROVE  Keep(<<Template("lat", v)>>, pieces) = << >>
<1> DEFINE last == Template("lat", v)
           none == << >>
<1>1. last \in Pieces /\ last \notin pieces
  <2>1. last \in Pieces /\ ~IsUsers(last)
    BY PiecesAre DEF Channels
  <2> QED  BY <2>1 DEF IsUsers
<1>2. none \in Texts /\ \A i \in DOMAIN none : none[i] \in pieces
  BY DEF Texts
<1> HIDE DEF last
<1>3. none \o <<last>> = <<last>>
  OBVIOUS
<1> HIDE DEF none
<1>4. Keep(none \o <<last>>, pieces) = none
  BY <1>1, <1>2, KeepAllButLast
<1> QED  BY <1>3, <1>4 DEF last, none

\* The hooks are there once, an MCP server is registered.
LEMMA EntriesAreDone ==
  ASSUME IInv, AccountInv, SyncLatHooks \/ RegisterMcpServer, NEW s, s = todo[1], NEW hashes, NEW loose
  PROVE  (Done(s, hashes, loose))'
<1>1. s.op \in {"hooks", "mcp"} /\ version' = version /\ version \in Nat /\ Writers /\ (s.op = "hooks" <=> SyncLatHooks)
  <2>1. Writers
    BY DEF Writers
  <2>2. version' = version
    BY <2>1, WritersAre
  <2> QED  BY <2>1, <2>2 DEF SyncLatHooks, RegisterMcpServer, Doing, IInv
<1>2. PICK p : p = Path /\ p = s.path
  BY DEF Path
<1> DEFINE own == <<Template("lat", version)>>
<1>3. CASE SyncLatHooks
  <2> DEFINE kept == IF Exists(p) THEN Keep(files[p], {User}) ELSE <<>>
             new == kept \o own
  <2>1. files' = WithFile(p, new)
    BY <1>2, <1>3 DEF SyncLatHooks
  <2>2. Keep(new, {User}) = kept
    <3>1. CASE Exists(p)
      <4>1. files[p] \in Texts
        BY <3>1 DEF IInv, TextsAreTexts, Exists
      <4>2. kept = Keep(files[p], {User})
        BY <3>1
      <4> QED  BY <1>1, <4>1, <4>2, KeepTwice
    <3>2. CASE ~Exists(p)
      <4>1. kept = <<>> /\ new = own
        BY <3>2
      <4> QED  BY <1>1, <4>1, KeepsNoTemplate
    <3> QED  BY <3>1, <3>2
  <2> HIDE DEF kept
  <2>3. p \in DOMAIN files' /\ files'[p] = Keep(files'[p], {User}) \o own
    <3>1. p \in DOMAIN files' /\ files'[p] = new
      BY <2>1, OneWritten
    <3> QED  BY <2>2, <3>1
  <2>4. s.op = "hooks" /\ s.path \in DOMAIN files' /\ files'[s.path] = Keep(files'[s.path], {User}) \o <<Template("lat", version')>>
    BY <1>1, <1>2, <1>3, <2>3
  <2> QED  BY <2>4 DEF Done
<1>4. CASE RegisterMcpServer
  <2>1. version \in 0..Versions
    BY VersionIs DEF AccountInv
  <2>2. s.op = "mcp"
    BY <1>4 DEF RegisterMcpServer, Doing
  <2>3. p \in DOMAIN files' /\ \E v \in 0..Versions : Contains(files'[p], Template("lat", v))
    <3>1. CASE Exists(p) /\ \E v \in 0..Versions : Contains(files[p], Template("lat", v))
      BY <1>2, <1>4, <3>1 DEF RegisterMcpServer, Exists
    <3>2. CASE ~(Exists(p) /\ \E v \in 0..Versions : Contains(files[p], Template("lat", v)))
      <4> DEFINE old == IF Exists(p) THEN files[p] ELSE <<>>
                 new == old \o own
      <4>1. files' = WithFile(p, new)
        BY <1>2, <1>4, <3>2 DEF RegisterMcpServer
      <4>2. old \in Texts /\ own \in Texts /\ Len(own) = 1 /\ own[1] = Template("lat", version)
        <5>1. old \in Texts
          BY DEF IInv, TextsAreTexts, Texts, Exists
        <5> QED  BY <1>1, <5>1, TemplatesAre DEF Channels
      <4> HIDE DEF old, own
      <4>3. /\ Len(old) \in Nat /\ Len(old \o own) = Len(old) + Len(own)
            /\ \A i \in 1..(Len(old) + Len(own)) : (old \o own)[i] = IF i <= Len(old) THEN old[i] ELSE own[i - Len(old)]
        BY <4>2, Joined
      <4>4. Len(old) + 1 \in 1..Len(new) /\ new[Len(old) + 1] = Template("lat", version)
        <5>1. Len(old) + 1 \in 1..(Len(old) + Len(own)) /\ ~(Len(old) + 1 <= Len(old)) /\ (Len(old) + 1) - Len(old) = 1
          BY <4>2, <4>3
        <5> QED  BY <4>2, <4>3, <5>1
      <4>5. Contains(new, Template("lat", version))
        BY <4>4 DEF Contains
      <4>6. p \in DOMAIN files' /\ files'[p] = new
        BY <4>1, OneWritten
      <4> QED  BY <2>1, <4>5, <4>6
    <3> QED  BY <3>1, <3>2
  <2> QED  BY <1>2, <2>2, <2>3 DEF Done
<1> QED  BY <1>3, <1>4

-----------------------------------------------------------------------------
\* What a step works on, told by what it does.
LEMMA KindOf ==
  ASSUME NEW s \in Steps, Typed(s)
  PROVE  /\ s.op \in {"section", "block"} => FileOf(s) = s.path /\ FileOf(s) \in SharedPaths
         /\ s.op \in {"template", "merged", "conventions"} => FileOf(s) \in WholePaths
         /\ s.op = "hooks" => FileOf(s) = s.path /\ FileOf(s) \in HookPaths
         /\ s.op = "mcp" => FileOf(s) = s.path /\ FileOf(s) \in McpPaths
<1>1. s.op = "merged" => FileOf(s) \in WholePaths
  BY DEF Steps, FileOf, WholePaths
<1>2. s.op = "conventions" => FileOf(s) \in WholePaths
  BY KindsOfFiles DEF Steps, FileOf, SkillFiles
<1> QED  BY <1>1, <1>2 DEF Typed, FileOf

\* Two steps that write one file are of one kind.
LEMMA OneKind ==
  ASSUME NEW s \in Steps, Typed(s), NEW r \in Steps, Typed(r), s.op \in Writing, r.op \in Writing, FileOf(s) = FileOf(r)
  PROVE  \/ {s.op, r.op} \subseteq {"section", "block"} /\ s.path = r.path
         \/ {s.op, r.op} \subseteq {"template", "merged", "conventions"}
         \/ s.op = "hooks" /\ r.op = "hooks" /\ s.path = r.path
         \/ s.op = "mcp" /\ r.op = "mcp" /\ s.path = r.path
<1>1. /\ s.op \in {"section", "block"} => FileOf(s) = s.path /\ FileOf(s) \in SharedPaths
      /\ s.op \in {"template", "merged", "conventions"} => FileOf(s) \in WholePaths
      /\ s.op = "hooks" => FileOf(s) = s.path /\ FileOf(s) \in HookPaths
      /\ s.op = "mcp" => FileOf(s) = s.path /\ FileOf(s) \in McpPaths
  BY KindOf
<1>2. /\ r.op \in {"section", "block"} => FileOf(r) = r.path /\ FileOf(r) \in SharedPaths
      /\ r.op \in {"template", "merged", "conventions"} => FileOf(r) \in WholePaths
      /\ r.op = "hooks" => FileOf(r) = r.path /\ FileOf(r) \in HookPaths
      /\ r.op = "mcp" => FileOf(r) = r.path /\ FileOf(r) \in McpPaths
  BY KindOf
<1> DEFINE file == FileOf(s)
<1>3. file = FileOf(r)
  OBVIOUS
<1> HIDE DEF file
<1>4. CASE s.op \in {"section", "block"}
  BY <1>1, <1>2, <1>3, <1>4, KindsOfFiles DEF Writing, file
<1>5. CASE s.op \in {"template", "merged", "conventions"}
  BY <1>1, <1>2, <1>3, <1>5, KindsOfFiles DEF Writing, file
<1>6. CASE s.op = "hooks"
  BY <1>1, <1>2, <1>3, <1>6, KindsOfFiles DEF Writing, file
<1>7. CASE s.op = "mcp"
  BY <1>1, <1>2, <1>3, <1>7, KindsOfFiles DEF Writing, file
<1> QED  BY <1>4, <1>5, <1>6, <1>7 DEF Writing

\* Two steps that do the same to the same file are done together.
LEMMA DoneAlike ==
  ASSUME NEW s, NEW r, s.op = r.op, s.path = r.path, NEW hashes, NEW loose, (Done(r, hashes, loose))'
  PROVE  (Done(s, hashes, loose))'
BY DEF Done

\* A step that writes nothing is done when its path is ignored.
LEMMA DoneUnwritten ==
  ASSUME NEW s, s.op \notin Writing, NEW hashes, NEW loose, NEW more, NEW looser, IgnoresMore,
         Done(s, hashes, loose)
  PROVE  (Done(s, more, looser))'
BY DEF Done, Writing, IgnoreIsDone, IgnoresMore

\* What a step may touch: one file, and one hash of it.
Touches(p, h) ==
  /\ FilesAgree(p) /\ meta' = meta
  /\ unrecorded \subseteq unrecorded'
  /\ DOMAIN fresh \subseteq DOMAIN fresh' /\ DOMAIN fresh' \subseteq DOMAIN fresh \cup {h}
  /\ \A k \in DOMAIN fresh \ {h} : fresh'[k] = fresh[k]

\* The effect of a step, file and hashes.
LEMMA TouchesOne ==
  ASSUME NEW p, NEW h, UNCHANGED <<version, meta, ignored, git>>,
         files' = files \/ \E text : files' = WithFile(p, text),
         fresh' = fresh \/ \E text : KeepHash(h, text),
         unrecorded \subseteq unrecorded', doubled \subseteq doubled', migrated \ {p} \subseteq migrated'
  PROVE  Touches(p, h)
<1>1. \A q \in DOMAIN files : q # p => q \in DOMAIN files' /\ files'[q] = files[q]
  BY OneWritten
<1>2. /\ DOMAIN fresh \subseteq DOMAIN fresh' /\ DOMAIN fresh' \subseteq DOMAIN fresh \cup {h}
      /\ \A k \in DOMAIN fresh \ {h} : fresh'[k] = fresh[k]
  <2>1. CASE fresh' = fresh
    BY <2>1
  <2>2. ASSUME NEW text, KeepHash(h, text)
        PROVE  /\ DOMAIN fresh \subseteq DOMAIN fresh' /\ DOMAIN fresh' \subseteq DOMAIN fresh \cup {h}
               /\ \A k \in DOMAIN fresh \ {h} : fresh'[k] = fresh[k]
    BY <2>2, OneKept
  <2> QED  BY <2>1, <2>2
<1>3. FilesAgree(p)
  BY <1>1 DEF FilesAgree, IgnoresMore
<1> QED  BY <1>2, <1>3 DEF Touches

\* The steps that write touch one file and one hash.
LEMMA WritersTouch ==
  ASSUME IInv, ListInv, AccountInv, Writers, Moves, NEW p, p = Target, NEW h, h = HashKey(p, Channel)
  PROVE  Touches(p, h)
<1>1. UNCHANGED <<version, meta, ignored, git>> /\ todo # <<>>
  BY WritersAre
<1>2. CASE AppendTemplateSection \/ WriteForkBlock
  <2>1. Op(1) \in {"section", "block"} /\ p = Path /\ h = OwnKey
    BY <1>2 DEF AppendTemplateSection, WriteForkBlock, Op, Target, OwnKey
  <2>2. \/ Absent \/ Created \/ Current \/ (\E text : Replacing(text)) \/ Kept \/ Marked \/ Appended
    BY <1>2, SectionOutcomes, BlockOutcomes
  <2>3. files' = files \/ \E text : files' = WithFile(p, text)
    BY <2>1, <2>2 DEF Absent, Created, Current, Replacing, Kept, Marked, Appended, Writes, Leaves
  <2>4. fresh' = fresh \/ \E text : KeepHash(h, text)
    BY <2>1, <2>2 DEF Absent, Created, Current, Replacing, Kept, Marked, Appended
  <2>5. unrecorded \subseteq unrecorded' /\ doubled \subseteq doubled'
    BY <2>2 DEF Absent, Created, Current, Replacing, Kept, Marked, Appended, Writes, Leaves
  <2>6. migrated \ {p} \subseteq migrated'
    BY <2>1, <2>2 DEF Absent, Created, Current, Replacing, Kept, Marked, Appended
  <2> QED  BY <1>1, <2>3, <2>4, <2>5, <2>6, TouchesOne
<1>3. CASE WriteTemplateFile \/ WriteForkSkill
  <2>1. h = TargetKey
    BY <1>3 DEF WriteTemplateFile, WriteForkSkill, Channel, TargetKey
  <2>2. Rootless \/ Uptodate \/ (\E text : Rewritten(text)) \/ Refused
    BY <1>3, WholeOutcomes, SkillOutcomes
  <2>3. files' = files \/ \E text : files' = WithFile(p, text)
    BY <2>2 DEF Rootless, Uptodate, Rewritten, Refused, Leaves
  <2>4. fresh' = fresh \/ \E text : KeepHash(h, text)
    BY <2>1, <2>2 DEF Rootless, Uptodate, Rewritten, Refused
  <2>5. unrecorded \subseteq unrecorded' /\ doubled \subseteq doubled' /\ migrated' = migrated
    BY <2>2 DEF Rootless, Uptodate, Rewritten, Refused, Leaves
  <2> QED  BY <1>1, <2>3, <2>4, <2>5, TouchesOne
<1>4. CASE SyncLatHooks \/ RegisterMcpServer
  <2>1. p = Path
    BY <1>4 DEF SyncLatHooks, RegisterMcpServer, Doing, Target, Op
  <2>2. files' = files \/ \E text : files' = WithFile(p, text)
    BY <1>4, <2>1 DEF SyncLatHooks, RegisterMcpServer
  <2>3. fresh' = fresh /\ unrecorded' = unrecorded /\ doubled' = doubled /\ migrated' = migrated
    BY <1>4 DEF SyncLatHooks, RegisterMcpServer, notes
  <2> QED  BY <1>1, <2>2, <2>3, TouchesOne
<1> QED  BY <1>2, <1>3, <1>4 DEF Writers

\* Of what is not touched the run will have stored the same.
LEMMA AgreeOnOthers ==
  ASSUME NEW p, NEW h, Touches(p, h), NEW k, k # h, NEW hashes, hashes = Known', NEW loose, loose = Loose'
  PROVE  Agree(k, Known, Loose, hashes, loose)
<1>1. /\ meta' = meta /\ unrecorded \subseteq unrecorded'
      /\ k \in DOMAIN fresh' <=> k \in DOMAIN fresh
      /\ k \in DOMAIN fresh => fresh'[k] = fresh[k]
  BY DEF Touches
<1>2. k \in DOMAIN hashes <=> k \in DOMAIN Known
  BY <1>1, KnownIs, KnownAfter
<1>3. k \in DOMAIN Known => hashes[k] = Known[k]
  BY <1>1, KnownIs, KnownAfter
<1>4. k \in Loose => k \in loose
  BY <1>1 DEF Loose
<1> QED  BY <1>2, <1>3, <1>4 DEF Agree

-----------------------------------------------------------------------------
\* The first step, a writing one, and its file.
LEMMA FirstStep ==
  ASSUME IInv, ListInv, Writers, NEW r, r = todo[1]
  PROVE  r \in Steps /\ Typed(r) /\ r.op \in Writing /\ FileOf(r) = Target /\ r.op = Op(1) /\ r.path = Path
<1>1. todo # <<>> /\ Op(1) \in Writing
  BY WritersAre
<1> QED  BY <1>1, StepOfPlan DEF Op, Path, FileOf, Target

\* A step that is done stays so while another is carried out, if the hashes agree
\* but for the one that is kept, and for a section of the same channel.
LEMMA StepStaysDone ==
  ASSUME IInv, ListInv, AccountInv, Writers, Moves, settled' # Disturbed,
         NEW s \in Steps, Typed(s), s.op \in Writing,
         NEW hashes, NEW loose, NEW more, NEW looser, Done(s, hashes, loose), RecordedArePristine(hashes),
         NEW own, own = HashKey(Target, Channel), \A k : k # own => Agree(k, hashes, loose, more, looser),
         s.op \in {"section", "block"} /\ s.op = Op(1) /\ s.path = Path => (Done(s, more, looser))',
         UNCHANGED <<files, fresh, unrecorded, migrated, doubled>> => more = hashes /\ looser = loose
  PROVE  (Done(s, more, looser))'
<1>1. PICK r : r = todo[1]
  OBVIOUS
<1>2. PICK file : file = Target
  OBVIOUS
<1>3. r \in Steps /\ Typed(r) /\ r.op \in Writing /\ FileOf(r) = file /\ r.op = Op(1) /\ r.path = Path
  BY <1>1, <1>2, FirstStep
<1>4. PICK c \in Channels : c = Channel
  BY DEF Channel, Channels
<1>5. own = HashKey(file, c) /\ Touches(file, own)
  BY <1>2, <1>4, WritersTouch
<1>6. FilesAgree(file) /\ UNCHANGED <<version, meta>> /\ IgnoresMore
  BY <1>5, WritersAre DEF Touches, FilesAgree
<1>7. CASE FileOf(s) # file
  <2>1. PICK q : q = FileOf(s)
    OBVIOUS
  <2>2. SameAt(q, hashes, loose, more, looser)
    <3> SUFFICES ASSUME NEW d \in Channels
                 PROVE  Agree(HashKey(q, d), hashes, loose, more, looser)
      BY DEF SameAt
    <3>1. HashKey(q, d) # own
      BY <1>5, <1>7, <2>1, KeysDiffer
    <3> QED  BY <3>1
  <2>3. (s.op \in Writing => FileOf(s) # file) /\ SameAt(FileOf(s), hashes, loose, more, looser)
    BY <1>7, <2>1, <2>2
  <2> QED  BY <1>6, <2>3, DoneElsewhere
<1>8. CASE FileOf(s) = file
  <2>1. \/ {s.op, r.op} \subseteq {"section", "block"} /\ s.path = r.path
        \/ {s.op, r.op} \subseteq {"template", "merged", "conventions"}
        \/ s.op = "hooks" /\ r.op = "hooks" /\ s.path = r.path
        \/ s.op = "mcp" /\ r.op = "mcp" /\ s.path = r.path
    BY <1>3, <1>8, OneKind
  <2>2. CASE {s.op, r.op} \subseteq {"section", "block"} /\ s.path = r.path
    <3>1. CASE s.op = r.op
      BY <1>3, <2>2, <3>1
    <3>2. CASE s.op # r.op
      <4>1. PICK p : p = Path
        OBVIOUS
      <4>2. PICK d \in Channels : d = IF s.op = "block" THEN "fork" ELSE "lat"
        BY DEF Channels
      <4>3. d # c /\ file = p /\ s.path = p
        <5>1. Channel = IF r.op = "block" THEN "fork" ELSE "lat"
          BY <1>1 DEF Channel
        <5>2. file = p
          BY <1>2, <1>3, <2>2, <4>1 DEF Target
        <5> QED  BY <1>3, <1>4, <2>2, <3>2, <4>1, <4>2, <5>1, <5>2
      <4>4. AppendTemplateSection \/ WriteForkBlock
        <5>1. Op(1) \in {"section", "block"}
          BY <1>3, <2>2
        <5> QED  BY <5>1 DEF Writers, WriteTemplateFile, WriteForkSkill, SyncLatHooks, RegisterMcpServer, Doing, Op
      <4>5. HashKey(p, d) # own
        BY <1>5, <4>3, KeysDiffer
      <4>6. SectionDone(p, d, hashes, loose)
        BY <2>2, <4>2, <4>3 DEF Done
      <4>7. HashKey(p, d) \in DOMAIN hashes => Pristine(hashes[HashKey(p, d)], d)
        <5>1. p \in SharedPaths
          BY <1>3, <2>2, <4>3 DEF Typed
        <5> QED  BY <5>1 DEF RecordedArePristine
      <4>8. Agree(HashKey(p, d), hashes, loose, more, looser) /\ d # Channel
        BY <1>4, <4>3, <4>5
      <4>9. (SectionDone(p, d, more, looser))'
        BY <4>1, <4>4, <4>6, <4>7, <4>8, OtherChannelDone
      <4> QED  BY <2>2, <4>2, <4>3, <4>9 DEF Done
    <3> QED  BY <3>1, <3>2
  <2>3. CASE {s.op, r.op} \subseteq {"template", "merged", "conventions"}
    <3>1. WriteTemplateFile \/ WriteForkSkill
      <4>1. Op(1) \in {"template", "merged", "conventions"}
        BY <1>3, <2>3
      <4> QED  BY <4>1 DEF Writers, AppendTemplateSection, WriteForkBlock, SyncLatHooks, RegisterMcpServer, Doing, Op
    <3>2. \/ file \in DOMAIN files' /\ files'[file] = (Wanted(file))'
          \/ UNCHANGED <<files, fresh, unrecorded, migrated, doubled>>
      BY <1>2, <3>1, WantedOrSame
    <3>3. CASE file \in DOMAIN files' /\ files'[file] = (Wanted(file))'
      <4>1. s.op \in {"template", "merged", "conventions"} /\ file = FileOf(s)
        BY <1>8, <2>3
      <4> QED  BY <3>3, <4>1, WantedIsDone
    <3>4. CASE UNCHANGED <<files, fresh, unrecorded, migrated, doubled>>
      <4>1. (Done(s, hashes, loose))'
        BY <1>6, <3>4, DoneSame
      <4>2. more = hashes /\ looser = loose
        BY <3>4
      <4> QED  BY <4>1, <4>2
    <3> QED  BY <3>2, <3>3, <3>4
  <2>4. CASE s.op = r.op /\ s.path = r.path /\ r.op \in {"hooks", "mcp"}
    <3>1. SyncLatHooks \/ RegisterMcpServer
      <4>1. Op(1) \in {"hooks", "mcp"}
        BY <1>3, <2>4
      <4> QED  BY <4>1 DEF Writers, AppendTemplateSection, WriteForkBlock, WriteTemplateFile, WriteForkSkill, Op
    <3>2. (Done(r, more, looser))'
      BY <1>1, <3>1, EntriesAreDone
    <3> QED  BY <2>4, <3>2, DoneAlike
  <2> QED  BY <2>1, <2>2, <2>3, <2>4
<1> QED  BY <1>7, <1>8

-----------------------------------------------------------------------------
\* The step that is carried out is done.
LEMMA FirstIsDone ==
  ASSUME IInv, ListInv, AccountInv, RunInv, Writers, Moves, settled' # Disturbed,
         NEW s, s = todo[1], NEW hashes, hashes = Known', NEW loose, loose = Loose'
  PROVE  (Done(s, hashes, loose))'
<1>1. s \in Steps /\ s.op \in Writing /\ FileOf(s) = Target /\ s.op = Op(1) /\ s.path = Path
  BY FirstStep
<1>2. UNCHANGED <<version, meta>> /\ settled # Disturbed /\ todo # <<>>
  BY WritersAre, WritersMove
<1>3. CASE AppendTemplateSection \/ WriteForkBlock
  <2>1. PICK p : p = Path
    OBVIOUS
  <2>2. PICK c : c = Channel
    OBVIOUS
  <2>3. (SectionDone(p, c, hashes, loose))'
    BY <1>3, <2>1, <2>2, SharedIsDone
  <2>4. s.op \in {"section", "block"} /\ c = IF s.op = "block" THEN "fork" ELSE "lat"
    BY <1>3, <2>2 DEF AppendTemplateSection, WriteForkBlock, Channel
  <2> QED  BY <1>1, <2>1, <2>3, <2>4 DEF Done
<1>4. CASE WriteTemplateFile \/ WriteForkSkill
  <2>1. PICK file : file = Target
    OBVIOUS
  <2>2. Op(1) \in {"template", "merged", "conventions"}
    BY <1>4 DEF WriteTemplateFile, WriteForkSkill, Op
  <2>3. \/ file \in DOMAIN files' /\ files'[file] = (Wanted(file))'
        \/ Rootless \/ Refused
    BY <1>4, <2>1, WantedOrSame
  <2>4. CASE file \in DOMAIN files' /\ files'[file] = (Wanted(file))'
    <3>1. s.op \in {"template", "merged", "conventions"} /\ file = FileOf(s)
      BY <1>1, <2>1, <2>2
    <3> QED  BY <2>4, <3>1, WantedIsDone
  <2>5. CASE Refused
    BY <1>2, <2>2, <2>5, RefusedIsDone
  <2> QED  BY <1>2, <2>3, <2>4, <2>5, ForksHaveFiles
<1>5. CASE SyncLatHooks \/ RegisterMcpServer
  BY <1>5, EntriesAreDone
<1> QED  BY <1>3, <1>4, <1>5 DEF Writers

\* What the run will have stored for a shared file is a template.
LEMMA KnownArePristine ==
  ASSUME AccountInv, NEW hashes, hashes = Known
  PROVE  RecordedArePristine(hashes)
<1> SUFFICES ASSUME NEW p \in SharedPaths, NEW c \in Channels, HashKey(p, c) \in DOMAIN hashes
             PROVE  Pristine(hashes[HashKey(p, c)], c)
  BY DEF RecordedArePristine
<1> DEFINE h == HashKey(p, c)
<1>1. /\ h \in DOMAIN meta.hashes => Pristine(meta.hashes[h], c)
      /\ h \in DOMAIN fresh => Pristine(fresh[h], c)
  BY DEF AccountInv, Accounts, RecordedArePristine
<1> HIDE DEF h
<1>2. Pristine(hashes[h], c)
  <2>1. h \in DOMAIN hashes
    BY DEF h
  <2> QED  BY <1>1, <2>1, KnownIs
<1> QED  BY <1>2 DEF h

\* The list without its first step.
LEMMA StepsAfterFirst ==
  ASSUME IInv, todo # <<>>, todo' = Tail(todo), NEW s \in Rng(todo), s # todo[1]
  PROVE  s \in Rng(todo')
<1>1. /\ Len(todo) \in Nat \ {0} /\ DOMAIN todo = 1..Len(todo)
      /\ DOMAIN Tail(todo) = 1..(Len(todo) - 1)
      /\ \A i \in 1..(Len(todo) - 1) : Tail(todo)[i] = todo[i + 1]
  BY Shifted DEF IInv
<1>2. PICK j \in 1..Len(todo) : s = todo[j]
  BY <1>1 DEF Rng
<1>3. j # 1
  BY <1>2
<1>4. j - 1 \in 1..(Len(todo) - 1) /\ (j - 1) + 1 = j
  BY <1>1, <1>2, <1>3
<1>5. Tail(todo)[j - 1] = s
  BY <1>1, <1>2, <1>4
<1> QED  BY <1>1, <1>4, <1>5 DEF Rng

\* A writing step keeps what a run has done, and adds to it.
LEMMA RunOfWriters ==
  ASSUME IInv, ListInv, AccountInv, RunInv, Writers
  PROVE  RunInv'
<1> SUFFICES ASSUME selected' # {}, settled' # Disturbed, NEW s \in (Plan(selected))', s \notin Rng(todo')
             PROVE  (Done(s, Known, Loose))'
  BY DEF RunInv
<1>1. /\ todo # <<>> /\ UNCHANGED <<version, meta, selected>> /\ IgnoresMore
      /\ settled # Disturbed
  BY WritersAre, WritersMove DEF IgnoresMore
<1>2. s \in Plan(selected)
  BY <1>1, PlanOfWriters DEF Plan
<1>3. s \in Steps /\ Typed(s)
  <2>1. selected \in SUBSET DOMAIN Setup
    BY WritersAre, StepOfPlan
  <2>2. AgentPlan(selected, DOMAIN files) \in Seq(Steps)
    BY AgentPlanIsSteps
  <2>3. Typed(s)
    BY <1>2, <2>1, PlanIsTyped DEF Plan
  <2> QED  BY <1>2, <2>2, <2>3 DEF Plan, Rng
<1>4. s \in Rng(todo) \/ Done(s, Known, Loose)
  BY <1>1, <1>2 DEF RunInv
<1>5. PICK hashes : hashes = Known'
  OBVIOUS
<1>6. PICK loose : loose = Loose'
  OBVIOUS
<1>7. SUFFICES (Done(s, hashes, loose))'
  BY <1>5, <1>6, DoneNext
<1>8. CASE Asks
  <2>1. UNCHANGED <<todo, files, fresh, unrecorded, migrated, doubled>>
    BY <1>8 DEF Asks, notes
  <2>2. hashes = Known /\ loose = Loose
    BY <1>1, <1>5, <1>6, <2>1 DEF Known, Loose, Override
  <2>3. Done(s, hashes, loose)
    BY <1>4, <2>1, <2>2
  <2> QED  BY <1>1, <2>1, <2>3, DoneSame
<1>9. CASE Moves
  <2>1. CASE s = todo[1]
    BY <1>5, <1>6, <1>9, <2>1, FirstIsDone
  <2>2. CASE s # todo[1]
    <3>1. Done(s, Known, Loose)
      BY <1>1, <1>4, <1>9, <2>2, StepsAfterFirst DEF Moves
    <3>2. CASE s.op \notin Writing
      BY <1>1, <3>1, <3>2, DoneUnwritten
    <3>3. CASE s.op \in Writing
      <4>1. PICK old : old = Known
        OBVIOUS
      <4>2. PICK before : before = Loose
        OBVIOUS
      <4>3. Done(s, old, before) /\ RecordedArePristine(old)
        BY <3>1, <4>1, <4>2, KnownArePristine
      <4>4. PICK own : own = HashKey(Target, Channel)
        OBVIOUS
      <4>5. \A k : k # own => Agree(k, old, before, hashes, loose)
        <5>1. PICK file : file = Target
          OBVIOUS
        <5>2. Touches(file, own)
          BY <1>9, <4>4, <5>1, WritersTouch
        <5> SUFFICES ASSUME NEW k, k # own
                     PROVE  Agree(k, old, before, hashes, loose)
          OBVIOUS
        <5>3. Agree(k, Known, Loose, hashes, loose)
          BY <1>5, <1>6, <5>2, AgreeOnOthers
        <5> QED  BY <4>1, <4>2, <5>3
      <4>6. s.op \in {"section", "block"} /\ s.op = Op(1) /\ s.path = Path => (Done(s, hashes, loose))'
        <5> SUFFICES ASSUME s.op = Op(1), s.path = Path
                     PROVE  (Done(s, hashes, loose))'
          OBVIOUS
        <5>1. PICK r : r = todo[1]
          OBVIOUS
        <5>2. (Done(r, hashes, loose))'
          BY <1>5, <1>6, <1>9, <5>1, FirstIsDone
        <5>3. s.op = r.op /\ s.path = r.path
          BY <5>1 DEF Op, Path
        <5> QED  BY <5>2, <5>3, DoneAlike
      <4>7. UNCHANGED <<files, fresh, unrecorded, migrated, doubled>> => hashes = old /\ loose = before
        BY <1>1, <1>5, <1>6, <4>1, <4>2 DEF Known, Loose, Override
      <4> QED  BY <1>3, <1>9, <3>3, <4>3, <4>4, <4>5, <4>6, <4>7, StepStaysDone
    <3> QED  BY <3>2, <3>3
  <2> QED  BY <2>1, <2>2
<1> QED  BY <1>8, <1>9, WritersMove

\* A writing step keeps what the last complete run has done, or says that it does not.
LEMMA SettledOfWriters ==
  ASSUME IInv, ListInv, AccountInv, SettledInv, Writers
  PROVE  SettledInv'
<1> SUFFICES ASSUME settled' \notin {Nobody, Disturbed, {}}
             PROVE  meta'.version = version' /\ \A s \in (Plan(settled))' : (Done(s, meta.hashes, unrecorded))'
  BY DEF SettledInv
<1>1. /\ todo # <<>> /\ UNCHANGED <<version, meta, selected>> /\ IgnoresMore
      /\ settled' = settled
  BY WritersAre, WritersMove DEF IgnoresMore
<1>2. selected \in SUBSET DOMAIN Setup /\ settled = selected
  BY <1>1, WritersAre, StepOfPlan DEF ListInv
<1>3. meta'.version = version'
  BY <1>1 DEF SettledInv
<1>4. ASSUME NEW s \in (Plan(settled))'
      PROVE  (Done(s, meta.hashes, unrecorded))'
  <2>1. s \in Plan(selected)
    BY <1>1, <1>2, PlanOfWriters DEF Plan
  <2>2. s \in Steps /\ Typed(s)
    <3>1. AgentPlan(selected, DOMAIN files) \in Seq(Steps)
      BY AgentPlanIsSteps
    <3>2. Typed(s)
      BY <1>2, <2>1, PlanIsTyped DEF Plan
    <3> QED  BY <2>1, <3>1, <3>2 DEF Plan, Rng
  <2>3. PICK hashes : hashes = meta.hashes
    OBVIOUS
  <2>4. PICK loose : loose = unrecorded
    OBVIOUS
  <2>5. PICK looser : looser = unrecorded'
    OBVIOUS
  <2>6. Done(s, hashes, loose) /\ RecordedArePristine(hashes)
    BY <1>1, <1>2, <2>1, <2>3, <2>4 DEF SettledInv, AccountInv, Accounts
  <2>7. SUFFICES (Done(s, hashes, looser))'
    BY <1>1, <2>3, <2>5 DEF Done, SectionDone, WholeDone
  <2>8. CASE Asks
    <3>1. UNCHANGED <<files, unrecorded, migrated, doubled>>
      BY <2>8 DEF Asks, notes
    <3>2. (Done(s, hashes, loose))'
      BY <1>1, <2>6, <3>1, DoneSame
    <3> QED  BY <2>4, <2>5, <3>1, <3>2
  <2>9. CASE Moves
    <3>1. CASE s.op \notin Writing
      BY <1>1, <2>6, <3>1, DoneUnwritten
    <3>2. CASE s.op \in Writing
      <4>1. PICK own : own = HashKey(Target, Channel)
        OBVIOUS
      <4>2. PICK file : file = Target
        OBVIOUS
      <4>3. Touches(file, own)
        BY <2>9, <4>1, <4>2, WritersTouch
      <4>4. loose \subseteq looser
        BY <2>4, <2>5, <4>3 DEF Touches
      <4>5. \A k : k # own => Agree(k, hashes, loose, hashes, looser)
        BY <4>4 DEF Agree
      <4>6. s.op \in {"section", "block"} /\ s.op = Op(1) /\ s.path = Path => (Done(s, hashes, looser))'
        <5> SUFFICES ASSUME s.op \in {"section", "block"}, s.op = Op(1), s.path = Path
                     PROVE  (Done(s, hashes, looser))'
          OBVIOUS
        <5>1. AppendTemplateSection \/ WriteForkBlock
          BY DEF Writers, WriteTemplateFile, WriteForkSkill, SyncLatHooks, RegisterMcpServer, Doing, Op
        <5>2. PICK p : p = Path
          OBVIOUS
        <5>3. PICK c : c = Channel
          OBVIOUS
        <5>4. c = IF s.op = "block" THEN "fork" ELSE "lat"
          BY <5>3 DEF Channel, Op
        <5>5. SectionDone(p, c, hashes, loose)
          BY <2>6, <5>2, <5>4 DEF Done
        <5>6. (SectionDone(p, c, hashes, looser))'
          BY <2>9, <4>4, <5>1, <5>2, <5>3, <5>5, SharedStaysDone
        <5> QED  BY <5>2, <5>4, <5>6 DEF Done
      <4>7. UNCHANGED <<files, fresh, unrecorded, migrated, doubled>> => hashes = hashes /\ looser = loose
        BY <2>4, <2>5
      <4>8. settled' # Disturbed
        OBVIOUS
      <4> QED  BY <2>2, <2>6, <2>9, <3>2, <4>1, <4>5, <4>6, <4>7, <4>8, StepStaysDone
    <3> QED  BY <3>1, <3>2
  <2> QED  BY <2>8, <2>9, WritersMove
<1> QED  BY <1>3, <1>4

-----------------------------------------------------------------------------
\* A step that writes nothing a run has to write.
LEMMA QuietRun ==
  ASSUME RunInv, UNCHANGED <<files, version, meta, fresh, unrecorded, migrated, doubled, selected>>,
         IgnoresMore, settled' # Disturbed => settled # Disturbed,
         \A s \in Plan(selected) : s \in Rng(todo) => s \in Rng(todo') \/ (s.op = "ignore" /\ (IgnoreIsDone(s.path))')
  PROVE  RunInv'
<1> SUFFICES ASSUME selected' # {}, settled' # Disturbed, NEW s \in (Plan(selected))', s \notin Rng(todo')
             PROVE  (Done(s, Known, Loose))'
  BY DEF RunInv
<1>1. s \in Plan(selected)
  BY DEF Plan
<1>2. PICK hashes : hashes = Known'
  OBVIOUS
<1>3. PICK loose : loose = Loose'
  OBVIOUS
<1>4. hashes = Known /\ loose = Loose
  BY <1>2, <1>3 DEF Known, Loose, Override
<1>5. SUFFICES (Done(s, hashes, loose))'
  BY <1>2, <1>3, DoneNext
<1>6. CASE s.op = "ignore" /\ (IgnoreIsDone(s.path))'
  BY <1>6 DEF Done
<1>7. CASE s \notin Rng(todo)
  <2>1. Done(s, hashes, loose)
    BY <1>1, <1>4, <1>7 DEF RunInv
  <2> QED  BY <2>1, DoneSame
<1> QED  BY <1>1, <1>6, <1>7

\* The same of the last complete run.
LEMMA QuietSettled ==
  ASSUME SettledInv, UNCHANGED <<files, version, meta, unrecorded, migrated, doubled>>,
         IgnoresMore, settled' \in {settled, Nobody}
  PROVE  SettledInv'
<1> SUFFICES ASSUME settled' \notin {Nobody, Disturbed, {}}
             PROVE  meta'.version = version' /\ \A s \in (Plan(settled))' : (Done(s, meta.hashes, unrecorded))'
  BY DEF SettledInv
<1>1. settled' = settled
  OBVIOUS
<1>2. meta'.version = version'
  BY <1>1 DEF SettledInv
<1>3. ASSUME NEW s \in (Plan(settled))'
      PROVE  (Done(s, meta.hashes, unrecorded))'
  <2>1. s \in Plan(settled)
    BY <1>1 DEF Plan
  <2>2. PICK hashes : hashes = meta.hashes
    OBVIOUS
  <2>3. PICK loose : loose = unrecorded
    OBVIOUS
  <2>4. Done(s, hashes, loose)
    BY <1>1, <2>1, <2>2, <2>3 DEF SettledInv
  <2>5. (Done(s, hashes, loose))'
    BY <2>4, DoneSame
  <2> QED  BY <2>2, <2>3, <2>5 DEF Done, SectionDone, WholeDone
<1> QED  BY <1>2, <1>3

\* The steps that a plan is not made of, and the entries of .gitignore.
LEMMA RunOfQuietSteps ==
  ASSUME IInv, ListInv, RunInv, SettledInv,
         CreateTree \/ WriteForkScaffold \/ SetupEmbeddings \/ OfferRequireMode \/ EnsureGitignored
  PROVE  RunInv' /\ SettledInv'
<1>1. /\ todo # <<>> /\ UNCHANGED <<files, version, meta, fresh, unrecorded, migrated, doubled, selected, settled>>
      /\ IgnoresMore
  BY DEF CreateTree, WriteForkScaffold, SetupEmbeddings, OfferRequireMode, EnsureGitignored, Doing, project, notes,
         IgnoresMore
<1>2. ASSUME NEW p, Op(1) = "ignore", Path = p
      PROVE  (IgnoreIsDone(p))'
  <2>1. EnsureGitignored
    BY <1>2 DEF CreateTree, WriteForkScaffold, SetupEmbeddings, OfferRequireMode, Doing, Op
  <2>2. git' = git /\ (p \in ignored' \/ p \in git.tracked \/ ~git.ignores)
    BY <1>2, <2>1 DEF EnsureGitignored
  <2> QED  BY <2>2 DEF IgnoreIsDone
<1>3. Op(1) \in {"mkdir", "copy", "modeDir", "listModes", "embeddings", "offer", "ignore"}
  BY DEF CreateTree, WriteForkScaffold, SetupEmbeddings, OfferRequireMode, EnsureGitignored, Doing, Op
<1>4. Rng(todo) \subseteq Rng(todo') \cup {todo[1]}
  <2>1. CASE todo' = Tail(todo)
    BY <1>1, <2>1, StepsAfterFirst
  <2>2. CASE todo' = ScaffoldSteps \o Tail(todo)
    <3> DEFINE rest == Tail(todo)
               first == ScaffoldSteps
    <3>1. first \in Seq(Steps) /\ rest \in Seq(Steps)
      BY <1>1, ScaffoldIs, Shifted DEF IInv
    <3>2. todo' = first \o rest
      BY <2>2
    <3>3. Rng(todo) \subseteq Rng(rest) \cup {todo[1]}
      <4> SUFFICES ASSUME NEW s \in Rng(todo), s # todo[1]
                   PROVE  s \in Rng(rest)
        OBVIOUS
      <4>1. /\ Len(todo) \in Nat \ {0} /\ DOMAIN todo = 1..Len(todo)
            /\ DOMAIN rest = 1..(Len(todo) - 1)
            /\ \A i \in 1..(Len(todo) - 1) : rest[i] = todo[i + 1]
        BY <1>1, Shifted DEF IInv
      <4>2. PICK j \in 1..Len(todo) : s = todo[j]
        BY <4>1 DEF Rng
      <4>3. j # 1
        BY <4>2
      <4>4. j - 1 \in 1..(Len(todo) - 1) /\ (j - 1) + 1 = j
        BY <4>1, <4>2, <4>3
      <4>5. rest[j - 1] = s
        BY <4>1, <4>2, <4>4
      <4> QED  BY <4>1, <4>4, <4>5 DEF Rng
    <3> HIDE DEF rest, first
    <3>4. Rng(first \o rest) = Rng(first) \cup Rng(rest)
      BY <3>1, RangeJoined
    <3> QED  BY <3>2, <3>3, <3>4
  <2> QED  BY <2>1, <2>2 DEF CreateTree, WriteForkScaffold, SetupEmbeddings, OfferRequireMode, EnsureGitignored, Doing
<1>5. ASSUME NEW s \in Plan(selected), s \in Rng(todo), selected # {}
      PROVE  s \in Rng(todo') \/ (s.op = "ignore" /\ (IgnoreIsDone(s.path))')
  <2>1. selected \in SUBSET DOMAIN Setup
    BY Selected DEF ListInv
  <2>2. s.op \in MainOps \cup {"block", "conventions", "meta"}
    BY <2>1, PlanIsTyped DEF Plan
  <2>3. CASE s = todo[1]
    BY <1>2, <1>3, <2>2, <2>3 DEF Op, Path, MainOps
  <2>4. CASE s # todo[1]
    BY <1>4, <1>5, <2>4
  <2> QED  BY <2>3, <2>4
<1>6. SettledInv'
  BY <1>1, QuietSettled
<1>7. CASE selected # {}
  BY <1>1, <1>5, <1>6, <1>7, QuietRun
<1>8. CASE selected = {}
  BY <1>1, <1>6, <1>8 DEF RunInv
<1> QED  BY <1>7, <1>8

\* A run begins with nothing done, and a plan that is all to do.
LEMMA RunOfStart ==
  ASSUME IInv, ListInv, RunInv, SettledInv, StartRun \/ ChooseAgents \/ Cut
  PROVE  RunInv' /\ SettledInv'
<1>1. UNCHANGED <<files, version, meta, unrecorded, migrated, doubled>> /\ IgnoresMore
  BY DEF StartRun, ChooseAgents, Cut, Ends, project, notes, IgnoresMore
<1>2. CASE StartRun
  <2>1. selected' = {}
    BY <1>2, ListNext DEF StartRun, Idle
  <2>2. settled' \in {settled, Nobody}
    BY <1>2 DEF StartRun
  <2> QED  BY <1>1, <2>1, <2>2, QuietSettled DEF RunInv
<1>3. CASE Cut
  <2>1. selected' = {} /\ settled' = settled
    BY <1>3 DEF Cut, Ends
  <2> QED  BY <1>1, <2>1, QuietSettled DEF RunInv
<1>4. CASE ChooseAgents
  <2>1. settled' \in {settled, Nobody}
    BY <1>4, ChosenPlan
  <2>2. SettledInv'
    BY <1>1, <2>1, QuietSettled
  <2>3. selected' # {} => (Plan(selected))' \subseteq Rng(todo')
    BY <1>1, <1>4, ChosenSteps DEF Plan
  <2> QED  BY <2>2, <2>3 DEF RunInv
<1> QED  BY <1>2, <1>3, <1>4

\* The last step of a run records what was done.
LEMMA RunOfMeta ==
  ASSUME IInv, ListInv, RunInv, WriteInitMeta
  PROVE  RunInv' /\ SettledInv'
<1>1. /\ todo # <<>> /\ Op(1) = "meta" /\ UNCHANGED <<files, version, migrated, doubled, ignored, git>>
      /\ meta' = [version |-> version, hashes |-> Known] /\ unrecorded' = Loose
      /\ settled' = IF settled = Disturbed THEN Nobody ELSE selected
      /\ selected' = {}
  BY DEF WriteInitMeta, Doing, Op, Known, Loose
<1>2. RunInv'
  BY <1>1 DEF RunInv
<1>3. SettledInv'
  <2> SUFFICES ASSUME settled' \notin {Nobody, Disturbed, {}}
               PROVE  meta'.version = version' /\ \A s \in (Plan(settled))' : (Done(s, meta.hashes, unrecorded))'
    BY DEF SettledInv
  <2>1. settled # Disturbed /\ settled' = selected /\ selected # {}
    BY <1>1
  <2>2. meta'.version = version' /\ meta'.hashes = Known
    BY <1>1
  <2>3. ASSUME NEW s \in (Plan(settled))'
        PROVE  (Done(s, meta.hashes, unrecorded))'
    <3>1. s \in Plan(selected)
      BY <1>1, <2>1 DEF Plan
    <3>2. PICK hashes : hashes = Known
      OBVIOUS
    <3>3. PICK loose : loose = Loose
      OBVIOUS
    <3>4. s \in Rng(todo) => s.op = "meta"
      <4>1. Len(todo) = 1 /\ DOMAIN todo = 1..Len(todo)
        BY <1>1, ListNext
      <4> QED  BY <1>1, <4>1 DEF Rng, Op
    <3>5. Done(s, hashes, loose)
      <4>1. CASE s.op = "meta"
        BY <4>1 DEF Done
      <4>2. CASE s \notin Rng(todo)
        BY <2>1, <3>1, <3>2, <3>3, <4>2 DEF RunInv
      <4> QED  BY <3>4, <4>1, <4>2
    <3>6. (Done(s, hashes, loose))'
      BY <1>1, <3>5, DoneSame DEF IgnoresMore
    <3>7. meta'.hashes = hashes /\ unrecorded' = loose
      BY <1>1, <2>2, <3>2, <3>3
    <3> QED  BY <3>6, <3>7 DEF Done, SectionDone, WholeDone
  <2> QED  BY <2>2, <2>3
<1> QED  BY <1>2, <1>3

\* What the user does, or a kill in a write, disturbs what was set up, or leaves it alone.
LEMMA RunOfEvents ==
  ASSUME RunInv, SettledInv,
         \/ CutWhileWriting \/ EditFile \/ Upgrade \/ ChangeGit \/ WipeCache \/ SetGate \/ ChangeKey \/ Reindex
         \/ UNCHANGED vars
  PROVE  RunInv' /\ SettledInv'
<1>1. CASE EditFile \/ Upgrade \/ ChangeGit \/ WipeCache \/ CutWhileWriting
  <2>1. settled' = Disturbed
    BY <1>1 DEF EditFile, Upgrade, ChangeGit, WipeCache, CutWhileWriting
  <2> QED  BY <2>1 DEF RunInv, SettledInv
<1>2. CASE SetGate \/ ChangeKey \/ Reindex \/ UNCHANGED vars
  <2>1. UNCHANGED <<files, version, meta, fresh, unrecorded, migrated, doubled, selected, ignored, git, settled, todo>>
    BY <1>2 DEF SetGate, ChangeKey, Reindex, Event, vars, project, run, notes, history
  <2> QED  BY <2>1, QuietRun, QuietSettled DEF IgnoresMore
<1> QED  BY <1>1, <1>2

\* Every step keeps what holds of the run and of a settled setup.
LEMMA RunStays ==
  ASSUME IInv, ListInv, AccountInv, RunInv, SettledInv, [Next]_vars
  PROVE  RunInv' /\ SettledInv'
<1>1. CASE Writers
  BY <1>1, RunOfWriters, SettledOfWriters
<1>2. CASE ~Writers
  BY <1>2, RunOfQuietSteps, RunOfStart, RunOfMeta, RunOfEvents DEF Next, Writers
<1> QED  BY <1>1, <1>2

\* What holds of the run and of a settled setup holds at first.
LEMMA RunAtFirst == Init => RunInv /\ SettledInv
BY DEF Init, RunInv, SettledInv

-----------------------------------------------------------------------------
\* A section that is done is current, or there is a reason why not.
LEMMA SectionIsCurrent ==
  ASSUME NEW text \in Texts, NEW c \in Channels, NEW v, NEW hashes, NEW h, NEW loose, NEW twice \in BOOLEAN,
         SectionLeft(text, c, v, hashes, h, loose, twice)
  PROVE  \/ twice \/ ~HasSection(text, c) \/ Section(text, c) = <<Template(c, v)>>
         \/ ~Pristine(Section(text, c), c) \/ h \in loose
<1>1. At(text, Begin(c)) \in Nat /\ At(text, End(c)) \in Nat
  <2>1. Len(text) \in Nat /\ At(text, Begin(c)) \in 0..Len(text) /\ At(text, End(c)) \in 0..Len(text)
    BY FirstPlace DEF Texts
  <2> QED  BY <2>1
<1>2. EndFirst(text, c) => ~HasSection(text, c)
  BY <1>1 DEF EndFirst, HasSection
<1> QED  BY <1>2 DEF SectionLeft

\* A step that is done, with the hashes that are stored, is current.
LEMMA DoneIsCurrent ==
  ASSUME IInv, NEW s \in Steps, Typed(s), Done(s, meta.hashes, unrecorded)
  PROVE  CurrentFor(s)
<1> DEFINE p == s.path
<1>1. TextsAreTexts /\ version \in Nat
  BY DEF IInv
<1>2. ASSUME NEW c \in Channels, SectionDone(p, c, meta.hashes, unrecorded)
      PROVE  \/ p \in doubled \/ (c = "lat" /\ p \in migrated) \/ ~HasSection(files[p], c)
             \/ Section(files[p], c) = <<Template(c, version)>>
             \/ ~Pristine(Section(files[p], c), c) \/ HashKey(p, c) \in unrecorded
  <2>1. CASE c = "lat" /\ p \in migrated
    BY <2>1
  <2>2. CASE SectionLeft(files[p], c, version, meta.hashes, HashKey(p, c), unrecorded, p \in doubled)
    <3> DEFINE twice == p \in doubled
               text == files[p]
               h == HashKey(p, c)
               hashes == meta.hashes
    <3>1. twice \in BOOLEAN /\ text \in Texts
      BY <1>1, <1>2 DEF SectionDone, TextsAreTexts
    <3>2. SectionLeft(text, c, version, hashes, h, unrecorded, twice)
      BY <2>2
    <3> HIDE DEF twice, text, h, hashes
    <3>3. \/ twice \/ ~HasSection(text, c) \/ Section(text, c) = <<Template(c, version)>>
          \/ ~Pristine(Section(text, c), c) \/ h \in unrecorded
      BY <3>1, <3>2, SectionIsCurrent
    <3> QED  BY <3>3 DEF twice, text, h
  <2> QED  BY <1>2, <2>1, <2>2 DEF SectionDone
<1>3. CASE s.op = "section"
  <2>1. SectionDone(p, "lat", meta.hashes, unrecorded) /\ "lat" \in Channels
    BY <1>3 DEF Done, Channels
  <2> QED  BY <1>2, <1>3, <2>1 DEF CurrentFor
<1>4. CASE s.op = "block"
  <2>1. SectionDone(p, "fork", meta.hashes, unrecorded) /\ "fork" \in Channels
    BY <1>4 DEF Done, Channels
  <2> QED  BY <1>2, <1>4, <2>1 DEF CurrentFor
<1>5. CASE s.op \in {"template", "merged"}
  <2>1. /\ p \in DOMAIN files /\ files[p] \in Texts
        /\ \/ files[p] = Wanted(p)
           \/ UsersIn(files[p]) > 0 \/ HashKey(p, "lat") \in unrecorded
    BY <1>1, <1>5 DEF Done, WholeDone, WholeLeft, TextsAreTexts
  <2>2. ASSUME files[p] = Wanted(p)
        PROVE  UsersIn(files[p]) > 0 \/ files[p] = TemplateOf(p)
    <3>1. CASE s.op = "template"
      <4>1. p \in WholePaths \ {".agents/hooks.json"} /\ (p \in SkillFiles => p = SkillFile(".agents/skills/lat-md"))
        BY <3>1 DEF Typed
      <4>2. SkillFile(".agents/skills/lat-md") \in SkillFiles
        BY DEF SkillFiles, SkillRoots
      <4> QED  BY <2>2, <4>1, <4>2 DEF Wanted, TemplateOf
    <3>2. CASE s.op = "merged"
      <4>1. p = ".agents/hooks.json"
        BY <3>2 DEF Steps
      <4>2. files[p] = Keep(files[p], {User, Mixed}) \o <<Template("lat", version)>>
        BY <2>1, <2>2, <4>1 DEF Wanted, MergedHooks, Exists
      <4>3. TemplateOf(p) = <<Template("lat", version)>>
        BY <4>1 DEF TemplateOf, SkillFile
      <4>4. UsersIn(files[p]) \in Nat
        BY <2>1, UsersAreCounted
      <4>5. CASE UsersIn(files[p]) = 0
        <5>1. Keep(files[p], {User, Mixed}) \o <<Template("lat", version)>> = <<Template("lat", version)>>
          BY <1>1, <2>1, <4>5, KeepsNothing
        <5> QED  BY <4>2, <4>3, <5>1
      <4> QED  BY <4>4, <4>5
    <3> QED  BY <1>5, <3>1, <3>2
  <2>3. UsersIn(files[p]) > 0 \/ HashKey(p, "lat") \in unrecorded \/ files[p] = TemplateOf(p)
    BY <2>1, <2>2
  <2> QED  BY <1>5, <2>3 DEF CurrentFor
<1>6. CASE s.op = "hooks"
  BY <1>6 DEF CurrentFor, Done
<1>7. CASE s.op = "mcp"
  BY <1>7 DEF CurrentFor, Done
<1>8. CASE s.op = "ignore"
  BY <1>8 DEF CurrentFor, Done
<1>9. CASE s.op \notin {"section", "block", "template", "merged", "hooks", "mcp", "ignore"}
  BY <1>9 DEF CurrentFor
<1> QED  BY <1>3, <1>4, <1>5, <1>6, <1>7, <1>8, <1>9

\* So the version is stamped on what is set up for it.
LEMMA StampIsTrue ==
  ASSUME IInv, ListInv, SettledInv
  PROVE  StampMeansSetUp
<1> SUFFICES ASSUME settled \notin {Nobody, Disturbed, {}}
             PROVE  /\ meta.version = version
                    /\ LET plan == AgentPlan(settled, DOMAIN files) IN \A i \in DOMAIN plan : CurrentFor(plan[i])
  BY DEF StampMeansSetUp
<1> DEFINE plan == AgentPlan(settled, DOMAIN files)
<1>1. meta.version = version /\ \A s \in Plan(settled) : Done(s, meta.hashes, unrecorded)
  BY DEF SettledInv
<1>2. settled \in SUBSET DOMAIN Setup
  BY Selected DEF ListInv
<1>3. plan \in Seq(Steps)
  BY AgentPlanIsSteps
<1>4. ASSUME NEW i \in DOMAIN plan
      PROVE  CurrentFor(plan[i])
  <2>1. plan[i] \in Rng(plan)
    BY DEF Rng
  <2>2. plan[i] \in Steps
    BY <1>3
  <2>3. Typed(plan[i])
    BY <1>2, <2>1, PlanIsTyped
  <2>4. Done(plan[i], meta.hashes, unrecorded)
    BY <1>1, <2>1 DEF Plan
  <2> HIDE DEF plan
  <2> QED  BY <2>2, <2>3, <2>4, DoneIsCurrent
<1> QED  BY <1>1, <1>4

\* A gate that is on, when no run is under way, has its directories.
LEMMA GateIsServed ==
  ASSUME GateInv
  PROVE  GateHasItsDirectories
BY DEF GateInv, GateHasItsDirectories, Idle

(***************************************************************************)
(* What holds of every state of every run, of any number of runs, upgrades *)
(* and edits.                                                              *)
(***************************************************************************)
WholeInv == IInv /\ HostedInv /\ GateInv /\ ListInv /\ AccountInv /\ RunInv /\ SettledInv

\* The whole invariant holds at first,
LEMMA WholeAtFirst == Init => WholeInv
<1> SUFFICES ASSUME Init PROVE WholeInv
  OBVIOUS
<1>1. HostedInv
  BY DEF Init, HostedInv, WorkingHostedIsKept
<1> QED  BY <1>1, InitIsSound, GateAtFirst, ListAtFirst, AccountAtFirst, RunAtFirst DEF WholeInv

\* is kept by every step,
LEMMA WholeStays ==
  ASSUME WholeInv, [Next]_vars
  PROVE  WholeInv'
BY EveryStep, HostedStays, GateStays, ListStays, AccountStays, RunStays DEF WholeInv

\* and makes the setup sound.
LEMMA WholeIsSound ==
  ASSUME WholeInv
  PROVE  SetupIsSound
BY AccountAnswers, StampIsTrue, GateIsServed DEF WholeInv, HostedInv, SetupIsSound

\* The setup accounts for its own text, the version it stamped, the gate and the backend.
THEOREM SetupStaysSound == Spec => []SetupIsSound
<1>1. Init => WholeInv
  BY WholeAtFirst
<1>2. WholeInv /\ [Next]_vars => WholeInv'
  BY WholeStays
<1>3. WholeInv => SetupIsSound
  BY WholeIsSound
<1> QED  BY <1>1, <1>2, <1>3, PTL DEF Spec

-----------------------------------------------------------------------------
\* What a rerun, with nobody's consent, may do to a file.
Same ==
  \/ files' = files
  \/ Path \in migrated
  \/ Op(1) \in {"section", "block"} /\ ~HasSection(files'[Path], Channel)

\* To a shared file that the last complete run has left.
LEMMA RerunOfShared ==
  ASSUME IInv, ListInv, AccountInv, AppendTemplateSection \/ WriteForkBlock, Moves, answer' # "yes",
         NEW p, p = Path, NEW c, c = Channel, SectionDone(p, c, meta.hashes, unrecorded)
  PROVE  Same
<1> DEFINE t == Template(c, version)
           h == HashKey(p, c)
<1>1. /\ todo # <<>> /\ Op(1) \in {"section", "block"} /\ Writers
  BY DEF AppendTemplateSection, WriteForkBlock, Op, Writers
<1>2. /\ p \in SharedPaths /\ c \in Channels
      /\ p \in DOMAIN files /\ files[p] \in Texts
      /\ Own = <<t>> /\ OwnKey = h
  BY <1>1, SharedIs DEF Own, OwnKey, SectionDone
<1>3. version \in Nat /\ Accounts
  BY DEF IInv, AccountInv
<1>4. \/ Absent \/ Created \/ Current \/ (\E text : Replacing(text)) \/ Kept \/ Marked \/ Appended
  BY SectionOutcomes, BlockOutcomes
<1> HIDE DEF t, h
<1>5. At(files[p], Begin(c)) \in Nat /\ At(files[p], End(c)) \in Nat
  <2>1. /\ Len(files[p]) \in Nat /\ At(files[p], Begin(c)) \in 0..Len(files[p])
        /\ At(files[p], End(c)) \in 0..Len(files[p])
    BY <1>2, FirstPlace DEF Texts
  <2> QED  BY <2>1
<1>6. EndFirst(files[p], c) => ~HasSection(files[p], c)
  BY <1>5 DEF EndFirst, HasSection
<1>7. \/ p \in migrated
      \/ /\ HasSection(files[p], c)
         /\ Section(files[p], c) # <<t>> => ~Recorded(h, Section(files[p], c)) /\ (c = "fork" => Stored(h))
      \/ EndFirst(files[p], c)
  BY DEF SectionDone, SectionLeft, Knows, Recorded, Stored, t, h
<1>8. CASE p \in migrated \/ Current \/ Kept \/ Absent \/ Created
  <2>1. ~Absent /\ ~Created
    BY <1>2 DEF Absent, Created, Exists
  <2> QED  BY <1>8, <2>1 DEF Current, Kept, Leaves, Same
<1>9. ASSUME NEW text, Replacing(text), p \notin migrated
      PROVE  Same
  <2>1. /\ text = files[p] /\ HasSection(files[p], c) /\ Section(files[p], c) # <<t>>
        /\ Recorded(h, Section(files[p], c)) \/ (c = "fork" /\ ~Stored(h))
    BY <1>1, <1>2, <1>9 DEF Replacing, Channel, Op
  <2> QED  BY <1>6, <1>7, <1>9, <2>1
<1>10. CASE Marked /\ p \notin migrated
  <2>1. PICK v \in 0..Versions : files[p] = <<Template(c, v)>>
    BY <1>2, <1>3, <1>10, RecordedIs DEF Marked, h
  <2>2. ~HasSection(files[p], c) /\ ~EndFirst(files[p], c)
    BY <1>2, <2>1, NoMarkers, BoundsAssumption
  <2> QED  BY <1>7, <1>10, <2>2
<1>11. CASE Appended /\ p \notin migrated
  <2> DEFINE new == Spliced(files[p], <<t>>, c)
  <2>1. ~HasSection(files[p], c) /\ Writes(new, OwnKey)
    BY <1>2, <1>11 DEF Appended
  <2>2. Extended(files[p], new, c, version)
    BY <1>2, <1>3, <2>1, AppendedPlaces DEF t
  <2>3. new \in Texts
    BY <2>2 DEF Extended
  <2> HIDE DEF new
  <2>4. EndFirst(files[p], c)
    BY <1>7, <1>11, <2>1
  <2>5. EndFirst(new, c)
    BY <1>2, <1>3, <2>1, <2>2, <2>4, OwnSectionExtended
  <2>6. At(new, Begin(c)) \in Nat /\ At(new, End(c)) \in Nat
    <3>1. /\ Len(new) \in Nat /\ At(new, Begin(c)) \in 0..Len(new) /\ At(new, End(c)) \in 0..Len(new)
      BY <2>3, FirstPlace DEF Texts
    <3> QED  BY <3>1
  <2>7. ~HasSection(new, c)
    BY <2>5, <2>6 DEF EndFirst, HasSection
  <2>8. files'[p] = new
    BY <1>2, <2>1, OneWritten DEF Writes
  <2> QED  BY <1>1, <2>7, <2>8 DEF Same
<1> QED  BY <1>4, <1>8, <1>9, <1>10, <1>11

\* To a file of its own.
LEMMA RerunOfWhole ==
  ASSUME IInv, ListInv, AccountInv, WriteTemplateFile \/ WriteForkSkill, Moves, answer' # "yes",
         Done(todo[1], meta.hashes, unrecorded)
  PROVE  files' = files
<1>1. Op(1) \in {"template", "merged", "conventions"}
  BY DEF WriteTemplateFile, WriteForkSkill, Op
<1>2. Rootless \/ Uptodate \/ (\E text : Rewritten(text)) \/ Refused
  BY WholeOutcomes, SkillOutcomes
<1>3. CASE Rootless \/ Uptodate \/ Refused
  BY <1>3 DEF Rootless, Uptodate, Refused, Leaves
<1>4. ASSUME NEW text, Rewritten(text)
      PROVE  FALSE
  <2>1. CASE Op(1) = "conventions"
    <3>1. Exists(Target) /\ SkillLeft(files[Target], Wanted(Target), meta.hashes, TargetKey)
      BY <2>1 DEF Done, Op, Target, TargetKey, Path, Exists
    <3> QED  BY <1>4, <2>1, <3>1 DEF Rewritten, SkillLeft, Knows, Recorded, Stored
  <2>2. CASE Op(1) # "conventions"
    <3>1. Exists(Target) /\ WholeLeft(files[Target], Wanted(Target), meta.hashes, TargetKey, unrecorded)
      BY <1>1, <2>2 DEF Done, WholeDone, Op, Target, TargetKey, Path, Exists
    <3> QED  BY <1>4, <2>2, <3>1 DEF Rewritten, WholeLeft, Knows, Recorded, Stored
  <2> QED  BY <2>1, <2>2
<1> QED  BY <1>2, <1>3, <1>4

\* To a file of hooks or of MCP servers.
LEMMA RerunOfEntries ==
  ASSUME AccountInv, SyncLatHooks \/ RegisterMcpServer, Done(todo[1], meta.hashes, unrecorded)
  PROVE  files' = files
<1>1. CASE SyncLatHooks
  <2>1. /\ Path \in DOMAIN files /\ files[Path] = Keep(files[Path], {User}) \o <<Template("lat", version)>>
    BY <1>1 DEF SyncLatHooks, Doing, Done, Path
  <2>2. files' = WithFile(Path, files[Path])
    BY <1>1, <2>1 DEF SyncLatHooks, Exists
  <2>3. files = [q \in DOMAIN files |-> files[q]]
    BY DEF AccountInv, Accounts
  <2> QED  BY <2>1, <2>2, <2>3, SameFile
<1>2. CASE RegisterMcpServer
  <2>1. Path \in DOMAIN files /\ \E v \in 0..Versions : Contains(files[Path], Template("lat", v))
    BY <1>2 DEF RegisterMcpServer, Doing, Done, Path
  <2> QED  BY <1>2, <2>1 DEF RegisterMcpServer, Exists
<1> QED  BY <1>1, <1>2

\* The step of a rerun.
LEMMA RerunStep ==
  ASSUME WholeInv, [Next]_vars, RunStep, settled \notin {Nobody, Disturbed}, settled' = settled
  PROVE  Same
<1>1. CASE Writers
  <2>1. todo # <<>> /\ Op(1) \in Writing /\ IInv /\ ListInv /\ AccountInv /\ SettledInv
    BY <1>1, WritersAre DEF WholeInv
  <2>2. Moves /\ answer' # "yes"
    BY <1>1, <2>1, WritersMove DEF RunStep, Asks
  <2>3. selected # {} /\ todo[1] \in Plan(selected)
    BY <2>1, StepOfPlan
  <2>4. settled = selected
    BY <2>3, <2>1 DEF ListInv
  <2>5. Done(todo[1], meta.hashes, unrecorded)
    BY <2>1, <2>3, <2>4 DEF SettledInv
  <2>6. CASE AppendTemplateSection \/ WriteForkBlock
    <3>1. PICK p : p = Path
      OBVIOUS
    <3>2. PICK c : c = Channel
      OBVIOUS
    <3>3. SectionDone(p, c, meta.hashes, unrecorded)
      BY <2>5, <2>6, <3>1, <3>2 DEF AppendTemplateSection, WriteForkBlock, Done, Path, Channel
    <3> QED  BY <2>1, <2>2, <2>6, <3>1, <3>2, <3>3, RerunOfShared
  <2>7. CASE WriteTemplateFile \/ WriteForkSkill
    BY <2>1, <2>2, <2>5, <2>7, RerunOfWhole DEF Same
  <2>8. CASE SyncLatHooks \/ RegisterMcpServer
    BY <2>1, <2>5, <2>8, RerunOfEntries DEF Same
  <2> QED  BY <1>1, <2>6, <2>7, <2>8 DEF Writers
<1>2. CASE EditFile \/ CutWhileWriting
  BY <1>2 DEF EditFile, CutWhileWriting
<1>3. CASE ~Writers /\ ~EditFile /\ ~CutWhileWriting
  <2>1. files' = files
    BY <1>3 DEF Next, Writers, StartRun, CreateTree, WriteForkScaffold, SetupEmbeddings, ChooseAgents, OfferRequireMode,
                EnsureGitignored, WriteInitMeta, Cut, Ends, Upgrade, ChangeGit, WipeCache, SetGate, ChangeKey, Reindex, vars, project
  <2> QED  BY <2>1 DEF Same
<1> QED  BY <1>1, <1>2, <1>3

\* All setup steps are idempotent: a run after a complete one for the same agents changes nothing.
THEOREM RerunsAreQuiet == Spec => RerunsChangeNothing
<1>1. Init => WholeInv
  BY WholeAtFirst
<1>2. WholeInv /\ [Next]_vars => WholeInv'
  BY WholeStays
<1>3. WholeInv /\ [Next]_vars =>
        [ RunStep /\ settled \notin {Nobody, Disturbed} /\ settled' = settled =>
            \/ files' = files
            \/ Path \in migrated
            \/ todo[1].op \in {"section", "block"} /\ ~HasSection(files'[Path], Channel) ]_vars
  <2> SUFFICES ASSUME WholeInv, [Next]_vars, RunStep, settled \notin {Nobody, Disturbed}, settled' = settled
               PROVE  \/ files' = files
                      \/ Path \in migrated
                      \/ todo[1].op \in {"section", "block"} /\ ~HasSection(files'[Path], Channel)
    OBVIOUS
  <2>1. Same
    BY RerunStep
  <2> QED  BY <2>1 DEF Same, Op
<1> QED  BY <1>1, <1>2, <1>3, PTL DEF Spec, RerunsChangeNothing
=============================================================================
