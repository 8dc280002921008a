--------------------------- MODULE GitPanelProofs ----------------------------
(***************************************************************************)
(* Theorems about the dashboard's git panel: its types, what an answer     *)
(* says of an entry stays true, and an include tells every entry it lets   *)
(* up.  Nobody waits for anybody in the panel: the proof turns on what a   *)
(* request that was not disturbed has read, and on every writer ending the *)
(* calm of all the others.                                                 *)
(***************************************************************************)
EXTENDS GitPanel, SequenceTheorems, FiniteSetTheorems, TLAPS

(* What the panel assumes of its constants.                                *)
LEMMA Constants ==
  /\ \A b \in Broad : b \subseteq Entries /\ \A e \in Entries : b # {e}
  /\ Rounds \in Nat \ {0} /\ MaxVersion \in Nat \ {0}
  /\ MaxRules \in Nat /\ MaxRequests \in Nat /\ MaxEdits \in Nat /\ MaxFaults \in Nat
  BY GitPanelAssumption

(* A non-empty set of numbers up to n has a largest element.               *)
LEMMA Largest ==
  ASSUME NEW n \in Nat, NEW T, T \subseteq 1..n, T # {}
  PROVE  \E x \in T : \A y \in T : x >= y
<1> DEFINE Above(x) == {y \in T : y > x}
           Sets == {Above(x) : x \in T}
           R == StrictSubsetOrdering(T)
<1>0. \A x \in T : x \in Int
  OBVIOUS
<1>1. \A U \in SUBSET T : IsFiniteSet(U)
  <2>1. IsFiniteSet(1..n)
    BY FS_Interval
  <2>2. \A U \in SUBSET T : U \in SUBSET (1..n)
    OBVIOUS
  <2> QED
    BY <2>1, <2>2, FS_Subset
<1>2. Sets \subseteq FiniteSubsetsOf(T) /\ Sets # {}
  <2>1. \A x \in T : Above(x) \in SUBSET T
    OBVIOUS
  <2> HIDE DEF Above
  <2> QED
    BY ONLY T # {}, <1>1, <2>1 DEF FiniteSubsetsOf
<1>3. IsWellFoundedOn(R, FiniteSubsetsOf(T))
  BY FS_StrictSubsetOrderingWellFounded
<1>4. \E U \in Sets : \A V \in Sets : <<V, U>> \notin R
  <2> HIDE DEF Sets, R
  <2> QED
    BY <1>2, <1>3, WFMin
<1>5. PICK x \in T : \A y \in T : <<Above(y), Above(x)>> \notin R
  BY <1>4
<1>6. ASSUME NEW y \in T, y > x PROVE FALSE
  <2>1. Above(y) \subseteq Above(x) /\ y \in Above(x) /\ y \notin Above(y)
    <3>1. \A z \in T : z > y => z > x
      BY <1>0, <1>6
    <3>2. ~(y > y)
      BY <1>0
    <3> QED
      BY ONLY <1>6, <3>1, <3>2, x \in T, y \in T
  <2> QED
    BY <1>5, <2>1 DEF StrictSubsetOrdering
<1> QED
  BY <1>0, <1>6

(* Max of the community modules finds it.                                  *)
LEMMA MaxIsIn ==
  ASSUME NEW n \in Nat, NEW T, T \subseteq 1..n, T # {}
  PROVE  Max(T) \in T
  BY Largest DEF Max

(* RemoveAt of the community modules takes one element out of a sequence   *)
(* and keeps the others.                                                   *)
LEMMA Removed ==
  ASSUME NEW T, NEW s \in Seq(T), NEW i \in DOMAIN s
  PROVE  /\ RemoveAt(s, i) \in Seq(T)
         /\ \A x \in DOMAIN RemoveAt(s, i) :
              \E j \in DOMAIN s \ {i} : RemoveAt(s, i)[x] = s[j]
         /\ \A j \in DOMAIN s \ {i} :
              \E x \in DOMAIN RemoveAt(s, i) : RemoveAt(s, i)[x] = s[j]
<1> DEFINE u == SubSeq(s, 1, i - 1)
           v == SubSeq(s, i + 1, Len(s))
           r == u \o v
<1>1. Len(s) \in Nat /\ i \in 1..Len(s) /\ \A j \in 1..Len(s) : s[j] \in T
  OBVIOUS
<1>2. /\ u \in Seq(T) /\ Len(u) = i - 1
      /\ \A x \in 1..i - 1 : u[x] = s[x]
  BY <1>1, SubSeqProperties
<1>3. /\ v \in Seq(T) /\ Len(v) = Len(s) - i
      /\ \A x \in 1..Len(s) - i : v[x] = s[x + i]
  BY <1>1, SubSeqProperties
<1> HIDE DEF u, v
<1>4. /\ r \in Seq(T) /\ Len(r) = Len(s) - 1
      /\ \A x \in 1..Len(s) - 1 : r[x] = IF x <= i - 1 THEN u[x] ELSE v[x - (i - 1)]
  <2>1. /\ r \in Seq(T) /\ Len(r) = Len(u) + Len(v)
        /\ \A x \in 1..Len(u) + Len(v) :
             r[x] = IF x <= Len(u) THEN u[x] ELSE v[x - Len(u)]
    BY ONLY <1>2, <1>3, ConcatProperties
  <2>2. Len(u) + Len(v) = Len(s) - 1
    BY <1>1, <1>2, <1>3
  <2> QED
    BY ONLY <1>2, <2>1, <2>2
<1>5. RemoveAt(s, i) = r
  BY DEF RemoveAt, u, v
<1> HIDE DEF r
<1>6. \A x \in 1..Len(s) - 1 : r[x] = IF x <= i - 1 THEN s[x] ELSE s[x + 1]
  <2> TAKE x \in 1..Len(s) - 1
  <2>1. CASE x <= i - 1
    BY ONLY <1>1, <1>2, <1>4, <2>1
  <2>2. CASE x > i - 1
    <3>1. x - (i - 1) \in 1..Len(s) - i /\ x - (i - 1) + i = x + 1
      BY ONLY <1>1, <2>2, x \in 1..Len(s) - 1
    <3>2. r[x] = v[x - (i - 1)]
      BY ONLY <1>1, <1>4, <2>2, x \in 1..Len(s) - 1
    <3>3. v[x - (i - 1)] = s[x - (i - 1) + i]
      BY ONLY <1>3, <3>1
    <3> QED
      BY ONLY <1>1, <2>2, <3>1, <3>2, <3>3, x \in 1..Len(s) - 1
  <2> QED
    BY ONLY <1>1, <2>1, <2>2, x \in 1..Len(s) - 1
<1>7. DOMAIN r = 1..Len(s) - 1 /\ DOMAIN s = 1..Len(s)
  BY <1>4
<1>8. ASSUME NEW x \in DOMAIN r PROVE \E j \in DOMAIN s \ {i} : r[x] = s[j]
  <2>1. CASE x <= i - 1
    BY <1>1, <1>6, <1>7, <2>1
  <2>2. CASE x > i - 1
    BY <1>1, <1>6, <1>7, <2>2
  <2> QED
    BY <1>1, <1>7, <2>1, <2>2
<1>9. ASSUME NEW j \in DOMAIN s \ {i} PROVE \E x \in DOMAIN r : r[x] = s[j]
  <2>1. CASE j < i
    BY <1>1, <1>6, <1>7, <2>1
  <2>2. CASE j > i
    <3>1. j - 1 \in DOMAIN r /\ r[j - 1] = s[j]
      BY <1>1, <1>6, <1>7, <2>2
    <3> QED
      BY <3>1
  <2> QED
    BY <1>1, <1>7, <2>1, <2>2
<1> QED
  BY <1>4, <1>5, <1>8, <1>9

(* What a write of .gitignore leaves when it fails half-way is a file.     *)
LEMMA CutOffs ==
  ASSUME NEW s \in Seq(SUBSET Entries)
  PROVE  /\ CutOff(s) \subseteq Seq(SUBSET Entries)
         /\ {Append(s, c) : c \in CutLines} \subseteq Seq(SUBSET Entries)
<1> DEFINE Begin(n) == SubSeq(s, 1, n)
<1>1. Len(s) \in Nat /\ DOMAIN s = 1..Len(s) /\ \A i \in 1..Len(s) : s[i] \in SUBSET Entries
  OBVIOUS
<1>2. \A n \in 0..Len(s) : Begin(n) \in Seq(SUBSET Entries)
  BY <1>1, SubSeqProperties
<1>3. \A u \in Seq(SUBSET Entries), c \in CutLines : Append(u, c) \in Seq(SUBSET Entries)
  BY DEF CutLines
<1>4. \A n \in DOMAIN s : n - 1 \in 0..Len(s)
  BY <1>1
<1>5. CutOff(s) = {Begin(n) : n \in 0..Len(s)}
                   \cup {Append(Begin(n - 1), c) : n \in DOMAIN s, c \in CutLines}
  BY DEF CutOff
<1> HIDE DEF Begin
<1>6. ASSUME NEW x \in CutOff(s) PROVE x \in Seq(SUBSET Entries)
  <2>1. CASE \E n \in 0..Len(s) : x = Begin(n)
    BY ONLY <1>2, <2>1
  <2>2. CASE \E n \in DOMAIN s, c \in CutLines : x = Append(Begin(n - 1), c)
    <3>1. PICK n \in DOMAIN s, c \in CutLines : x = Append(Begin(n - 1), c)
      BY <2>2
    <3>2. Begin(n - 1) \in Seq(SUBSET Entries)
      BY ONLY <1>2, <1>4, n \in DOMAIN s
    <3> QED
      BY ONLY <1>3, <3>1, <3>2, c \in CutLines
  <2> QED
    BY ONLY <1>5, <2>1, <2>2, x \in CutOff(s)
<1> QED
  BY ONLY <1>3, <1>6, s \in Seq(SUBSET Entries)

(* Hit finds a line of .gitignore that covers an untracked entry.          *)
LEMMA LastHit ==
  ASSUME NEW f \in Entries, rules \in Seq(SUBSET Entries), Hit(f) # 0
  PROVE  /\ Hit(f) \in DOMAIN rules
         /\ index[f] = 0
         /\ f \in rules[Hit(f)]
<1> DEFINE I == {i \in 1..Len(rules) : f \in rules[i]}
<1>1. index[f] = 0 /\ Hit(f) = IF I # {} THEN Max(I) ELSE 0
  BY DEF Hit, SelectLastInSeq
<1> QED
  BY <1>1, Largest DEF Max

(* It finds none only when no line does.                                   *)
LEMMA NoHit ==
  ASSUME NEW f \in Entries, rules \in Seq(SUBSET Entries), Hit(f) = 0, index[f] = 0
  PROVE  \A i \in DOMAIN rules : f \notin rules[i]
<1> DEFINE I == {i \in 1..Len(rules) : f \in rules[i]}
<1>1. Hit(f) = IF I # {} THEN Max(I) ELSE 0
  BY DEF Hit, SelectLastInSeq
<1>2. I # {} => Max(I) \in I
  <2>1. Len(rules) \in Nat /\ I \subseteq 1..Len(rules)
    OBVIOUS
  <2> HIDE DEF I
  <2> QED
    BY <2>1, MaxIsIn
<1>3. 0 \notin I /\ \A i \in DOMAIN rules : f \in rules[i] => i \in I
  OBVIOUS
<1> HIDE DEF I
<1> QED
  BY <1>1, <1>2, <1>3

-----------------------------------------------------------------------------
(* The inductive invariant.                                                *)

Places == {"idle", "read", "list", "uncache", "append", "blind", "check", "edit",
           "write", "go", "reset", "send", "answered"}

(* What a request carries.  An include that is about to delete a line has  *)
(* a line that covers its entry, and read the file with it at that place.  *)
Shaped(r) ==
  /\ {"op", "at"} \subseteq DOMAIN r /\ r.at \in Places
  /\ r.op = "none" => r.at = "idle"
  /\ r.op # "none" => {"ok", "alone"} \subseteq DOMAIN r
  /\ r.op \in {"exclude", "include"} => "e" \in DOMAIN r /\ r.e \in Entries
  /\ r.op = "include" =>
       /\ {"listed", "freed", "rounds", "hit", "pattern", "also", "lines"}
            \subseteq DOMAIN r
       /\ r.listed \subseteq Entries /\ r.rounds \in 0..Rounds
       /\ r.at \in {"edit", "write"} =>
            r.rounds < Rounds /\ r.e \in r.pattern
       /\ r.at = "write" =>
            /\ r.lines \in Seq(SUBSET Entries)
            /\ r.hit \in DOMAIN r.lines /\ r.lines[r.hit] = r.pattern

(* What a request nobody disturbed may rely on.  The entry to exclude has  *)
(* left the index, the entries listed for an include are out of it, and a  *)
(* listed entry is told, or about to be, unless a line stays that covers   *)
(* it.                                                                     *)
Covered(f, hit) == f \in outside \/ \E i \in DOMAIN rules \ {hit} : f \in rules[i]
Calm(r) ==
  /\ r.op = "exclude" /\ r.at = "append" => index[r.e] = 0
  /\ r.op = "include" /\ r.at \in {"check", "edit", "write"} =>
       /\ r.e \in r.listed
       /\ \A f \in r.listed : index[f] = 0
  /\ r.op = "include" /\ r.at = "check" =>
       \A f \in r.listed \ {r.e} : Ignored(f) \/ f \in r.freed
  /\ r.op = "include" /\ r.at = "edit" =>
       \A f \in r.listed \ {r.e} : Covered(f, r.hit) \/ f \in r.freed \cup r.also
  /\ r.op = "include" /\ r.at = "write" =>
       /\ rules = r.lines
       /\ \A f \in r.listed \ {r.e} : Covered(f, r.hit) \/ f \in r.freed
Alone(r) == r.at \notin {"idle", "answered"} /\ r.alone

Versions ==
  /\ disk \in [Entries -> 0..MaxVersion] /\ index \in [Entries -> 0..MaxVersion]
  /\ head \in [Entries -> 0..MaxVersion]
Flags ==
  /\ born \in BOOLEAN /\ remote \in BOOLEAN /\ ahead \in BOOLEAN /\ locked \in BOOLEAN
  /\ ahead => born
  /\ ~born => \A e \in Entries : head[e] = 0
Lines ==
  /\ rules \in Seq(SUBSET Entries) /\ outside \subseteq Entries
  /\ word \in [Entries -> {"none", "in", "out"}]
Counts == asked \in 0..MaxRequests /\ edits \in 0..MaxEdits /\ faults \in 0..MaxFaults
Shapes == DOMAIN req = Threads /\ \A t \in Threads : Shaped(req[t])
Calms == \A t \in Threads : Alone(req[t]) => Calm(req[t])

(* An excluded entry keeps its own line, an included one has none left.    *)
Words ==
  \A e \in Entries :
    /\ word[e] = "out" => index[e] = 0 /\ \E i \in DOMAIN rules : rules[i] = Line(e)
    /\ word[e] = "in" => ~Ignored(e)

PanelInv == Versions /\ Flags /\ Lines /\ Counts /\ Shapes /\ Calms /\ Words

(* The invariant gives the types,                                          *)
LEMMA PanelTypes == PanelInv => TypeOK
  BY DEF PanelInv, Versions, Flags, Lines, Counts, Shapes, Shaped, Places, TypeOK

(* and that the files on disk stand by the answers.                        *)
LEMMA PanelHolds == PanelInv => AnswersHold
  BY DEF PanelInv, Versions, Lines, Words, AnswersHold, GoesUp, Ignored, Line

(* A write of .gitignore that failed half-way takes all words back.        *)
LEMMA Spoiled ==
  ASSUME Lines, Words, NEW t, NEW left, left \subseteq Seq(SUBSET Entries),
         Spoils(t, left)
  PROVE  Lines' /\ Words'
<1>1. UNCHANGED <<index, outside>> /\ rules' \in {rules} \cup left
  BY DEF Spoils, repo
<1>2. word' = IF rules' = rules THEN word ELSE [e \in Entries |-> "none"]
  BY DEF Spoils
<1>3. CASE rules' = rules
  BY <1>1, <1>2, <1>3 DEF Lines, Words, Ignored
<1>4. CASE rules' # rules
  BY <1>1, <1>2, <1>4 DEF Lines, Words
<1> QED
  BY <1>3, <1>4

-----------------------------------------------------------------------------
(* How a request moves.                                                    *)

(* Going on changes the place and nothing else, an answer the verdict too. *)
LEMMA Moved ==
  ASSUME NEW t \in Threads, Shaped(req[t]), NEW pc, NEW ok
  PROVE  /\ DOMAIN To(t, pc) = DOMAIN req[t]
         /\ To(t, pc).at = pc
         /\ \A x \in DOMAIN req[t] \ {"at"} : To(t, pc)[x] = req[t][x]
         /\ DOMAIN Answer(t, ok) = DOMAIN req[t]
         /\ Answer(t, ok).at = "answered"
         /\ \A x \in DOMAIN req[t] \ {"at", "ok"} : Answer(t, ok)[x] = req[t][x]
  BY DEF Shaped, To, Answer

(* An answer ends what a request may rely on.                              *)
LEMMA AnswerShaped ==
  ASSUME NEW t \in Threads, Shaped(req[t]), Running(t), NEW ok
  PROVE  Shaped(Answer(t, ok)) /\ ~Alone(Answer(t, ok))
  BY Moved DEF Shaped, Running, Places, Alone

(* Going on keeps the shape, unless a line is about to be deleted.         *)
LEMMA ToShaped ==
  ASSUME NEW t \in Threads, Shaped(req[t]), Running(t), NEW pc \in Places,
         req[t].op = "include" => pc \notin {"edit", "write"}
  PROVE  Shaped(To(t, pc))
  BY Moved DEF Shaped, Running, Places

(* What a step that is thread t's leaves of the others.                    *)
LEMMA Disturbed ==
  ASSUME NEW u \in Threads, Shaped(req[u]), Running(u)
  PROVE  Shaped([req[u] EXCEPT !.alone = FALSE]) /\ ~Alone([req[u] EXCEPT !.alone = FALSE])
<1> DEFINE r == [req[u] EXCEPT !.alone = FALSE]
<1>1. "alone" \in DOMAIN req[u]
  BY DEF Shaped, Running
<1>2. /\ DOMAIN r = DOMAIN req[u] /\ r.alone = FALSE
      /\ \A x \in DOMAIN req[u] \ {"alone"} : r[x] = req[u][x]
  BY <1>1
<1> HIDE DEF r
<1>3. Shaped(r)
  BY <1>2 DEF Shaped
<1>4. ~Alone(r)
  BY <1>2 DEF Alone
<1> QED
  BY <1>3, <1>4 DEF r

(* A thread that goes on leaves the others what they rely on; one that     *)
(* writes takes it from all of them.                                       *)
LEMMA Stepped ==
  ASSUME Shapes, Calms, NEW t \in Threads, NEW r, Shaped(r),
         Alone(r) => Calm(r)',
         \/ Goes(t, r) /\ UNCHANGED <<index, rules, outside>>
         \/ Writes(t, r)
  PROVE  Shapes' /\ Calms'
<1>1. CASE Goes(t, r) /\ UNCHANGED <<index, rules, outside>>
  <2>1. DOMAIN req' = Threads /\ \A u \in Threads : req'[u] = IF u = t THEN r ELSE req[u]
    BY <1>1 DEF Shapes, Goes
  <2>2. ASSUME NEW u \in Threads \ {t}, Alone(req[u]) PROVE Calm(req[u])'
    BY <1>1, <2>1, <2>2 DEF Calms, Calm, Covered, Ignored
  <2> QED
    BY <2>1, <2>2 DEF Shapes, Calms
<1>2. CASE Writes(t, r)
  <2>1. /\ DOMAIN req' = Threads /\ req'[t] = r
        /\ \A u \in Threads \ {t} :
             req'[u] = IF Running(u) THEN [req[u] EXCEPT !.alone = FALSE] ELSE req[u]
    BY <1>2 DEF Writes, Disturbing
  <2>2. \A u \in Threads \ {t} : Shaped(req'[u]) /\ ~Alone(req'[u])
    <3> TAKE u \in Threads \ {t}
    <3>1. CASE Running(u)
      BY <2>1, <3>1, Disturbed DEF Shapes
    <3>2. CASE ~Running(u)
      BY <2>1, <3>2 DEF Shapes, Running, Alone
    <3> QED
      BY <3>1, <3>2
  <2> QED
    BY <2>1, <2>2 DEF Shapes, Calms
<1> QED
  BY <1>1, <1>2

(* A step of nobody's thread disturbs all.                                 *)
LEMMA AllDisturbed ==
  ASSUME Shapes, req' = Disturbing(Threads)
  PROVE  Shapes' /\ Calms'
<1>1. /\ DOMAIN req' = Threads
      /\ \A u \in Threads :
           req'[u] = IF Running(u) THEN [req[u] EXCEPT !.alone = FALSE] ELSE req[u]
  BY DEF Disturbing
<1>2. ASSUME NEW u \in Threads PROVE Shaped(req'[u]) /\ ~Alone(req'[u])
  <2>1. CASE Running(u)
    BY <1>1, <2>1, Disturbed DEF Shapes
  <2>2. CASE ~Running(u)
    BY <1>1, <2>2 DEF Shapes, Running, Alone
  <2> QED
    BY <2>1, <2>2
<1> QED
  BY <1>1, <1>2 DEF Shapes, Calms

-----------------------------------------------------------------------------
(* Requests keep their shape, and what they may rely on.                   *)

(* A refusal or an answer of thread t.                                     *)
LEMMA Refused ==
  ASSUME Shapes, Calms, NEW t \in Threads, Running(t), NEW ok,
         Goes(t, Answer(t, ok)) /\ UNCHANGED <<index, rules, outside>>
  PROVE  Shapes' /\ Calms'
<1>1. Shaped(Answer(t, ok)) /\ ~Alone(Answer(t, ok))
  BY AnswerShaped DEF Shapes
<1> QED
  BY <1>1, Stepped

(* An answer of thread t that changes the repository.                      *)
LEMMA Answered ==
  ASSUME Shapes, Calms, NEW t \in Threads, Running(t), NEW ok,
         Writes(t, Answer(t, ok))
  PROVE  Shapes' /\ Calms'
<1>1. Shaped(Answer(t, ok)) /\ ~Alone(Answer(t, ok))
  BY AnswerShaped DEF Shapes
<1> QED
  BY <1>1, Stepped

(* A thread that goes on to a place where it relies on nothing.            *)
LEMMA GoesOn ==
  ASSUME Shapes, Calms, NEW t \in Threads, Running(t), NEW pc \in Places,
         req[t].op = "include" => pc \notin {"check", "edit", "write"},
         req[t].op = "exclude" => pc # "append",
         Goes(t, To(t, pc)) /\ UNCHANGED <<index, rules, outside>>
  PROVE  Shapes' /\ Calms'
<1>1. PICK r : r = To(t, pc)
  OBVIOUS
<1>2. Shaped(r)
  BY <1>1, ToShaped DEF Shapes
<1>3. r.at = pc /\ r.op = req[t].op
  BY <1>1, Moved DEF Shapes, Shaped
<1>4. Calm(r)'
  BY <1>3 DEF Calm
<1> QED
  BY <1>1, <1>2, <1>4, Stepped

(* An exclude that found its entry out of the index goes on to its line.   *)
LEMMA Appends ==
  ASSUME Shapes, Calms, NEW t \in Threads, Running(t), req[t].op = "exclude",
         index[req[t].e] = 0, Goes(t, To(t, "append")),
         UNCHANGED <<index, rules, outside>>
  PROVE  Shapes' /\ Calms'
<1>0. Shaped(req[t])
  BY DEF Shapes
<1>1. PICK r : r = To(t, "append")
  OBVIOUS
<1>2. Shaped(r)
  BY <1>0, <1>1, ToShaped DEF Places
<1>3. r.at = "append" /\ r.op = "exclude" /\ r.e = req[t].e
  BY <1>0, <1>1, Moved DEF Shaped
<1>4. Calm(r)'
  BY <1>3 DEF Calm
<1> QED
  BY <1>1, <1>2, <1>4, Stepped

(* Every step of thread t keeps the shapes and what the calm may rely on.  *)
LEMMA RequestStep ==
  ASSUME Versions, Lines, Shapes, Calms, NEW t \in Threads, Ask(t) \/ Step(t)
  PROVE  Shapes' /\ Calms'
<1>0. Shaped(req[t]) /\ (Alone(req[t]) => Calm(req[t]))
  BY DEF Shapes, Calms
<1>1. CASE Ask(t)
  <2>1. PICK r : Goes(t, r) /\
          \/ \E op \in {"stage", "unstage", "commit", "push", "remote"} :
               r = [op |-> op, at |-> "go", ok |-> FALSE, alone |-> TRUE,
                    unborn |-> FALSE]
          \/ \E e \in Entries :
               r = [op |-> "exclude", at |-> "read", e |-> e, ok |-> FALSE,
                    alone |-> TRUE]
          \/ \E e \in Entries :
               r = [op |-> "include", at |-> "list", e |-> e, ok |-> FALSE,
                    alone |-> TRUE, listed |-> {}, freed |-> {}, rounds |-> 0,
                    hit |-> 0, pattern |-> {}, also |-> {}, lines |-> <<>>]
    BY <1>1 DEF Ask
  <2>2. Shaped(r)
    BY <2>1, Constants DEF Shaped, Places
  <2>3. Calm(r)'
    BY <2>1 DEF Calm
  <2> QED
    BY <1>1, <2>1, <2>2, <2>3, Stepped DEF Ask, repo
<1>2. CASE ExcludeReads(t)
  BY <1>2, Refused, GoesOn DEF ExcludeReads, At, Running, Places, repo
<1>3. CASE ExcludeLists(t)
  <2>1. Running(t) /\ UNCHANGED <<index, rules, outside>> /\ req[t].op = "exclude"
    BY <1>3 DEF ExcludeLists, At, Running, repo
  <2>2. CASE Goes(t, To(t, "append")) /\ index[req[t].e] = 0
    BY <2>1, <2>2, Appends
  <2>3. CASE Goes(t, To(t, "uncache"))
    BY <2>1, <2>3, GoesOn DEF Places
  <2>4. CASE Goes(t, Answer(t, FALSE))
    BY <2>1, <2>4, Refused
  <2> QED
    BY <1>3, <2>2, <2>3, <2>4 DEF ExcludeLists
<1>4. CASE Uncache(t)
  <2>1. Running(t) /\ req[t].op = "exclude" /\ UNCHANGED outside
    BY <1>4 DEF Uncache, At, Running
  <2>2. CASE /\ index' = [index EXCEPT ![req[t].e] = 0]
             /\ Writes(t, To(t, "append"))
    <3>1. PICK r : r = To(t, "append")
      OBVIOUS
    <3>2. Shaped(r)
      BY <1>0, <2>1, <3>1, ToShaped DEF Places
    <3>3. r.at = "append" /\ r.op = "exclude" /\ r.e = req[t].e
      BY <1>0, <2>1, <3>1, Moved DEF Shaped
    <3>4. Calm(r)'
      BY <1>0, <2>1, <2>2, <3>3 DEF Calm, Shaped, Versions
    <3> QED
      BY <2>2, <3>1, <3>2, <3>4, Stepped
  <2>3. CASE Refuse(t) /\ UNCHANGED index
    BY <2>1, <2>3, Refused DEF Refuse
  <2> QED
    BY <1>4, <2>2, <2>3 DEF Uncache, Refuse
<1>5. CASE AddLine(t)
  <2>1. Running(t) /\ UNCHANGED outside
    BY <1>5 DEF AddLine, Spoils, At, Running, repo
  <2>2. CASE Writes(t, Answer(t, TRUE))
    BY <2>1, <2>2, Answered
  <2>3. CASE Writes(t, Answer(t, FALSE))
    BY <2>1, <2>3, Answered
  <2> QED
    BY <1>5, <2>2, <2>3 DEF AddLine, Spoils
<1>6. CASE IncludeLists(t)
  <2>1. Running(t) /\ UNCHANGED <<index, rules, outside>> /\ req[t].op = "include"
    BY <1>6 DEF IncludeLists, Refuse, At, Running, repo
  <2>2. CASE /\ NotUp(req[t].e)
             /\ Goes(t, [To(t, "check") EXCEPT !.listed = {f \in Entries : NotUp(f)}])
    <3>1. PICK r : r = [To(t, "check") EXCEPT !.listed = {f \in Entries : NotUp(f)}]
      OBVIOUS
    <3>2. /\ DOMAIN r = DOMAIN req[t] /\ r.at = "check"
          /\ r.listed = {f \in Entries : NotUp(f)}
          /\ \A x \in DOMAIN req[t] \ {"at", "listed"} : r[x] = req[t][x]
      BY <1>0, <2>1, <3>1 DEF Shaped, To
    <3>3. Shaped(r)
      BY <1>0, <2>1, <3>2 DEF Shaped, Places
    <3>4. Calm(r)'
      BY <1>0, <2>1, <2>2, <3>2 DEF Calm, Shaped, NotUp, Ignored
    <3> QED
      BY <2>1, <2>2, <3>1, <3>3, <3>4, Stepped
  <2>3. CASE Goes(t, Answer(t, FALSE))
    BY <2>1, <2>3, Refused
  <2> QED
    BY <1>6, <2>2, <2>3 DEF IncludeLists, Refuse
<1>7. CASE IncludeChecks(t)
  <2>1. Running(t) /\ UNCHANGED <<index, rules, outside>> /\ At(t, "include", "check")
    BY <1>7 DEF IncludeChecks, Refuse, At, Running
  <2>2. CASE /\ req[t].rounds < Rounds /\ Hit(req[t].e) # 0
             /\ Goes(t, [To(t, "edit") EXCEPT
                  !.hit = Hit(req[t].e), !.pattern = rules[Hit(req[t].e)],
                  !.also = {f \in req[t].listed \ {req[t].e} : Hit(f) = Hit(req[t].e)}])
    <3> DEFINE e == req[t].e
               also == {f \in req[t].listed \ {e} : Hit(f) = Hit(e)}
    <3>1. PICK r : r = [To(t, "edit") EXCEPT
                          !.hit = Hit(e), !.pattern = rules[Hit(e)], !.also = also]
      OBVIOUS
    <3>2. /\ DOMAIN r = DOMAIN req[t] /\ r.at = "edit" /\ r.hit = Hit(e)
          /\ r.pattern = rules[Hit(e)] /\ r.also = also
          /\ \A x \in DOMAIN req[t] \ {"at", "hit", "pattern", "also"} : r[x] = req[t][x]
      BY <1>0, <2>1, <3>1 DEF Shaped, To, At
    <3>3. e \in Entries /\ Hit(e) \in DOMAIN rules /\ e \in rules[Hit(e)]
      BY <1>0, <2>1, <2>2, LastHit DEF Shaped, At, Lines
    <3>4. Shaped(r)
      BY <1>0, <2>1, <2>2, <3>2, <3>3 DEF Shaped, Places, At
    <3>5. ASSUME Alone(r) PROVE Calm(r)'
      <4>1. /\ r.op = "include" /\ r.e = e /\ r.listed = req[t].listed
            /\ r.freed = req[t].freed /\ r.alone = req[t].alone
        BY <1>0, <2>1, <3>2 DEF Shaped, At
      <4>2. Calm(req[t])
        BY <1>0, <2>1, <3>5, <4>1 DEF Alone, At
      <4>3. ASSUME NEW f \in req[t].listed \ {e}
            PROVE  Covered(f, Hit(e)) \/ f \in req[t].freed \cup also
        <5>1. f \in Entries /\ index[f] = 0
          BY <1>0, <2>1, <4>2, <4>3 DEF Shaped, At, Calm
        <5>2. CASE Hit(f) = Hit(e)
          BY <4>3, <5>2
        <5>3. CASE Hit(f) # 0 /\ Hit(f) # Hit(e)
          BY <5>1, <5>3, LastHit DEF Covered, Lines
        <5>4. CASE Hit(f) = 0
          <6>1. \A i \in DOMAIN rules : f \notin rules[i]
            BY <5>1, <5>4, NoHit DEF Lines
          <6> QED
            BY <2>1, <4>2, <4>3, <6>1 DEF Calm, At, Ignored, Covered
        <5> QED
          BY <5>2, <5>3, <5>4
      <4>4. \A f \in r.listed \ {r.e} : Covered(f, r.hit)' \/ f \in r.freed \cup r.also
        BY <2>1, <3>2, <4>1, <4>3 DEF Covered
      <4>5. r.e \in r.listed /\ \A f \in r.listed : index'[f] = 0
        BY <2>1, <4>1, <4>2 DEF Calm, At
      <4> QED
        BY <3>2, <4>4, <4>5 DEF Calm
    <3> QED
      BY <2>1, <2>2, <3>1, <3>4, <3>5, Stepped
  <2>3. CASE Goes(t, Answer(t, FALSE)) \/ Goes(t, Answer(t, TRUE))
    BY <2>1, <2>3, Refused
  <2> QED
    BY <1>7, <2>2, <2>3 DEF IncludeChecks, Refuse
<1>8. CASE IncludeBlind(t)
  BY <1>8, Refused DEF IncludeBlind, At, Running, repo
<1>9. CASE IncludeReads(t)
  <2>1. Running(t) /\ UNCHANGED <<index, rules, outside>> /\ At(t, "include", "edit")
    BY <1>9 DEF IncludeReads, repo, At, Running
  <2>2. CASE /\ req[t].hit \in DOMAIN rules /\ rules[req[t].hit] = req[t].pattern
             /\ Goes(t, [To(t, "write") EXCEPT !.lines = rules,
                                               !.freed = @ \cup req[t].also])
    <3> DEFINE freed == req[t].freed \cup req[t].also
    <3>1. PICK r : r = [To(t, "write") EXCEPT !.lines = rules, !.freed = freed]
      OBVIOUS
    <3>2. /\ DOMAIN r = DOMAIN req[t] /\ r.at = "write" /\ r.lines = rules
          /\ r.freed = freed
          /\ \A x \in DOMAIN req[t] \ {"at", "lines", "freed"} : r[x] = req[t][x]
      BY <1>0, <2>1, <3>1 DEF Shaped, To, At
    <3>3. Goes(t, r)
      BY <1>0, <2>1, <2>2, <3>1 DEF Shaped, To, At
    <3>4. Shaped(r)
      BY <1>0, <2>1, <2>2, <3>2 DEF Shaped, Places, At, Lines
    <3>5. ASSUME Alone(r) PROVE Calm(r)'
      <4>1. /\ r.op = "include" /\ r.e = req[t].e /\ r.listed = req[t].listed
            /\ r.hit = req[t].hit /\ r.alone = req[t].alone
        BY <1>0, <2>1, <3>2 DEF Shaped, At
      <4>2. Calm(req[t])
        BY <1>0, <2>1, <3>5, <4>1 DEF Alone, At
      <4>3. \A f \in r.listed \ {r.e} : Covered(f, r.hit)' \/ f \in r.freed
        BY <2>1, <3>2, <4>1, <4>2 DEF Calm, Covered, At
      <4> QED
        BY <2>1, <3>2, <4>1, <4>2, <4>3 DEF Calm, At
    <3> QED
      BY <2>1, <3>3, <3>4, <3>5, Stepped
  <2>3. CASE Goes(t, Answer(t, FALSE))
    BY <2>1, <2>3, Refused
  <2> QED
    BY <1>9, <2>2, <2>3 DEF IncludeReads
<1>10. CASE IncludeWrites(t)
  <2>1. Running(t) /\ UNCHANGED <<index, outside>> /\ At(t, "include", "write")
    BY <1>10 DEF IncludeWrites, Spoils, At, Running, repo
  <2>2. CASE /\ rules' = RemoveAt(req[t].lines, req[t].hit)
             /\ Writes(t, [To(t, "check") EXCEPT !.rounds = @ + 1])
    <3>1. PICK r : r = [To(t, "check") EXCEPT !.rounds = req[t].rounds + 1]
      OBVIOUS
    <3>2. /\ DOMAIN r = DOMAIN req[t] /\ r.at = "check" /\ r.rounds = req[t].rounds + 1
          /\ \A x \in DOMAIN req[t] \ {"at", "rounds"} : r[x] = req[t][x]
      BY <1>0, <2>1, <3>1 DEF Shaped, To, At
    <3>3. Writes(t, r)
      BY <1>0, <2>1, <2>2, <3>1 DEF Shaped, To, At
    <3>4. Shaped(r)
      <4>1. r.rounds \in 0..Rounds
        BY <1>0, <2>1, <3>2, Constants DEF Shaped, At
      <4> QED
        BY <1>0, <2>1, <3>2, <4>1 DEF Shaped, Places, At
    <3>5. ASSUME Alone(r) PROVE Calm(r)'
      <4>1. /\ r.op = "include" /\ r.e = req[t].e /\ r.listed = req[t].listed
            /\ r.freed = req[t].freed /\ r.alone = req[t].alone
        BY <1>0, <2>1, <3>2 DEF Shaped, At
      <4>2. Calm(req[t])
        BY <1>0, <2>1, <3>5, <4>1 DEF Alone, At
      <4>3. \A j \in DOMAIN rules \ {req[t].hit} : \E i \in DOMAIN rules' : rules'[i] = rules[j]
        BY <1>0, <2>1, <2>2, <4>2, Removed DEF Shaped, At, Calm
      <4>4. \A f \in r.listed \ {r.e} : Ignored(f)' \/ f \in r.freed
        BY <2>1, <4>1, <4>2, <4>3 DEF Calm, Covered, Ignored, At
      <4> QED
        BY <2>1, <3>2, <4>1, <4>2, <4>4 DEF Calm, At
    <3> QED
      BY <3>3, <3>4, <3>5, Stepped
  <2>3. CASE Writes(t, Answer(t, FALSE))
    BY <2>1, <2>3, Answered
  <2> QED
    BY <1>10, <2>2, <2>3 DEF IncludeWrites, Spoils
<1>11. CASE Stage(t)
  <2>1. Running(t) /\ UNCHANGED outside
    BY <1>11 DEF Stage, At, Running
  <2> QED
    BY <1>11, <2>1, Answered, Refused DEF Stage, Refuse
<1>12. CASE UnstageLooks(t)
  <2>1. Running(t) /\ UNCHANGED <<index, rules, outside>> /\ req[t].op = "unstage"
    BY <1>12 DEF UnstageLooks, At, Running, repo
  <2>2. CASE \E unborn \in BOOLEAN : Goes(t, [To(t, "reset") EXCEPT !.unborn = unborn])
    <3>1. PICK r : /\ Goes(t, r)
                   /\ \E unborn \in BOOLEAN : r = [To(t, "reset") EXCEPT !.unborn = unborn]
      BY <2>2
    <3>2. /\ DOMAIN r = DOMAIN req[t] /\ r.at = "reset"
          /\ \A x \in DOMAIN req[t] \ {"at", "unborn"} : r[x] = req[t][x]
      BY <1>0, <3>1 DEF Shaped, To
    <3>3. Shaped(r) /\ r.op = "unstage"
      BY <1>0, <2>1, <3>2 DEF Shaped, Places
    <3>4. Calm(r)'
      BY <3>3 DEF Calm
    <3> QED
      BY <2>1, <3>1, <3>3, <3>4, Stepped
  <2>3. CASE Goes(t, Answer(t, TRUE))
    BY <2>1, <2>3, Refused
  <2> QED
    BY <1>12, <2>2, <2>3 DEF UnstageLooks
<1>13. CASE UnstageResets(t)
  <2>1. Running(t) /\ UNCHANGED outside
    BY <1>13 DEF UnstageResets, At, Running
  <2> QED
    BY <1>13, <2>1, Answered, Refused DEF UnstageResets, Refuse
<1>14. CASE CommitLooks(t)
  BY <1>14, Refused, GoesOn DEF CommitLooks, At, Running, Places, repo
<1>15. CASE CommitWrites(t)
  <2>1. Running(t) /\ UNCHANGED outside
    BY <1>15 DEF CommitWrites, At, Running
  <2> QED
    BY <1>15, <2>1, Answered, Refused DEF CommitWrites, Refuse
<1>16. CASE PushLooks(t)
  BY <1>16, Refused, GoesOn DEF PushLooks, At, Running, Places, repo
<1>17. CASE PushSends(t)
  BY <1>17, Refused DEF PushSends, At, Running, repo
<1>18. CASE RemoteSet(t)
  BY <1>18, Refused DEF RemoteSet, At, Running, repo
<1>19. CASE ExcludeBlind(t)
  <2>1. Running(t) /\ UNCHANGED <<index, rules, outside>> /\ req[t].op = "exclude"
    BY <1>19 DEF ExcludeBlind, At, Running, repo
  <2>2. CASE Goes(t, To(t, "append")) /\ index[req[t].e] = 0
    BY <2>1, <2>2, Appends
  <2>3. CASE Goes(t, To(t, "uncache")) \/ Goes(t, To(t, "blind"))
    BY <2>1, <2>3, GoesOn DEF Places
  <2>4. CASE Goes(t, Answer(t, FALSE))
    BY <2>1, <2>4, Refused
  <2> QED
    BY <1>19, <2>2, <2>3, <2>4 DEF ExcludeBlind
<1> QED
  BY <1>1, <1>2, <1>3, <1>4, <1>5, <1>6, <1>7, <1>8, <1>9, <1>10, <1>11, <1>12,
     <1>13, <1>14, <1>15, <1>16, <1>17, <1>18, <1>19 DEF Step

-----------------------------------------------------------------------------
(* The rest of the invariant.                                              *)

(* Files, index and head keep to their versions.                           *)
LEMMA VersionsStep ==
  ASSUME Versions, Shapes, Next
  PROVE  Versions'
<1> USE DEF Versions
<1>1. ASSUME NEW t \in Threads, Ask(t) PROVE Versions'
  BY <1>1 DEF Ask, repo
<1>2. ASSUME NEW t \in Threads, Uncache(t) PROVE Versions'
  <2>1. /\ disk' = disk /\ head' = head
        /\ index' = index \/ index' = [index EXCEPT ![req[t].e] = 0]
    BY <1>2 DEF Uncache, Refuse
  <2> QED
    BY <2>1, Constants
<1>3. ASSUME NEW t \in Threads, AddLine(t) PROVE Versions'
  BY <1>3 DEF AddLine, Spoils, repo
<1>4. ASSUME NEW t \in Threads, Stage(t) PROVE Versions'
  <2>1. disk' = disk /\ head' = head /\
          (index' = index \/ index' = [e \in Entries |-> IF GoesUp(e) THEN disk[e] ELSE 0])
    BY <1>4 DEF Stage, Refuse
  <2> QED
    BY <2>1, Constants
<1>5. ASSUME NEW t \in Threads, UnstageResets(t) PROVE Versions'
  <2>1. disk' = disk /\ head' = head /\
          (index' = index \/ index' = head \/ index' = [e \in Entries |-> 0])
    BY <1>5 DEF UnstageResets, Refuse
  <2> QED
    BY <2>1, Constants
<1>6. ASSUME NEW t \in Threads, CommitWrites(t) PROVE Versions'
  BY <1>6 DEF CommitWrites, Refuse
<1>7. ASSUME NEW t \in Threads, Step(t), ~Uncache(t), ~AddLine(t), ~Stage(t),
             ~UnstageResets(t), ~CommitWrites(t)
      PROVE Versions'
  BY <1>7 DEF Step, ExcludeReads, ExcludeLists, ExcludeBlind, IncludeLists,
              IncludeChecks, IncludeBlind, IncludeReads, IncludeWrites, UnstageLooks,
              CommitLooks, PushLooks, PushSends, RemoteSet, Refuse, Spoils, repo
<1>8. CASE Edit
  BY <1>8 DEF Edit
<1>9. CASE ForceAdd
  BY <1>9 DEF ForceAdd
<1>10. CASE EditRules \/ Unlock
  BY <1>10 DEF EditRules, Unlock, repo
<1> QED
  BY <1>1, <1>2, <1>3, <1>4, <1>5, <1>6, <1>7, <1>8, <1>9, <1>10 DEF Next

(* Nothing is committed before there is a commit, or ahead of a remote.    *)
LEMMA FlagsStep ==
  ASSUME Flags, Next
  PROVE  Flags'
<1>1. ASSUME UNCHANGED <<born, head, remote, ahead>>, locked' \in BOOLEAN PROVE Flags'
  BY <1>1 DEF Flags
<1>2. ASSUME Works \/ Breaks \/ UNCHANGED locked PROVE locked' \in BOOLEAN
  BY <1>2 DEF Works, Breaks, git, Flags
<1>3. ASSUME NEW t \in Threads, Ask(t) PROVE Flags'
  BY <1>1, <1>2, <1>3 DEF Ask, repo, origin, git
<1>4. ASSUME NEW t \in Threads, CommitWrites(t) PROVE Flags'
  <2>1. locked' \in BOOLEAN
    BY <1>2, <1>4 DEF CommitWrites, git
  <2>2. CASE Refuse(t) /\ UNCHANGED ahead
    BY <1>1, <1>4, <2>1, <2>2 DEF CommitWrites, Refuse
  <2>3. CASE head' = index /\ born' = TRUE /\ ahead' = TRUE
    <3>1. remote' = remote
      BY <1>4 DEF CommitWrites
    <3> QED
      BY <2>1, <2>3, <3>1 DEF Flags
  <2> QED
    BY <1>4, <2>2, <2>3 DEF CommitWrites
<1>5. ASSUME NEW t \in Threads, PushSends(t) PROVE Flags'
  BY <1>5 DEF PushSends, repo, git, Flags
<1>6. ASSUME NEW t \in Threads, RemoteSet(t) PROVE Flags'
  BY <1>6 DEF RemoteSet, repo, git, Flags
<1>7. ASSUME NEW t \in Threads, Step(t), ~CommitWrites(t), ~PushSends(t), ~RemoteSet(t)
      PROVE  Flags'
  <2>1. born' = born
    BY <1>7 DEF Step, ExcludeReads, ExcludeLists, ExcludeBlind, Uncache, AddLine,
                IncludeLists, IncludeChecks, IncludeBlind, IncludeReads, IncludeWrites,
                Stage, UnstageLooks, UnstageResets, CommitLooks, PushLooks, Refuse,
                Spoils, repo
  <2>2. head' = head
    BY <1>7 DEF Step, ExcludeReads, ExcludeLists, ExcludeBlind, Uncache, AddLine,
                IncludeLists, IncludeChecks, IncludeBlind, IncludeReads, IncludeWrites,
                Stage, UnstageLooks, UnstageResets, CommitLooks, PushLooks, Refuse,
                Spoils, repo
  <2>3. UNCHANGED <<remote, ahead>>
    BY <1>7 DEF Step, ExcludeReads, ExcludeLists, ExcludeBlind, Uncache, AddLine,
                IncludeLists, IncludeChecks, IncludeBlind, IncludeReads, IncludeWrites,
                Stage, UnstageLooks, UnstageResets, CommitLooks, PushLooks, origin
  <2>4. Works \/ Breaks \/ UNCHANGED locked
    BY <1>7 DEF Step, ExcludeReads, ExcludeLists, ExcludeBlind, Uncache, AddLine,
                IncludeLists, IncludeChecks, IncludeBlind, IncludeReads, IncludeWrites,
                Stage, UnstageLooks, UnstageResets, CommitLooks, PushLooks, Spoils, git
  <2> QED
    BY <1>1, <1>2, <2>1, <2>2, <2>3, <2>4
<1>8. CASE Edit \/ ForceAdd \/ EditRules
  BY <1>1, <1>2, <1>8 DEF Edit, ForceAdd, EditRules, repo, origin, git
<1>9. CASE Unlock
  BY <1>1, <1>9 DEF Unlock, repo, origin
<1> QED
  BY <1>3, <1>4, <1>5, <1>6, <1>7, <1>8, <1>9 DEF Next

(* The bounds of the model hold.                                           *)
LEMMA CountsStep ==
  ASSUME Counts, Next
  PROVE  Counts'
<1> USE DEF Counts
<1>1. ASSUME NEW t \in Threads, Ask(t) PROVE Counts'
  BY <1>1, Constants DEF Ask, git
<1>2. ASSUME NEW t \in Threads, Step(t) PROVE Counts'
  <2>1. faults' \in {faults, faults + 1} /\ (faults' = faults \/ faults < MaxFaults)
    BY <1>2 DEF Step, ExcludeReads, ExcludeLists, ExcludeBlind, Uncache, AddLine,
                IncludeLists, IncludeChecks, IncludeBlind, IncludeReads, IncludeWrites,
                Stage, UnstageLooks, UnstageResets, CommitLooks, CommitWrites,
                PushLooks, PushSends, RemoteSet, Works, Breaks, Spoils, git
  <2>2. asked' = asked /\ edits' = edits
    BY <1>2 DEF Step, ExcludeReads, ExcludeLists, ExcludeBlind, Uncache, AddLine,
                IncludeLists, IncludeChecks, IncludeBlind, IncludeReads, IncludeWrites,
                Stage, UnstageLooks, UnstageResets, CommitLooks, CommitWrites,
                PushLooks, PushSends, RemoteSet, bounds
  <2> QED
    BY <2>1, <2>2, Constants
<1>3. CASE Edit \/ ForceAdd \/ EditRules
  BY <1>3, Constants DEF Edit, ForceAdd, EditRules, git
<1>4. CASE Unlock
  BY <1>4 DEF Unlock, bounds
<1> QED
  BY <1>1, <1>2, <1>3, <1>4 DEF Next

(* Only an exclude, an include and an editor write .gitignore.             *)
LEMMA LinesStep ==
  ASSUME Lines, Words, Shapes, Next
  PROVE  Lines'
<1> USE DEF Lines
<1>1. ASSUME NEW t \in Threads, Ask(t) PROVE Lines'
  BY <1>1 DEF Ask, repo
<1>2. ASSUME NEW t \in Threads, AddLine(t) PROVE Lines'
  <2>1. req[t].e \in Entries
    BY <1>2 DEF AddLine, At, Shapes, Shaped
  <2>2. CASE Spoils(t, {Append(rules, c) : c \in CutLines})
    BY <2>2, Spoiled, CutOffs
  <2>3. CASE /\ rules' = Append(rules, Line(req[t].e)) /\ UNCHANGED repo
             /\ \E w \in {"out", "none"} : word' = [word EXCEPT ![req[t].e] = w]
    BY <2>1, <2>3 DEF Line, repo
  <2> QED
    BY <1>2, <2>2, <2>3 DEF AddLine
<1>3. ASSUME NEW t \in Threads, IncludeChecks(t) PROVE Lines'
  <2>1. rules' = rules /\ outside' = outside
    BY <1>3 DEF IncludeChecks, Refuse
  <2>2. word' = word \/ \E e \in Entries : word' = [word EXCEPT ![e] = "in"]
    <3>1. req[t].e \in Entries
      BY <1>3 DEF IncludeChecks, At, Shapes, Shaped
    <3> QED
      BY <1>3, <3>1 DEF IncludeChecks, Refuse
  <2> QED
    BY <2>1, <2>2
<1>4. ASSUME NEW t \in Threads, IncludeWrites(t) PROVE Lines'
  <2>1. RemoveAt(req[t].lines, req[t].hit) \in Seq(SUBSET Entries)
    BY <1>4, Removed DEF IncludeWrites, At, Shapes, Shaped
  <2>2. CASE Spoils(t, CutOff(RemoveAt(req[t].lines, req[t].hit)))
    BY <2>1, <2>2, Spoiled, CutOffs
  <2>3. CASE /\ rules' = RemoveAt(req[t].lines, req[t].hit) /\ UNCHANGED repo
             /\ word' = [f \in Entries |->
                           IF rules # req[t].lines \/ f = req[t].e THEN "none"
                           ELSE word[f]]
    BY <2>1, <2>3 DEF repo
  <2> QED
    BY <1>4, <2>2, <2>3 DEF IncludeWrites
<1>5. ASSUME NEW t \in Threads, UnstageResets(t) PROVE Lines'
  BY <1>5 DEF UnstageResets, Refuse
<1>6. ASSUME NEW t \in Threads, Step(t), ~AddLine(t), ~IncludeChecks(t), ~IncludeWrites(t),
             ~UnstageResets(t)
      PROVE Lines'
  BY <1>6 DEF Step, ExcludeReads, ExcludeLists, ExcludeBlind, Uncache, IncludeLists,
              IncludeBlind, IncludeReads, Stage, UnstageLooks, CommitLooks,
              CommitWrites, PushLooks, PushSends, RemoteSet, Refuse, repo
<1>7. CASE Edit \/ Unlock
  BY <1>7 DEF Edit, Unlock, repo
<1>8. CASE ForceAdd
  BY <1>8 DEF ForceAdd
<1>9. CASE EditRules
  <2>1. rules' \in Seq(SUBSET Entries)
    <3>1. ASSUME NEW b \in Broad PROVE Append(rules, b) \in Seq(SUBSET Entries)
      BY Constants
    <3>2. ASSUME NEW i \in DOMAIN rules PROVE RemoveAt(rules, i) \in Seq(SUBSET Entries)
      BY Removed
    <3> QED
      BY <1>9, <3>1, <3>2 DEF EditRules
  <2> QED
    BY <1>9, <2>1 DEF EditRules, repo
<1> QED
  BY <1>1, <1>2, <1>3, <1>4, <1>5, <1>6, <1>7, <1>8, <1>9 DEF Next

(* What the panel said of an entry stays true.                             *)
LEMMA WordsStep ==
  ASSUME Versions, Lines, Shapes, Calms, Words, Next
  PROVE  Words'
<1>1. ASSUME NEW t \in Threads, Ask(t) PROVE Words'
  BY <1>1 DEF Ask, Words, Ignored, repo
<1>2. ASSUME NEW t \in Threads, Uncache(t) PROVE Words'
  <2>1. UNCHANGED <<rules, outside, word>> /\
          (index' = index \/ index' = [index EXCEPT ![req[t].e] = 0])
    BY <1>2 DEF Uncache, Refuse
  <2> QED
    BY <2>1 DEF Words, Ignored, Versions
<1>3. ASSUME NEW t \in Threads, AddLine(t) PROVE Words'
  <2> DEFINE e == req[t].e
             out == req[t].alone /\ req[t].at = "append"
  <2>1. e \in Entries
    BY <1>3 DEF AddLine, At, Shapes, Shaped
  <2>2. CASE Spoils(t, {Append(rules, c) : c \in CutLines})
    BY <2>2, Spoiled, CutOffs DEF Lines
  <2>3. CASE /\ rules' = Append(rules, Line(e)) /\ UNCHANGED repo
             /\ word' = [word EXCEPT ![e] = IF out THEN "out" ELSE "none"]
    <3>0. UNCHANGED <<index, outside>>
      BY <2>3 DEF repo
    <3>1. out => index[e] = 0
      BY <1>3 DEF AddLine, At, Calms, Alone, Calm
    <3>2. /\ DOMAIN rules = 1..Len(rules) /\ DOMAIN rules' = 1..Len(rules) + 1
          /\ rules'[Len(rules) + 1] = Line(e)
          /\ \A i \in 1..Len(rules) : rules'[i] = rules[i]
      BY <2>3 DEF Lines
    <3>3. ASSUME NEW f \in Entries, word'[f] = "out"
          PROVE  index'[f] = 0 /\ \E i \in DOMAIN rules' : rules'[i] = Line(f)
      <4>1. CASE f = e
        <5>1. out
          BY <2>3, <3>3, <4>1 DEF Lines
        <5>2. Len(rules) + 1 \in DOMAIN rules'
          BY <3>2 DEF Lines
        <5> QED
          BY <3>0, <3>1, <3>2, <4>1, <5>1, <5>2
      <4>2. CASE f # e
        <5>1. word[f] = "out"
          BY <2>3, <3>3, <4>2 DEF Lines
        <5>2. PICK i \in DOMAIN rules : rules[i] = Line(f)
          BY <5>1 DEF Words
        <5>3. i \in DOMAIN rules' /\ rules'[i] = Line(f)
          BY <3>2, <5>2 DEF Lines
        <5> QED
          BY <3>0, <5>1, <5>3 DEF Words
      <4> QED
        BY <4>1, <4>2
    <3>4. ASSUME NEW f \in Entries, word'[f] = "in" PROVE ~Ignored(f)'
      <4>1. f # e /\ word[f] = "in"
        BY <2>1, <2>3, <3>4 DEF Lines
      <4>2. ~Ignored(f) /\ f \notin Line(e)
        BY <4>1 DEF Words, Line
      <4>3. ASSUME NEW i \in DOMAIN rules' PROVE f \notin rules'[i]
        <5>1. CASE i = Len(rules) + 1
          BY <3>2, <4>2, <5>1
        <5>2. CASE i # Len(rules) + 1
          <6>1. i \in DOMAIN rules
            BY <3>2, <5>2 DEF Lines
          <6> QED
            BY <3>2, <4>2, <6>1 DEF Ignored
        <5> QED
          BY <5>1, <5>2
      <4> QED
        BY <3>0, <4>2, <4>3 DEF Ignored
    <3> QED
      BY <3>3, <3>4 DEF Words, Line
  <2> QED
    BY <1>3, <2>2, <2>3 DEF AddLine
<1>4. ASSUME NEW t \in Threads, IncludeChecks(t) PROVE Words'
  <2> DEFINE e == req[t].e
  <2>1. UNCHANGED <<index, rules, outside>>
    BY <1>4 DEF IncludeChecks, Refuse
  <2>2. CASE word' = word
    BY <2>1, <2>2 DEF Words, Ignored
  <2>3. CASE /\ req[t].alone /\ (index[e] # 0 \/ ~Ignored(e))
             /\ word' = [word EXCEPT ![e] = "in"]
    <3>1. index[e] = 0
      BY <1>4, <2>3 DEF IncludeChecks, At, Calms, Alone, Calm
    <3> QED
      BY <2>1, <2>3, <3>1 DEF Words, Ignored, Lines
  <2>4. \/ word' = word
        \/ /\ req[t].alone /\ (index[e] # 0 \/ ~Ignored(e))
           /\ word' = [word EXCEPT ![e] = "in"]
    <3>1. \/ word' = word
          \/ /\ index[e] # 0 \/ ~Ignored(e)
             /\ word' = [word EXCEPT ![e] = IF req[t].alone /\ req[t].rounds > 0
                                             THEN "in" ELSE word[e]]
      BY <1>4 DEF IncludeChecks, Refuse, Lines
    <3>2. word = [f \in Entries |-> word[f]]
      BY DEF Lines
    <3>3. CASE req[t].alone /\ req[t].rounds > 0
      BY <3>1, <3>3
    <3>4. CASE ~(req[t].alone /\ req[t].rounds > 0)
      BY <3>1, <3>2, <3>4
    <3> QED
      BY <3>3, <3>4
  <2> QED
    BY <2>2, <2>3, <2>4
<1>5. ASSUME NEW t \in Threads, IncludeWrites(t) PROVE Words'
  <2> DEFINE e == req[t].e
             hit == req[t].hit
             lines == RemoveAt(req[t].lines, hit)
  <2>1. lines \in Seq(SUBSET Entries)
    BY <1>5, Removed DEF IncludeWrites, At, Shapes, Shaped
  <2>2. CASE Spoils(t, CutOff(lines))
    BY <2>1, <2>2, Spoiled, CutOffs
  <2>3. CASE /\ rules' = lines /\ UNCHANGED repo
             /\ word' = [f \in Entries |->
                           IF rules # req[t].lines \/ f = e THEN "none" ELSE word[f]]
    <3>0. UNCHANGED <<index, outside>>
      BY <2>3 DEF repo
    <3>1. e \in rules[hit] \/ rules # req[t].lines
      BY <1>5 DEF IncludeWrites, At, Shapes, Shaped
    <3>2. rules = req[t].lines =>
            /\ \A x \in DOMAIN rules' : \E j \in DOMAIN rules : rules'[x] = rules[j]
            /\ \A j \in DOMAIN rules \ {hit} : \E x \in DOMAIN rules' : rules'[x] = rules[j]
      BY <1>5, <2>3, Removed DEF IncludeWrites, At, Shapes, Shaped
    <3>3. ASSUME NEW f \in Entries, word'[f] # "none"
          PROVE  rules = req[t].lines /\ f # e /\ word'[f] = word[f]
      BY <2>3, <3>3
    <3>4. ASSUME NEW f \in Entries, word'[f] = "out"
          PROVE  index'[f] = 0 /\ \E i \in DOMAIN rules' : rules'[i] = Line(f)
      <4>1. rules = req[t].lines /\ f # e /\ word[f] = "out"
        BY <3>3, <3>4
      <4>2. PICK i \in DOMAIN rules : rules[i] = Line(f)
        BY <4>1 DEF Words
      <4>3. i # hit
        BY <3>1, <4>1, <4>2 DEF Line
      <4> QED
        BY <3>0, <3>2, <4>1, <4>2, <4>3 DEF Words
    <3>5. ASSUME NEW f \in Entries, word'[f] = "in" PROVE ~Ignored(f)'
      <4>1. rules = req[t].lines /\ ~Ignored(f)
        BY <3>3, <3>5 DEF Words
      <4> QED
        BY <3>0, <3>2, <4>1 DEF Ignored
    <3> QED
      BY <3>4, <3>5 DEF Words, Line
  <2> QED
    BY <1>5, <2>2, <2>3 DEF IncludeWrites
<1>6. ASSUME NEW t \in Threads, Stage(t) PROVE Words'
  <2>1. UNCHANGED <<rules, outside, word>> /\
          (index' = index \/ index' = [e \in Entries |-> IF GoesUp(e) THEN disk[e] ELSE 0])
    BY <1>6 DEF Stage, Refuse
  <2>2. \A e \in Entries : word[e] = "out" => index[e] = 0 /\ Ignored(e)
    BY DEF Words, Ignored, Line
  <2>3. \A e \in Entries : word[e] = "out" => index'[e] = 0
    BY <2>1, <2>2 DEF GoesUp
  <2> QED
    BY <2>1, <2>3 DEF Words, Ignored
<1>7. ASSUME NEW t \in Threads, UnstageResets(t) PROVE Words'
  <2>1. UNCHANGED <<rules, outside>>
    BY <1>7 DEF UnstageResets, Refuse
  <2>2. CASE Refuse(t)
    BY <2>1, <2>2 DEF Refuse, Words, Ignored
  <2>3. CASE word' = [e \in Entries |->
                        IF word[e] = "out" /\ index'[e] # 0 THEN "none" ELSE word[e]]
    BY <2>1, <2>3 DEF Words, Ignored
  <2> QED
    BY <1>7, <2>2, <2>3 DEF UnstageResets
<1>8. ASSUME NEW t \in Threads, Step(t), ~Uncache(t), ~AddLine(t), ~IncludeChecks(t),
             ~IncludeWrites(t), ~Stage(t), ~UnstageResets(t)
      PROVE Words'
  <2>1. UNCHANGED <<index, rules, outside, word>>
    BY <1>8 DEF Step, ExcludeReads, ExcludeLists, ExcludeBlind, IncludeLists,
                IncludeBlind, IncludeReads, UnstageLooks, CommitLooks, CommitWrites,
                PushLooks, PushSends, RemoteSet, Refuse, repo
  <2> QED
    BY <2>1 DEF Words, Ignored
<1>9. CASE Edit \/ Unlock
  BY <1>9 DEF Edit, Unlock, Words, Ignored, repo
<1>10. CASE ForceAdd
  <2>1. UNCHANGED <<rules, outside>> /\ \E e \in Entries :
          index' = [index EXCEPT ![e] = disk[e]] /\ word' = [word EXCEPT ![e] = "none"]
    BY <1>10 DEF ForceAdd
  <2> QED
    BY <2>1 DEF Words, Ignored, Versions, Lines
<1>11. CASE EditRules
  BY <1>11 DEF EditRules, Words
<1> QED
  BY <1>1, <1>2, <1>3, <1>4, <1>5, <1>6, <1>7, <1>8, <1>9, <1>10, <1>11 DEF Next

-----------------------------------------------------------------------------

(* No step of anybody breaks the shape of a request.                       *)
LEMMA RequestsStep ==
  ASSUME Versions, Lines, Shapes, Calms, Next
  PROVE  Shapes' /\ Calms'
<1>1. ASSUME NEW t \in Threads, Ask(t) \/ Step(t) PROVE Shapes' /\ Calms'
  BY <1>1, RequestStep
<1>2. CASE Edit \/ ForceAdd \/ EditRules
  BY <1>2, AllDisturbed DEF Edit, ForceAdd, EditRules
<1>3. CASE Unlock
  BY <1>3 DEF Unlock, repo, Shapes, Calms, Calm, Covered, Ignored
<1> QED
  BY <1>1, <1>2, <1>3 DEF Next

(* The invariant holds at first.                                           *)
LEMMA PanelInit == Init => PanelInv
<1> SUFFICES ASSUME Init PROVE PanelInv
  OBVIOUS
<1>1. Versions /\ Counts
  BY Constants DEF Init, Versions, Counts
<1>2. Flags
  <2>1. ~born => \A e \in Entries : head[e] = 0
    BY DEF Init
  <2>2. /\ born \in BOOLEAN /\ remote = FALSE /\ locked = FALSE
        /\ ahead = born
    BY DEF Init
  <2> QED
    BY <2>1, <2>2, Zenon DEF Flags
<1>3. Lines
  <2>1. \A S \in SUBSET Entries : <<S>> \in Seq(SUBSET Entries)
    OBVIOUS
  <2>2. \A R, S \in SUBSET Entries : <<R, S>> \in Seq(SUBSET Entries)
    OBVIOUS
  <2>3. <<>> \in Seq(SUBSET Entries)
    OBVIOUS
  <2>4. /\ \A b \in Broad : b \in SUBSET Entries
        /\ \A e \in Entries : Line(e) \in SUBSET Entries
    BY Constants DEF Line
  <2>5. rules \in Seq(SUBSET Entries)
    <3>1. \/ rules = <<>> \/ \E b \in Broad : rules = <<b>>
          \/ \E e \in Entries, b \in Broad : rules = <<Line(e), b>>
      BY DEF Init
    <3> QED
      BY ONLY <2>1, <2>2, <2>3, <2>4, <3>1
  <2> QED
    BY <2>5 DEF Init, Lines
<1>4. Shapes /\ Calms
  BY DEF Init, Idle, Shapes, Shaped, Places, Calms, Alone
<1>5. Words
  BY DEF Init, Words
<1> QED
  BY <1>1, <1>2, <1>3, <1>4, <1>5 DEF PanelInv

(* Every step keeps it.                                                    *)
LEMMA PanelInductive == PanelInv /\ [Next]_vars => PanelInv'
<1>1. ASSUME PanelInv, Next PROVE PanelInv'
  BY <1>1, VersionsStep, FlagsStep, LinesStep, CountsStep, RequestsStep, WordsStep
     DEF PanelInv
<1>2. ASSUME PanelInv, UNCHANGED vars PROVE PanelInv'
  <2>1. Versions' /\ Flags' /\ Lines' /\ Counts'
    BY <1>2 DEF PanelInv, vars, repo, origin, git, bounds, Versions, Flags, Lines, Counts
  <2>2. Shapes' /\ Calms' /\ Words'
    BY <1>2 DEF PanelInv, vars, repo, Shapes, Calms, Calm, Covered, Words, Ignored
  <2> QED
    BY <2>1, <2>2 DEF PanelInv
<1> QED
  BY <1>1, <1>2

(* It holds always.                                                        *)
LEMMA PanelInvariant == Spec => []PanelInv
  BY PanelInit, PanelInductive, PTL DEF Spec

(* The repository, .gitignore and the requests stay in their types.        *)
THEOREM TypeCorrect == Spec => []TypeOK
  BY PanelInvariant, PanelTypes, PTL

(* The word of a request nobody disturbed, whose listings answered, stays  *)
(* true whatever the lines of .gitignore and the number of threads. It     *)
(* ends where somebody asks for otherwise, where an include overwrites a   *)
(* .gitignore changed since it was read, and where a write of it fails.    *)
THEOREM AnswersStay == Spec => []AnswersHold
  BY PanelInvariant, PanelHolds, PTL

(* Only its own thread ends an include, and with the list it has.          *)
LEMMA Ends ==
  ASSUME Shapes, NEW t \in Threads, At(t, "include", "check"), Next,
         req'[t].at = "answered", req'[t].ok
  PROVE  req'[t].freed = req[t].freed
<1>0. Shaped(req[t]) /\ DOMAIN req = Threads
  BY DEF Shapes
<1>1. ASSUME NEW u \in Threads, u # t, NEW r, Goes(u, r) \/ Writes(u, r) PROVE FALSE
  <2>1. req'[t].at = req[t].at
    BY <1>0, <1>1 DEF Goes, Writes, Disturbing, Shaped
  <2> QED
    BY <2>1 DEF At
<1>2. ASSUME NEW u \in Threads, Ask(u) \/ Step(u) PROVE \E r : Goes(u, r) \/ Writes(u, r)
  BY <1>2 DEF Ask, Step, ExcludeReads, ExcludeLists, ExcludeBlind, Uncache, AddLine,
              IncludeLists, IncludeChecks, IncludeBlind, IncludeReads, IncludeWrites,
              Stage, UnstageLooks, UnstageResets, CommitLooks, CommitWrites, PushLooks,
              PushSends, RemoteSet, Refuse, Spoils
<1>3. CASE Edit \/ ForceAdd \/ EditRules \/ Unlock
  <2>1. req'[t].at = req[t].at
    BY <1>0, <1>3 DEF Edit, ForceAdd, EditRules, Unlock, Disturbing, Shaped
  <2> QED
    BY <2>1 DEF At
<1>4. CASE Ask(t)
  BY <1>4 DEF Ask, Running, At
<1>5. CASE IncludeBlind(t)
  BY <1>0, <1>5 DEF IncludeBlind, Goes, Answer, To, At, Shaped
<1>6. CASE IncludeChecks(t)
  <2>1. CASE \E ok \in BOOLEAN : Goes(t, Answer(t, ok))
    BY <1>0, <2>1 DEF Goes, Answer, To, At, Shaped
  <2>2. CASE Goes(t, [To(t, "edit") EXCEPT
                  !.hit = Hit(req[t].e), !.pattern = rules[Hit(req[t].e)],
                  !.also = {f \in req[t].listed \ {req[t].e} : Hit(f) = Hit(req[t].e)}])
    BY <1>0, <2>2 DEF Goes, To, At, Shaped
  <2> QED
    BY <1>6, <2>1, <2>2 DEF IncludeChecks, Refuse
<1>7. CASE Step(t)
  BY <1>5, <1>6, <1>7 DEF Step, ExcludeReads, ExcludeLists, ExcludeBlind, Uncache,
                          AddLine, IncludeLists, IncludeReads, IncludeWrites, Stage,
                          UnstageLooks, UnstageResets, CommitLooks, CommitWrites,
                          PushLooks, PushSends, RemoteSet, At
<1> QED
  BY <1>1, <1>2, <1>3, <1>4, <1>7 DEF Next

(* An undisturbed include names every listed entry it freed, however many  *)
(* lines it deletes.                                                       *)
THEOREM FreedAreTold == Spec => FreedIsTold
<1>1. ASSUME PanelInv, [Next]_vars, NEW t \in Threads,
             At(t, "include", "check"), req'[t].at = "answered", req'[t].ok, req[t].alone
      PROVE  {f \in req[t].listed \ {req[t].e} : ~Ignored(f)} \subseteq req'[t].freed
  <2>1. Calm(req[t])
    BY <1>1 DEF PanelInv, Calms, Alone, At
  <2>2. CASE Next
    <3>1. req'[t].freed = req[t].freed
      BY <1>1, <2>2, Ends DEF PanelInv
    <3> QED
      BY <1>1, <2>1, <3>1 DEF Calm, At
  <2>3. CASE UNCHANGED vars
    BY <1>1, <2>3 DEF vars, At
  <2> QED
    BY <1>1, <2>2, <2>3
<1>2. PanelInv /\ [Next]_vars =>
        [\A t \in Threads :
           /\ At(t, "include", "check") /\ req'[t].at = "answered"
           /\ req'[t].ok /\ req[t].alone
           => {f \in req[t].listed \ {req[t].e} : ~Ignored(f)} \subseteq req'[t].freed]_vars
  BY <1>1
<1> QED
  BY <1>2, PanelInvariant, PTL DEF Spec, FreedIsTold

=============================================================================
