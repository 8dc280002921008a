----------------------------- MODULE GateProofs -----------------------------
(***************************************************************************)
(* Theorems about the gates of a build: those on the start of its team     *)
(* (TeamGates), for any number of Agent calls under way at once, and those *)
(* on the close of its reviews (ReviewGates), for any number of segments,  *)
(* hook processes, gate processes and turns.                               *)
(***************************************************************************)
EXTENDS TeamGates, ReviewGates, TLAPS

-----------------------------------------------------------------------------
(* TeamGates.  Its types, that a second teammate of a role needs a removed *)
(* claim, and that the Stop hook demands nothing the other hooks refuse.   *)

Records == [kind : Kinds, pending : SUBSET {"gates", "claim"}, refused : BOOLEAN]

(* The truth values and the rest of the types have a proof each.           *)
Flags ==
  /\ plan \in BOOLEAN /\ tasks \in BOOLEAN /\ dir \in BOOLEAN
  /\ draft \in BOOLEAN /\ start \in BOOLEAN /\ isolated \in BOOLEAN
  /\ lapse \in BOOLEAN
CallsOK == call \in [Calls -> Records \cup {NoCall}]
Rest ==
  /\ claims \subseteq Roles /\ roster \subseteq Roles
  /\ cleared \subseteq Roles /\ ghosts \subseteq Roles
  /\ nudges \in 0..MaxBlocks
  /\ lead \in {"down", "idle", "working"}
  /\ team \in [Roles -> 0..MaxMates]

(* The types in three groups.                                              *)
LEMMA TypeParts == TypeOK <=> Flags /\ CallsOK /\ Rest
  BY DEF TypeOK, Flags, CallsOK, Records, Rest

(* An Agent call under way is not the absence of one.                      *)
LEMMA RecordIs ==
  ASSUME NEW x \in Records
  PROVE  /\ x # NoCall /\ x.kind \in Kinds /\ x.pending \subseteq {"gates", "claim"}
         /\ RoleOf(x.kind) \in Roles
  BY DEF Records, NoCall, Kinds, RoleOf, Roles

(* The truth values stay truth values.                                     *)
LEMMA FlagsStep == Flags /\ [Next]_vars => Flags'
<1> SUFFICES ASSUME Flags, [Next]_vars PROVE Flags'
  OBVIOUS
<1> USE DEF Flags
<1>1. ASSUME NEW answer \in Answers, Prompt(answer) PROVE Flags'
  BY <1>1 DEF Prompt, Signal, NoSignal, Confirm, ConfirmIgnored, Edit
<1>2. CASE PromptBoth
  BY <1>2 DEF PromptBoth, Signal
<1>3. ASSUME NEW c \in Calls, ReadingGates(c) \/ Claim(c) \/ Spawn(c) \/ SpawnNobody(c)
      PROVE Flags'
  BY <1>3 DEF ReadingGates, Claim, Spawn, SpawnNobody, files
<1>4. CASE CallAgents \/ WritePlan \/ WriteTasks \/ ReadInbox
  BY <1>4 DEF CallAgents, WritePlan, WriteTasks, ReadInbox, files
<1>5. ASSUME NEW orca \in BOOLEAN, NEW codex \in BOOLEAN, Stop(orca, codex) PROVE Flags'
  BY <1>5 DEF Stop, StopUnpressed, StopComplete, StopPressed, StopMiscounted,
              StopGivenUp
<1>6. ASSUME NEW r \in Roles, TeammateEnds(r) PROVE Flags'
  BY <1>6 DEF TeammateEnds, files
<1>7. CASE MakeDir \/ AddCto
  BY <1>7 DEF MakeDir, AddCto
<1>8. CASE StopCto \/ DeleteCto
  BY <1>8 DEF StopCto, DeleteCto, LeadEnds, files
<1>9. CASE UNCHANGED vars
  BY <1>9 DEF vars, files
<1> QED
  BY <1>1, <1>2, <1>3, <1>4, <1>5, <1>6, <1>7, <1>8, <1>9 DEF Next, Turn

(* What a judgement leaves of the call it judges.                          *)
LEMMA JudgedIs ==
  ASSUME CallsOK, NEW c \in Calls, NEW hook, NEW ok, Judged(c, hook, ok),
         hook \in call[c].pending
  PROVE  /\ call[c] \in Records /\ call'[c] \in Records
         /\ call'[c].kind = call[c].kind
         /\ call'[c].pending = call[c].pending \ {hook}
         /\ call'[c].refused <=> call[c].refused \/ ~ok
         /\ \A d \in Calls \ {c} : call'[d] = call[d]
         /\ CallsOK'
<1>1. call[c] \in Records
  BY DEF CallsOK, NoCall
<1> DEFINE x == [call[c] EXCEPT !.pending = @ \ {hook}, !.refused = @ \/ ~ok]
<1>2. call' = [call EXCEPT ![c] = x]
  BY <1>1 DEF Judged, CallsOK
<1>3. /\ x.kind = call[c].kind /\ x.pending = call[c].pending \ {hook}
      /\ x.refused <=> call[c].refused \/ ~ok
  BY <1>1 DEF Records
<1>4. x \in Records
  BY <1>1 DEF Records
<1> HIDE DEF x
<1> QED
  BY <1>1, <1>2, <1>3, <1>4 DEF CallsOK

(* Agent calls keep their type.                                            *)
LEMMA CallsStep == CallsOK /\ [Next]_vars => CallsOK'
<1> SUFFICES ASSUME CallsOK, [Next]_vars PROVE CallsOK'
  OBVIOUS
<1>1. ASSUME NEW c \in Calls, ReadingGates(c) \/ Claim(c) PROVE CallsOK'
  BY <1>1, JudgedIs DEF ReadingGates, Claim
<1>2. ASSUME NEW c \in Calls, Spawn(c) \/ SpawnNobody(c) PROVE CallsOK'
  BY <1>2 DEF Spawn, SpawnNobody, CallsOK
<1>3. CASE CallAgents
  <2>1. PICK kinds \in [Calls -> Kinds \cup {"none"}] : call' = [c \in Calls |-> Called(kinds[c])]
    BY <1>3 DEF CallAgents
  <2>2. \A c \in Calls : Called(kinds[c]) \in Records \cup {NoCall}
    BY <2>1 DEF Called, Records
  <2> QED
    BY <2>1, <2>2 DEF CallsOK
<1>4. CASE StopCto \/ DeleteCto
  BY <1>4 DEF StopCto, DeleteCto, LeadEnds, CallsOK
<1>5. CASE UNCHANGED call
  BY <1>5 DEF CallsOK
<1>6. ASSUME NEW answer \in Answers, Prompt(answer) PROVE UNCHANGED call
  BY <1>6 DEF Prompt
<1>7. ASSUME NEW orca, NEW codex, Stop(orca, codex) PROVE UNCHANGED call
  BY <1>7 DEF Stop
<1>8. ASSUME NEW r, TeammateEnds(r) PROVE UNCHANGED call
  BY <1>8 DEF TeammateEnds
<1>9. PromptBoth \/ WritePlan \/ WriteTasks \/ ReadInbox \/ MakeDir \/ AddCto
        \/ UNCHANGED vars => UNCHANGED call
  BY DEF PromptBoth, WritePlan, WriteTasks, ReadInbox, MakeDir, AddCto, vars, session
<1> QED
  BY <1>1, <1>2, <1>3, <1>4, <1>5, <1>6, <1>7, <1>8, <1>9 DEF Next, Turn

(* So does the rest; whom a call spawns, its type says.                    *)
LEMMA RestStep == CallsOK /\ Rest /\ [Next]_vars => Rest'
<1> SUFFICES ASSUME CallsOK, Rest, [Next]_vars PROVE Rest'
  OBVIOUS
<1> USE TeamAssumption DEF Rest, MaxMates
<1>0. Exposed \subseteq Roles
  BY DEF Exposed
<1>1. ASSUME NEW answer \in Answers, Prompt(answer) PROVE Rest'
  BY <1>0, <1>1 DEF Prompt, Signal, NoSignal, Confirm, ConfirmIgnored, Edit
<1>2. CASE PromptBoth
  BY <1>0, <1>2 DEF PromptBoth, Signal
<1>3. ASSUME NEW c \in Calls, ReadingGates(c) PROVE Rest'
  BY <1>3 DEF ReadingGates, files
<1>4. ASSUME NEW c \in Calls, call[c] # NoCall PROVE RoleOf(call[c].kind) \in Roles
  BY <1>4, RecordIs DEF CallsOK
<1>5. ASSUME NEW c \in Calls, Claim(c) PROVE Rest'
  BY <1>4, <1>5 DEF Claim, NoCall
<1>6. ASSUME NEW c \in Calls, Spawn(c) PROVE Rest'
  <2> DEFINE r == RoleOf(call[c].kind)
  <2>1. r \in Roles
    BY <1>4, <1>6 DEF Spawn, Decided
  <2>2. /\ team[r] < MaxMates /\ team' = [team EXCEPT ![r] = @ + 1]
        /\ roster' = roster \cup {r}
        /\ UNCHANGED <<claims, nudges, lead, cleared, ghosts>>
    BY <1>6 DEF Spawn, files
  <2> HIDE DEF r
  <2>3. team' \in [Roles -> 0..MaxMates]
    BY <2>1, <2>2
  <2> QED
    BY <2>1, <2>2, <2>3
<1>7. ASSUME NEW c \in Calls, SpawnNobody(c) PROVE Rest'
  BY <1>4, <1>7 DEF SpawnNobody, Decided, files
<1>8. CASE CallAgents \/ WritePlan \/ WriteTasks \/ ReadInbox
  BY <1>8 DEF CallAgents, WritePlan, WriteTasks, ReadInbox, files, session, Roles
<1>9. ASSUME NEW orca \in BOOLEAN, NEW codex \in BOOLEAN, Stop(orca, codex) PROVE Rest'
  <2>1. /\ nudges' \in {nudges, 0, 1} \/ (nudges < MaxBlocks /\ nudges' = nudges + 1)
        /\ lead' \in {lead, "idle"}
        /\ UNCHANGED <<claims, team, roster, cleared, ghosts>>
    BY <1>9 DEF Stop, StopUnpressed, StopComplete, StopPressed, StopMiscounted, StopGivenUp
  <2>2. nudges' \in 0..MaxBlocks
    BY <2>1
  <2> QED
    BY <2>1, <2>2
<1>10. ASSUME NEW r \in Roles, TeammateEnds(r) PROVE Rest'
  BY <1>10 DEF TeammateEnds, files, Alive
<1>11. CASE MakeDir \/ AddCto
  BY <1>0, <1>11 DEF MakeDir, AddCto, session
<1>12. CASE StopCto \/ DeleteCto
  BY <1>12 DEF StopCto, DeleteCto, files, LeadEnds
<1>13. CASE UNCHANGED vars
  BY <1>13 DEF vars, files, session
<1> QED
  BY <1>1, <1>2, <1>3, <1>5, <1>6, <1>7, <1>8, <1>9, <1>10, <1>11, <1>12, <1>13
     DEF Next, Turn

(* The types hold at first.                                                *)
LEMMA TypeInit == Init => Flags /\ CallsOK /\ Rest
<1> SUFFICES ASSUME Init PROVE Flags /\ CallsOK /\ Rest
  OBVIOUS
<1>1. Flags
  BY DEF Init, Flags
<1>2. CallsOK
  BY DEF Init, CallsOK
<1>3. Rest
  BY TeamAssumption DEF Init, Rest, MaxMates
<1> QED
  BY <1>1, <1>2, <1>3

(* Every reachable state has the types TypeOK states.                      *)
THEOREM TypeCorrect == Spec => []TypeOK
  BY TypeInit, FlagsStep, CallsStep, RestStep, TypeParts, PTL DEF Spec

-----------------------------------------------------------------------------
(* At most one of a role's teammates and of the calls that may still       *)
(* become one, and it has the role's claim, unless the claim was removed   *)
(* while it lived (cleared).  A call that passed the claim gate for        *)
(* nothing, because the dispatch gate was to refuse it, is let through     *)
(* only if tasks.md appeared in between (LetThrough).                      *)
Entitled(c, r) ==
  /\ call[c] # NoCall /\ RoleOf(call[c].kind) = r
  /\ "claim" \notin call[c].pending /\ ~call[c].refused
  /\ "gates" \in call[c].pending => DispatchOk(call[c].kind)

OneHolder(r) ==
  /\ team[r] <= 1
  /\ Alive(r) => r \in claims /\ \A c \in Calls : ~Entitled(c, r)
  /\ \A c \in Calls : Entitled(c, r) => r \in claims
  /\ \A c, d \in Calls : Entitled(c, r) /\ Entitled(d, r) => c = d

LetThrough ==
  \A c \in Calls :
    /\ call[c] # NoCall /\ "gates" \notin call[c].pending /\ ~call[c].refused
    /\ ~DispatchOk(call[c].kind)
    => RoleOf(call[c].kind) \in cleared

(* Calls are made by a lead, and a lead has its directory.                 *)
AtHome ==
  /\ lead # "down" => dir
  /\ lead = "down" => NoCalls

Holders == AtHome /\ LetThrough /\ \A r \in Roles \ cleared : OneHolder(r)

(* A step that leaves every call as it is, or takes one away.              *)
LEMMA FewerCalls ==
  ASSUME Rest, Holders, AtHome', UNCHANGED <<tasks, claims, cleared, team>>,
         \A c \in Calls : call'[c] = NoCall \/ call'[c] = call[c]
  PROVE  Holders'
<1> USE DEF Holders
<1>1. \A c \in Calls, r \in Roles : Entitled(c, r)' => Entitled(c, r)
  BY DEF Entitled, DispatchOk
<1>2. LetThrough'
  BY DEF LetThrough, DispatchOk
<1>3. \A r \in Roles \ cleared : OneHolder(r)'
  BY <1>1 DEF OneHolder, Alive
<1> QED
  BY <1>2, <1>3

(* A step that removes the claims, marking the roles that are exposed.     *)
LEMMA Unclaimed ==
  ASSUME Rest, Holders, UNCHANGED <<tasks, team, call>>,
         cleared' = cleared \cup Exposed
  PROVE  LetThrough' /\ \A r \in Roles \ cleared' : OneHolder(r)'
<1> USE DEF Holders
<1>1. LetThrough'
  BY DEF LetThrough, DispatchOk
<1>2. ASSUME NEW r \in Roles \ cleared' PROVE OneHolder(r)'
  <2>1. ~Alive(r) /\ ~InFlight(r) /\ r \notin cleared
    BY <1>2 DEF Exposed
  <2>2. \A c \in Calls : ~Entitled(c, r)'
    BY <2>1 DEF Entitled, InFlight
  <2>3. team'[r] <= 1 /\ ~Alive(r)'
    BY <2>1 DEF OneHolder, Alive
  <2> QED
    BY <2>2, <2>3 DEF OneHolder
<1> QED
  BY <1>1, <1>2

(* The lead's end leaves nobody.                                           *)
LEMMA LeadEndsEmpty ==
  ASSUME LeadEnds PROVE Holders'
<1>1. \A c \in Calls : call'[c] = NoCall
  BY DEF LeadEnds
<1>2. \A r \in Roles : team'[r] = 0
  BY DEF LeadEnds
<1>3. AtHome' /\ LetThrough'
  BY <1>1 DEF LeadEnds, AtHome, LetThrough, NoCalls
<1>4. ASSUME NEW r \in Roles PROVE OneHolder(r)'
  <2>1. team'[r] <= 1 /\ ~Alive(r)'
    BY <1>2 DEF Alive
  <2>2. \A c \in Calls : ~Entitled(c, r)'
    BY <1>1 DEF Entitled
  <2> QED
    BY <2>1, <2>2 DEF OneHolder
<1> QED
  BY <1>3, <1>4 DEF Holders

(* A prompt that removes claims notes whose they were.                     *)
LEMMA PromptStep ==
  ASSUME Rest, Holders, NEW answer \in Answers, Prompt(answer)
  PROVE  Holders'
<1>1. AtHome'
  BY DEF Prompt, Holders, AtHome, NoCalls
<1>2. UNCHANGED <<tasks, team, call>>
  BY DEF Prompt
<1>3. CASE answer = "spawn"
  BY <1>1, <1>2, <1>3, Unclaimed DEF Prompt, Holders
<1>4. CASE answer # "spawn"
  <2>1. cleared' = cleared /\ (claims' = claims \/ claims = {})
    BY <1>4 DEF Prompt, Confirm, ConfirmIgnored, TeamClaimed, NoSignal, Edit, Answers
  <2>2. CASE claims' = claims
    BY <1>1, <1>2, <2>1, <2>2, FewerCalls
  <2>3. CASE claims = {}
    <3>1. LetThrough'
      BY <1>2, <2>1 DEF Holders, LetThrough, DispatchOk
    <3>2. ASSUME NEW r \in Roles \ cleared PROVE OneHolder(r)'
      <4>1. ~Alive(r) /\ \A c \in Calls : ~Entitled(c, r)
        BY <2>3 DEF Holders, OneHolder
      <4>2. team'[r] <= 1 /\ ~Alive(r)' /\ \A c \in Calls : ~Entitled(c, r)'
        BY <1>2, <4>1 DEF Holders, OneHolder, Alive, Entitled, DispatchOk
      <4> QED
        BY <4>2 DEF OneHolder
    <3> QED
      BY <1>1, <2>1, <3>1, <3>2 DEF Holders
  <2> QED
    BY <2>1, <2>2, <2>3
<1> QED
  BY <1>3, <1>4

(* The hooks of a call: the dispatch gate refuses what the claim gate      *)
(* passed over, and the claim gate makes at most one holder.               *)
LEMMA JudgeStep ==
  ASSUME CallsOK, Rest, Holders, NEW c \in Calls, ReadingGates(c) \/ Claim(c)
  PROVE  Holders'
<1> DEFINE k == call[c].kind  role == RoleOf(k)
<1>1. call[c] \in Records /\ call'[c] \in Records /\ CallsOK' /\ k \in Kinds
      /\ call'[c].kind = k /\ \A d \in Calls \ {c} : call'[d] = call[d]
  BY JudgedIs, RecordIs DEF ReadingGates, Claim
<1>2. call[c] # NoCall /\ call'[c] # NoCall /\ role \in Roles
  BY <1>1, RecordIs
<1>3. UNCHANGED <<tasks, team, cleared, dir, lead>> /\ (\A x : DispatchOk(x)' <=> DispatchOk(x))
  BY DEF ReadingGates, Claim, files, DispatchOk
<1>4. AtHome'
  BY <1>2, <1>3 DEF Holders, AtHome, NoCalls
<1>5. \A d \in Calls \ {c}, r \in Roles : Entitled(d, r)' <=> Entitled(d, r)
  BY <1>1, <1>3 DEF Entitled
<1>6. CASE ReadingGates(c)
  <2>1. /\ call'[c].pending = call[c].pending \ {"gates"}
        /\ ~call'[c].refused => ~call[c].refused /\ DispatchOk(k)
        /\ UNCHANGED claims
    BY <1>6, JudgedIs DEF ReadingGates, files
  <2>2. \A r \in Roles : Entitled(c, r)' => Entitled(c, r)
    BY <1>1, <1>2, <2>1 DEF Entitled
  <2>3. LetThrough'
    <3> SUFFICES ASSUME NEW d \in Calls,
                        call'[d] # NoCall, "gates" \notin call'[d].pending,
                        ~call'[d].refused, (~DispatchOk(call[d].kind))'
                 PROVE  RoleOf(call'[d].kind) \in cleared'
      BY DEF LetThrough
    <3>1. d # c
      BY <1>1, <1>3, <2>1
    <3>2. call'[d] = call[d]
      BY <1>1, <3>1
    <3> QED
      BY <1>3, <3>2 DEF Holders, LetThrough
  <2>4. \A r \in Roles \ cleared : OneHolder(r)'
    BY <1>3, <1>5, <2>1, <2>2 DEF Holders, OneHolder, Alive
  <2> QED
    BY <1>3, <1>4, <2>3, <2>4 DEF Holders
<1>7. CASE Claim(c)
  <2>1. /\ "claim" \in call[c].pending
        /\ call'[c].pending = call[c].pending \ {"claim"}
        /\ ~call'[c].refused => ~call[c].refused /\ (DispatchOk(k) => role \notin claims)
        /\ claims' = IF DispatchOk(k) THEN claims \cup {role} ELSE claims
    BY <1>7, JudgedIs DEF Claim
  <2>2. LetThrough'
    BY <1>1, <1>2, <1>3, <2>1 DEF Holders, LetThrough
  <2>3. ASSUME NEW r \in Roles \ cleared PROVE OneHolder(r)'
    <3>1. \A d \in Calls : d # c => (Entitled(d, r)' <=> Entitled(d, r))
      BY <1>5
    <3>2. (Alive(r)' <=> Alive(r)) /\ team'[r] <= 1 /\ (r \in claims => r \in claims')
      BY <1>3, <2>1 DEF Holders, OneHolder, Alive
    <3>3. CASE ~Entitled(c, r)'
      BY <3>1, <3>2, <3>3 DEF Holders, OneHolder
    <3>4. CASE Entitled(c, r)'
      <4>1. r = role /\ ~call'[c].refused /\ ~call[c].refused
        BY <1>1, <2>1, <3>4 DEF Entitled
      <4>2. DispatchOk(k)
        <5> SUFFICES ASSUME ~DispatchOk(k) PROVE FALSE
          OBVIOUS
        <5>1. "gates" \notin call'[c].pending
          BY <1>1, <1>3, <3>4 DEF Entitled
        <5>2. "gates" \notin call[c].pending
          BY <2>1, <5>1
        <5> QED
          BY <1>2, <2>3, <4>1, <5>2 DEF Holders, LetThrough
      <4>3. r \notin claims /\ r \in claims'
        BY <2>1, <4>1, <4>2
      <4>4. ~Alive(r) /\ \A d \in Calls : ~Entitled(d, r)
        BY <4>3 DEF Holders, OneHolder
      <4> QED
        BY <3>1, <3>2, <4>3, <4>4 DEF OneHolder
    <3> QED
      BY <3>3, <3>4
  <2> QED
    BY <1>3, <1>4, <2>2, <2>3 DEF Holders
<1> QED
  BY <1>6, <1>7

(* The teammate takes the place of the call that was entitled to it.       *)
LEMMA SpawnStep ==
  ASSUME CallsOK, Rest, Holders, NEW c \in Calls, Spawn(c)
  PROVE  Holders'
<1> DEFINE role == RoleOf(call[c].kind)
<1>1. call[c] # NoCall /\ call[c].pending = {} /\ ~call[c].refused
  BY DEF Spawn, Decided
<1>2. role \in Roles
  BY <1>1, RecordIs DEF CallsOK
<1>3. /\ call' = [call EXCEPT ![c] = NoCall] /\ team' = [team EXCEPT ![role] = @ + 1]
      /\ UNCHANGED <<tasks, dir, claims, lead, cleared>>
  BY DEF Spawn, files
<1>4. call'[c] = NoCall /\ \A d \in Calls \ {c} : call'[d] = call[d]
  BY <1>3 DEF CallsOK
<1>5. AtHome'
  BY <1>1, <1>3, <1>4 DEF Holders, AtHome, NoCalls
<1>6. LetThrough'
  BY <1>3, <1>4 DEF Holders, LetThrough, DispatchOk
<1>7. ASSUME NEW d \in Calls, NEW r PROVE Entitled(d, r)' => d # c /\ Entitled(d, r)
  BY <1>3, <1>4 DEF Entitled, DispatchOk
<1>8. ASSUME NEW r \in Roles \ cleared PROVE OneHolder(r)'
  <2>1. CASE r = role
    <3>1. Entitled(c, r)
      BY <1>1, <2>1 DEF Entitled
    <3>2. r \in claims /\ ~Alive(r) /\ \A d \in Calls : Entitled(d, r) => d = c
      BY <1>8, <3>1 DEF Holders, OneHolder
    <3>3. team'[r] <= 1
      BY <1>2, <1>3, <2>1, <3>2 DEF Alive, Rest
    <3>4. \A d \in Calls : ~Entitled(d, r)'
      BY <1>7, <3>2
    <3> QED
      BY <1>3, <3>2, <3>3, <3>4 DEF OneHolder
  <2>2. CASE r # role
    <3>1. team'[r] = team[r]
      BY <1>3, <2>2 DEF Rest
    <3> QED
      BY <1>3, <1>7, <3>1 DEF Holders, OneHolder, Alive
  <2> QED
    BY <2>1, <2>2
<1> QED
  BY <1>3, <1>5, <1>6, <1>8 DEF Holders

(* A teammate that ends leaves its claim to nobody.                        *)
LEMMA EndsStep ==
  ASSUME CallsOK, Rest, Holders, NEW role \in Roles, TeammateEnds(role)
  PROVE  Holders'
<1>1. /\ team' = [team EXCEPT ![role] = @ - 1] /\ team[role] > 0
      /\ UNCHANGED <<tasks, dir, claims, lead, call>>
  BY DEF TeammateEnds, files, Alive
<1>2. \/ cleared' = cleared
      \/ cleared' = cleared \ {role} /\ team[role] = 1 /\ ~InFlight(role)
  BY DEF TeammateEnds
<1>3. AtHome'
  BY <1>1 DEF Holders, AtHome, NoCalls
<1>4. LetThrough'
  BY <1>1, <1>2 DEF Holders, LetThrough, DispatchOk, InFlight
<1>5. ASSUME NEW d \in Calls, NEW r PROVE Entitled(d, r)' <=> Entitled(d, r)
  BY <1>1 DEF Entitled, DispatchOk
<1>6. ASSUME NEW r \in Roles \ cleared' PROVE OneHolder(r)'
  <2>1. CASE r \notin cleared
    <3>1. team'[r] <= team[r] /\ (Alive(r)' => Alive(r))
      BY <1>1 DEF Rest, Alive, MaxMates
    <3>2. OneHolder(r)
      BY <2>1 DEF Holders
    <3>3. team'[r] <= 1
      BY <1>1, <3>2 DEF OneHolder, Rest, MaxMates
    <3> QED
      BY <1>1, <1>5, <3>1, <3>2, <3>3 DEF OneHolder
  <2>2. CASE r \in cleared
    <3>1. r = role /\ team[r] = 1 /\ ~InFlight(r)
      BY <1>2, <1>6, <2>2
    <3>2. team'[r] <= 1 /\ ~Alive(r)'
      BY <1>1, <3>1 DEF Rest, Alive
    <3>3. \A d \in Calls : ~Entitled(d, r)'
      BY <1>5, <3>1 DEF Entitled, InFlight
    <3> QED
      BY <3>2, <3>3 DEF OneHolder
  <2> QED
    BY <2>1, <2>2
<1> QED
  BY <1>3, <1>4, <1>6 DEF Holders

(* Every step keeps one holder of each role.                               *)
LEMMA HoldersStep == CallsOK /\ Rest /\ Holders /\ [Next]_vars => Holders'
<1> SUFFICES ASSUME CallsOK, Rest, Holders, [Next]_vars PROVE Holders'
  OBVIOUS
<1>1. CASE PromptBoth
  <2>1. AtHome'
    BY <1>1 DEF PromptBoth, Holders, AtHome, NoCalls
  <2> QED
    BY <1>1, <2>1, Unclaimed DEF PromptBoth, Holders
<1>2. CASE AddCto
  <2>1. AtHome'
    BY <1>2 DEF AddCto, Holders, AtHome, NoCalls
  <2> QED
    BY <1>2, <2>1, Unclaimed DEF AddCto, Holders
<1>3. CASE CallAgents
  <2>1. PICK kinds \in [Calls -> Kinds \cup {"none"}] : call' = [c \in Calls |-> Called(kinds[c])]
    BY <1>3 DEF CallAgents
  <2>2. \A c \in Calls : \/ call'[c] = NoCall
                         \/ "claim" \in call'[c].pending /\ "gates" \in call'[c].pending
    BY <2>1 DEF Called
  <2>3. UNCHANGED <<tasks, dir, claims, cleared, lead, team>> /\ lead = "working"
    BY <1>3 DEF CallAgents, files
  <2>4. AtHome' /\ LetThrough'
    BY <2>2, <2>3 DEF Holders, AtHome, LetThrough
  <2>5. \A c \in Calls : \A r \in Roles : ~Entitled(c, r)'
    BY <2>2 DEF Entitled
  <2>6. \A r \in Roles \ cleared : OneHolder(r)'
    BY <2>3, <2>5 DEF Holders, OneHolder, Alive
  <2> QED
    BY <2>3, <2>4, <2>6 DEF Holders
<1>4. ASSUME NEW c \in Calls, SpawnNobody(c) PROVE Holders'
  <2>1. /\ call' = [call EXCEPT ![c] = NoCall]
        /\ UNCHANGED <<tasks, dir, claims, cleared, lead, team>>
    BY <1>4 DEF SpawnNobody, files
  <2>2. call'[c] = NoCall /\ \A d \in Calls \ {c} : call'[d] = call[d]
    BY <2>1 DEF CallsOK
  <2>3. AtHome'
    BY <2>1, <2>2 DEF Holders, AtHome, NoCalls
  <2> QED
    BY <2>1, <2>2, <2>3, FewerCalls
<1>5. CASE WriteTasks
  <2>1. /\ tasks' = TRUE /\ UNCHANGED <<dir, claims, lead, team, call>>
        /\ cleared' = IF InFlight("planner") THEN cleared \cup {"planner"} ELSE cleared
    BY <1>5 DEF WriteTasks, session
  <2>2. AtHome'
    BY <2>1 DEF Holders, AtHome, NoCalls
  <2>3. LetThrough'
    BY <2>1 DEF Holders, LetThrough, DispatchOk, InFlight, RoleOf
  <2>4. \A c \in Calls, r \in Roles : Entitled(c, r)' => Entitled(c, r)
    BY <1>5, <2>1 DEF Entitled, DispatchOk, WriteTasks
  <2>5. \A r \in Roles \ cleared' : OneHolder(r)'
    BY <2>1, <2>4 DEF Holders, OneHolder, Alive
  <2> QED
    BY <2>2, <2>3, <2>5 DEF Holders
<1>6. CASE MakeDir
  <2>1. ~dir /\ dir' = TRUE /\ UNCHANGED <<claims, cleared, lead, team, call>>
    BY <1>6 DEF MakeDir, session
  <2>2. NoCalls
    BY <2>1 DEF Holders, AtHome
  <2>3. AtHome' /\ LetThrough' /\ \A c \in Calls, r \in Roles : ~Entitled(c, r)'
    BY <2>1, <2>2 DEF Holders, AtHome, NoCalls, LetThrough, Entitled
  <2>4. \A r \in Roles \ cleared' : OneHolder(r)'
    BY <2>1, <2>3 DEF Holders, OneHolder, Alive
  <2> QED
    BY <2>3, <2>4 DEF Holders
<1>7. ASSUME NEW orca, NEW codex, Stop(orca, codex) PROVE Holders'
  <2>1. /\ UNCHANGED <<tasks, dir, claims, cleared, team, call>>
        /\ NoCalls /\ lead # "down" /\ lead' # "down"
    BY <1>7 DEF Stop, StopUnpressed, StopComplete, StopPressed, StopMiscounted,
              StopGivenUp
  <2>2. AtHome'
    BY <2>1 DEF Holders, AtHome
  <2> QED
    BY <2>1, <2>2, FewerCalls
<1>8. CASE WritePlan \/ ReadInbox \/ UNCHANGED vars
  <2>1. UNCHANGED <<tasks, dir, claims, cleared, lead, team, call>>
    BY <1>8 DEF WritePlan, ReadInbox, vars, files, session
  <2>2. AtHome'
    BY <2>1 DEF Holders, AtHome, NoCalls
  <2> QED
    BY <2>1, <2>2, FewerCalls
<1>9. CASE StopCto \/ DeleteCto
  BY <1>9, LeadEndsEmpty DEF StopCto, DeleteCto
<1> QED
  BY <1>1, <1>2, <1>3, <1>4, <1>5, <1>6, <1>7, <1>8, <1>9,
     PromptStep, JudgeStep, SpawnStep, EndsStep DEF Next, Turn

(* At first there is none.                                                 *)
LEMMA HoldersInit == Init => Holders
<1> SUFFICES ASSUME Init PROVE Holders
  OBVIOUS
<1>1. \A c \in Calls : call[c] = NoCall
  BY DEF Init
<1>2. \A r \in Roles : team[r] = 0
  BY DEF Init
<1>3. AtHome /\ LetThrough
  BY <1>1 DEF Init, AtHome, NoCalls, LetThrough
<1>4. \A r \in Roles : OneHolder(r)
  BY <1>1, <1>2 DEF OneHolder, Entitled, Alive
<1> QED
  BY <1>3, <1>4 DEF Holders

(* However many calls are under way and whatever is refused, two teammates *)
(* of one role need a claim removed while one lived or was on its way.     *)
THEOREM SecondNeedsSignal == Spec => []DuplicateNeedsSignal
<1>1. Rest /\ Holders => DuplicateNeedsSignal
  BY DEF Rest, Holders, OneHolder, DuplicateNeedsSignal, MaxMates
<1> QED
  BY <1>1, TypeInit, HoldersInit, CallsStep, RestStep, HoldersStep, PTL DEF Spec

-----------------------------------------------------------------------------
(* A claim has a reason that still stands, or is a ghost; and a role that  *)
(* lives is in the roster the Stop hook reads.                             *)
Claimed(r) == r \in claims => Alive(r) \/ InFlight(r) \/ r \in ghosts
Listed(r) == Alive(r) => r \in roster
Accounted == \A r \in Roles : Claimed(r) /\ Listed(r)

(* Every step keeps the claims accounted for.                              *)
LEMMA AccountedStep == CallsOK /\ Rest /\ Accounted /\ [Next]_vars => Accounted'
<1> SUFFICES ASSUME CallsOK, Rest, Accounted, [Next]_vars PROVE Accounted'
  OBVIOUS
<1> USE DEF Accounted, Claimed, Listed
(* The start signal and add-cto take every claim.                          *)
<1>1. ASSUME UNCHANGED <<team, roster>>, claims' = {} PROVE Accounted'
  BY <1>1 DEF Alive
<1>2. ASSUME UNCHANGED <<team, roster, claims, ghosts>>,
             \A r \in Roles : InFlight(r) => InFlight(r)'
      PROVE  Accounted'
  BY <1>2 DEF Alive
<1>3. ASSUME UNCHANGED call PROVE \A r \in Roles : InFlight(r) => InFlight(r)'
  BY <1>3 DEF InFlight
<1>4. ASSUME NEW answer \in Answers, Prompt(answer) PROVE Accounted'
  <2>1. UNCHANGED <<team, roster, call>>
    BY <1>4 DEF Prompt
  <2>2. claims' = {} \/ UNCHANGED <<claims, ghosts>>
    BY <1>4 DEF Prompt, Signal, NoSignal, Confirm, ConfirmIgnored, Edit, Answers
  <2> QED
    BY <1>1, <1>2, <1>3, <2>1, <2>2
<1>5. CASE PromptBoth \/ AddCto
  BY <1>1, <1>5 DEF PromptBoth, Signal, AddCto
<1>6. CASE WritePlan \/ WriteTasks \/ ReadInbox \/ MakeDir \/ UNCHANGED vars
  BY <1>2, <1>3, <1>6 DEF WritePlan, WriteTasks, ReadInbox, MakeDir, vars, files, session
<1>7. ASSUME NEW orca, NEW codex, Stop(orca, codex) PROVE Accounted'
  BY <1>2, <1>3, <1>7 DEF Stop
<1>8. CASE CallAgents
  <2>1. \A r \in Roles : ~InFlight(r)
    BY <1>8 DEF CallAgents, NoCalls, InFlight
  <2>2. UNCHANGED <<team, roster, claims, ghosts>>
    BY <1>8 DEF CallAgents, files
  <2> QED
    BY <1>2, <2>1, <2>2
<1>9. ASSUME NEW c \in Calls, call[c] # NoCall
      PROVE RoleOf(call[c].kind) \in Roles /\ InFlight(RoleOf(call[c].kind))
  BY <1>9, RecordIs DEF CallsOK, InFlight
<1>10. ASSUME NEW c \in Calls, ReadingGates(c) \/ Claim(c) PROVE Accounted'
  <2> DEFINE role == RoleOf(call[c].kind)
  <2>1. /\ call[c] \in Records /\ call'[c] \in Records /\ call'[c].kind = call[c].kind
        /\ \A d \in Calls \ {c} : call'[d] = call[d]
    BY <1>10, JudgedIs DEF ReadingGates, Claim
  <2>2. \A r \in Roles : InFlight(r) => InFlight(r)'
    BY <2>1, RecordIs DEF InFlight
  <2>3. InFlight(role)
    BY <1>9, <2>1, RecordIs
  <2>4. UNCHANGED <<team, roster, ghosts>> /\ claims' \subseteq claims \cup {role}
    BY <1>10 DEF ReadingGates, Claim, files
  <2> QED
    BY <2>2, <2>3, <2>4 DEF Alive
<1>11. ASSUME NEW c \in Calls, Spawn(c) \/ SpawnNobody(c) PROVE Accounted'
  <2>1. PICK role \in Roles :
          /\ role = RoleOf(call[c].kind) /\ call[c] # NoCall
          /\ call' = [call EXCEPT ![c] = NoCall] /\ claims' = claims
    BY <1>9, <1>11 DEF Spawn, SpawnNobody, Decided, files
  <2>2. ASSUME NEW r \in Roles, r # role, InFlight(r) PROVE InFlight(r)'
    <3>1. PICK d \in Calls : call[d] # NoCall /\ RoleOf(call[d].kind) = r
      BY <2>2 DEF InFlight
    <3>2. d # c
      BY <2>1, <2>2, <3>1
    <3>3. call'[d] = call[d]
      BY <2>1, <3>2 DEF CallsOK
    <3> QED
      BY <3>1, <3>3 DEF InFlight
  <2>3. CASE Spawn(c)
    <3>1. /\ team' = [team EXCEPT ![role] = @ + 1] /\ roster' = roster \cup {role}
          /\ ghosts' = ghosts
      BY <2>1, <2>3 DEF Spawn
    <3>2. Alive(role)'
      BY <2>1, <3>1 DEF Alive, Rest, MaxMates
    <3>3. \A r \in Roles : r # role => (Alive(r)' <=> Alive(r))
      BY <2>1, <3>1 DEF Alive, Rest
    <3>4. \A r \in Roles : r # role => Claimed(r)' /\ Listed(r)'
      BY <2>1, <2>2, <3>1, <3>3
    <3>5. Claimed(role)' /\ Listed(role)'
      BY <3>1, <3>2
    <3> QED
      BY <3>4, <3>5
  <2>4. CASE SpawnNobody(c)
    <3>1. UNCHANGED <<team, roster>> /\ ghosts \subseteq ghosts'
          /\ (role \in claims => role \in ghosts')
      BY <2>1, <2>4 DEF SpawnNobody
    <3> QED
      BY <2>1, <2>2, <3>1 DEF Alive
  <2> QED
    BY <1>11, <2>3, <2>4
<1>12. ASSUME NEW role \in Roles, TeammateEnds(role) PROVE Accounted'
  <2>1. /\ team' = [team EXCEPT ![role] = @ - 1] /\ team[role] > 0
        /\ roster' = IF team[role] = 1 THEN roster \ {role} ELSE roster
        /\ ghosts' = ghosts \cup ({role} \cap claims)
        /\ UNCHANGED <<claims, call>>
    BY <1>12 DEF TeammateEnds, files, Alive
  <2>2. \A r \in Roles \ {role} : Alive(r)' <=> Alive(r)
    BY <2>1 DEF Alive, Rest
  <2>3. Alive(role)' => team[role] # 1 /\ Alive(role)
    BY <2>1 DEF Alive, Rest
  <2> QED
    BY <1>3, <2>1, <2>2, <2>3
<1>13. CASE StopCto \/ DeleteCto
  <2>1. /\ \A r \in Roles : team'[r] = 0
        /\ ghosts' = ghosts \cup claims /\ claims' = claims
    BY <1>13 DEF StopCto, DeleteCto, LeadEnds, files
  <2> QED
    BY <2>1 DEF Alive
<1> QED
  BY <1>4, <1>5, <1>6, <1>7, <1>8, <1>10, <1>11, <1>12, <1>13 DEF Next, Turn

(* At first there is none.                                                 *)
LEMMA AccountedInit == Init => Accounted
  BY DEF Init, Accounted, Claimed, Listed, Alive

(* What the Stop hook demands, the dispatch and the claim gate let         *)
(* through, but for a claim of a call or a teammate that is gone.          *)
THEOREM DemandIsOpen == Spec => []NudgeAgreesWithGates
<1>1. Accounted => NudgeAgreesWithGates
  <2> SUFFICES ASSUME Accounted, NEW r \in Roles, Demanded(r)
               PROVE  /\ r = "planner" => DispatchOk("planner")
                      /\ r \in claims => r \in ghosts
    BY DEF NudgeAgreesWithGates
  <2>1. r \in Required /\ r \notin roster /\ ~InFlight(r)
    BY DEF Demanded, NoCalls, InFlight
  <2>2. r = "planner" => DispatchOk("planner")
    BY <2>1 DEF Required, DispatchOk
  <2>3. r \in claims => r \in ghosts
    BY <2>1 DEF Accounted, Claimed, Listed
  <2> QED
    BY <2>2, <2>3
<1> QED
  BY <1>1, TypeInit, AccountedInit, CallsStep, RestStep, AccountedStep, PTL DEF Spec

-----------------------------------------------------------------------------
(* ReviewGates.  Its types, that a review call closes one [review], that a *)
(* completion delivered again is not taken back, and what the accepted check*)
(* was compared with.                                                      *)

UnderWay(d) == delivery[d] # Idle

(* A fresh marker stands for a call nothing was closed on yet.             *)
FreshIsUnused == /\ fresh => reviews > 0 /\ \A s \in Segs : closedOn[s] < reviews
                 /\ \A s \in Segs : closedOn[s] <= reviews

(* A hook that is still alone found the marker fresh, and nobody else can  *)
(* have closed anything on that call since.                                *)
AloneIsAlone ==
  \A d, e \in Deliveries : UnderWay(d) /\ delivery[d].alone /\ e # d => ~UnderWay(e)
AloneIsFirst ==
  \A d \in Deliveries : UnderWay(d) /\ delivery[d].alone /\ delivery[d].pc > 0 =>
    delivery[d].review <= reviews /\ \A s \in Segs : closedOn[s] < delivery[d].review

(* A sentinel was burnt only for a grant on record; hooks on one [review]  *)
(* are of one turn, and past its first step a grant is on record.          *)
SpentIsGranted == \A t \in Segs : spent[t] # 0 => consumed[t] = spent[t]
OnePrompt ==
  \A d, e \in Deliveries :
    UnderWay(d) /\ UnderWay(e) /\ delivery[d].task = delivery[e].task
      => delivery[d].prompt = delivery[e].prompt
GrantOnRecord ==
  \A d \in Deliveries : UnderWay(d) /\ delivery[d].pc \in {2, 3} =>
    consumed[delivery[d].task] = delivery[d].prompt
NoneLate == \A d \in Deliveries : UnderWay(d) => ~delivery[d].late

(* A check under way has the baseline on disk, or knows that it was        *)
(* replaced; so has the check on disk while it is the newer file.          *)
CurrentCheck ==
  \A g \in Gates : gate[g].pc = "run" /\ gate[g].mode = "check" =>
    gate[g].base \in Baselines /\ (gate[g].base.id = base.id \/ gate[g].raced)
NewerFits == newer => check \in Checks /\ (check.against = base.id \/ check.raced)

OnceInv == FreshIsUnused /\ AloneIsAlone /\ AloneIsFirst /\ OneReviewPerCall
ReplayInv == SpentIsGranted /\ OnePrompt /\ GrantOnRecord /\ NoneLate
CheckInv == CurrentCheck /\ NewerFits
ReviewInv == ReviewTypeOK /\ OnceInv /\ ReplayInv /\ CheckInv

-----------------------------------------------------------------------------
(* What ReviewGates assumes of its constants.                              *)
LEMMA ReviewConstants ==
  /\ Segs \subseteq Nat \ {0} /\ 0 \notin Segs
  /\ Risky \subseteq Segs /\ Pytests \subseteq Segs /\ Waivable \subseteq Segs
  /\ Prompts \subseteq Nat \ {0} /\ 0 \notin Prompts
  /\ MaxReviews \in Nat /\ MaxBaselines \in Nat
  BY ReviewAssumption

(* A grant takes one step at a time.                                       *)
LEMMA StepAt ==
  ASSUME ReviewTypeOK, NEW d \in Deliveries, NEW step \in {"mark", "burn", "stamp"}, At(d, step)
  PROVE  /\ delivery[d] # Idle /\ delivery[d] \in Judging
         /\ step = "mark" => /\ delivery[d].pc = 1
              /\ delivery' = [delivery EXCEPT ![d] = [delivery[d] EXCEPT !.pc = 2]]
         /\ step = "burn" => /\ delivery[d].pc = 2
              /\ delivery' = [delivery EXCEPT ![d] = [delivery[d] EXCEPT !.pc = 3]]
         /\ step = "stamp" => /\ delivery[d].pc = 3
              /\ delivery' = [delivery EXCEPT ![d] = Idle]
<1>1. delivery[d] # Idle /\ delivery[d] \in Judging /\ delivery[d].pc \in {1, 2, 3}
  BY DEF At, ReviewTypeOK, Judging
<1>2. Steps[1] = "mark" /\ Steps[2] = "burn" /\ Steps[3] = "stamp"
  BY DEF Steps
<1>3. Steps[delivery[d].pc] = step
  BY DEF At
<1>4. /\ step = "mark" => delivery[d].pc = 1
      /\ step = "burn" => delivery[d].pc = 2
      /\ step = "stamp" => delivery[d].pc = 3
  BY <1>1, <1>2, <1>3
<1>5. delivery' = [delivery EXCEPT ![d] =
         IF step = "stamp" THEN Idle ELSE [delivery[d] EXCEPT !.pc = delivery[d].pc + 1]]
  BY DEF At
<1>6. /\ step = "mark" => delivery[d].pc + 1 = 2
      /\ step = "burn" => delivery[d].pc + 1 = 3
  BY <1>4
<1>7. CASE step = "mark"
  BY <1>1, <1>4, <1>5, <1>6, <1>7
<1>8. CASE step = "burn"
  BY <1>1, <1>4, <1>5, <1>6, <1>8
<1>9. CASE step = "stamp"
  BY <1>1, <1>4, <1>5, <1>9
<1> QED BY <1>7, <1>8, <1>9

(* The record a delivery starts with.                                      *)
First(t, p) == [pc |-> 0, task |-> t, prompt |-> p, late |-> spent[t] = p,
                alone |-> TRUE, review |-> 0]

(* A completion just delivered is one under judgement.                     *)
LEMMA FirstTyped ==
  ASSUME ReviewTypeOK, NEW t \in Segs, NEW p \in Prompts
  PROVE  First(t, p) \in Judging
<1>1. (spent[t] = p) \in BOOLEAN
  OBVIOUS
<1> QED BY <1>1, ReviewConstants DEF First, Judging

(* What becomes of the others when a completion is delivered.              *)
LEMMA Delivered ==
  ASSUME ReviewTypeOK, NEW d \in Deliveries, NEW t \in Segs, NEW p \in Prompts, Deliver(d, t, p),
         consumed[t] # p
  PROVE  /\ delivery'[d] = IF Deciding = {} THEN First(t, p)
                           ELSE IF First(t, p) = Idle THEN Idle
                           ELSE [First(t, p) EXCEPT !.alone = FALSE]
         /\ \A e \in Deliveries : e # d =>
              delivery'[e] = IF ~UnderWay(e) THEN Idle ELSE [delivery[e] EXCEPT !.alone = FALSE]
         /\ delivery' \in [Deliveries -> {Idle} \cup Judging]
<1> DEFINE dl == [delivery EXCEPT ![d] = First(t, p)]
<1>1. delivery' = IF Deciding = {} THEN dl ELSE WithCompany(dl)
  BY DEF Deliver, First
<1>2. /\ dl[d] = First(t, p) /\ \A e \in Deliveries : e # d => dl[e] = delivery[e]
      /\ dl \in [Deliveries -> {Idle} \cup Judging]
  BY FirstTyped DEF ReviewTypeOK
<1> HIDE DEF dl
<1>3. CASE Deciding = {}
  <2>1. \A e \in Deliveries : delivery[e] = Idle
    BY <1>3 DEF Deciding
  <2> QED BY <1>1, <1>2, <1>3, <2>1 DEF UnderWay
<1>4. CASE Deciding # {}
  <2>1. WithCompany(dl) \in [Deliveries -> {Idle} \cup Judging]
    BY <1>2 DEF WithCompany, Judging
  <2>2. \A e \in Deliveries : delivery'[e] = IF dl[e] = Idle THEN Idle
                                             ELSE [dl[e] EXCEPT !.alone = FALSE]
    BY <1>1, <1>4 DEF WithCompany
  <2> QED BY <1>1, <1>2, <1>4, <2>1, <2>2 DEF UnderWay
<1> QED BY <1>3, <1>4

-----------------------------------------------------------------------------
(* Types: hooks, then gates, then everything else.                         *)

HookTypes == delivery \in [Deliveries -> {Idle} \cup Judging]
GateTypes == /\ gate \in [Gates -> {Idle} \cup Running]
             /\ base \in Baselines \cup {NoBaseline} /\ check \in Checks \cup {NoCheck}
TickTypes ==
  /\ done \subseteq Segs /\ boxes \subseteq Segs
  /\ store \subseteq Segs /\ waived \subseteq Segs /\ sentinels \subseteq Segs
  /\ consumed \in [Segs -> Prompts \cup {0}] /\ spent \in [Segs -> Prompts \cup {0}]
  /\ reviews \in 0..MaxReviews /\ closedOn \in [Segs -> 0..MaxReviews]
ReviewFlags == fresh \in BOOLEAN /\ newer \in BOOLEAN

(* The types of ReviewGates in four groups.                                *)
LEMMA ReviewTypeParts == ReviewTypeOK <=> HookTypes /\ GateTypes /\ TickTypes /\ ReviewFlags
  BY DEF ReviewTypeOK, HookTypes, GateTypes, TickTypes, ReviewFlags

(* Deliveries keep their type.                                             *)
LEMMA HookTypesStep == ReviewTypeOK /\ [ReviewNext]_reviewVars => HookTypes'
<1> SUFFICES ASSUME ReviewTypeOK, [ReviewNext]_reviewVars PROVE HookTypes'
  OBVIOUS
<1>0. HookTypes
  BY ReviewTypeParts
<1>1. CASE UNCHANGED delivery
  BY <1>0, <1>1 DEF HookTypes
<1>2. ASSUME NEW d \in Deliveries, NEW t \in Segs, NEW p \in Prompts, Deliver(d, t, p)
      PROVE HookTypes'
  <2>1. CASE consumed[t] = p
    BY <1>1, <1>2, <2>1 DEF Deliver
  <2>2. CASE consumed[t] # p
    BY <1>2, <2>2, Delivered DEF HookTypes
  <2> QED BY <2>1, <2>2
<1>3. ASSUME NEW d \in Deliveries, Judge(d) PROVE HookTypes'
  BY <1>0, <1>3, ReviewTypeParts DEF Judge, HookTypes, Judging, TickTypes
<1>4. ASSUME NEW d \in Deliveries, Mark(d) \/ Burn(d) \/ Stamp(d) PROVE HookTypes'
  <2>1. PICK step \in {"mark", "burn", "stamp"} : At(d, step)
    BY <1>4 DEF Mark, Burn, Stamp
  <2> QED BY <1>0, <2>1, StepAt DEF HookTypes, Judging
<1> QED
  BY <1>1, <1>2, <1>3, <1>4
  DEF ReviewNext, Develop, Waive, Attest, ReviewSkill, GateStarts, GateBegins, GateRuns, GateEnds,
      GateDies, Tick, reviewVars

(* So do ticks, sentinels, waivers and what they are counted by.           *)
LEMMA TickTypesStep == ReviewTypeOK /\ [ReviewNext]_reviewVars => TickTypes'
<1> SUFFICES ASSUME ReviewTypeOK, [ReviewNext]_reviewVars PROVE TickTypes'
  OBVIOUS
<1>0. TickTypes
  BY ReviewTypeParts
<1> USE ReviewConstants DEF TickTypes
<1>1. CASE UNCHANGED <<done, boxes, store, waived, sentinels, consumed, spent, reviews, closedOn>>
  BY <1>0, <1>1
<1>2. ASSUME NEW s \in Segs, Develop(s) \/ Waive(s) \/ Attest(s) PROVE TickTypes'
  BY <1>0, <1>2 DEF Develop, Waive, Attest, ticks, history
<1>3. ASSUME NEW agent \in Callers, ReviewSkill(agent) PROVE TickTypes'
  BY <1>0, <1>3 DEF ReviewSkill
<1>4. ASSUME NEW d \in Deliveries, NEW t \in Segs, NEW p \in Prompts, Deliver(d, t, p)
      PROVE TickTypes'
  BY <1>0, <1>4 DEF Deliver, history
<1>5. ASSUME NEW d \in Deliveries, Judge(d) PROVE TickTypes'
  <2>1. delivery[d].task \in Segs
    BY <1>5 DEF Judge, ReviewTypeOK, Judging
  <2>2. store' \subseteq Segs
    BY <1>0, <1>5, <2>1 DEF Judge
  <2> QED BY <1>0, <1>5, <2>2 DEF Judge, history
<1>6. ASSUME NEW d \in Deliveries, Mark(d) \/ Burn(d) \/ Stamp(d) PROVE TickTypes'
  <2>1. PICK step \in {"mark", "burn", "stamp"} : At(d, step)
    BY <1>6 DEF Mark, Burn, Stamp
  <2>2. /\ delivery[d].task \in Segs /\ delivery[d].prompt \in Prompts
        /\ delivery[d].review \in 0..MaxReviews
    BY <2>1, StepAt DEF Judging
  <2>3. CASE Mark(d)
    BY <1>0, <2>2, <2>3 DEF Mark
  <2>4. CASE Burn(d)
    BY <1>0, <2>2, <2>4 DEF Burn
  <2>5. CASE Stamp(d)
    <3>1. (IF delivery[d].alone THEN delivery[d].review ELSE 0) \in 0..MaxReviews
      BY <2>2
    <3>2. closedOn' \in [Segs -> 0..MaxReviews]
      BY <1>0, <2>2, <2>5, <3>1 DEF Stamp
    <3> QED BY <1>0, <2>2, <2>5, <3>2 DEF Stamp
  <2> QED BY <1>6, <2>3, <2>4, <2>5
<1>7. ASSUME NEW S \in SUBSET Segs, NEW known \in BOOLEAN, Tick(S, known) PROVE TickTypes'
  BY <1>0, <1>7 DEF Tick, history
<1> QED
  BY <1>1, <1>2, <1>3, <1>4, <1>5, <1>6, <1>7
  DEF ReviewNext, GateStarts, GateBegins, GateRuns, GateEnds, GateDies, ticks, history, reviewVars

(* The truth values stay truth values.                                     *)
LEMMA ReviewFlagsStep == ReviewFlags /\ [ReviewNext]_reviewVars => ReviewFlags'
<1> SUFFICES ASSUME ReviewFlags, [ReviewNext]_reviewVars PROVE ReviewFlags'
  OBVIOUS
<1> USE DEF ReviewFlags
<1>1. CASE UNCHANGED <<fresh, newer>>
  BY <1>1
<1>2. ASSUME NEW agent \in Callers, ReviewSkill(agent) PROVE ReviewFlags'
  BY <1>2 DEF ReviewSkill, regress
<1>3. ASSUME NEW g \in Gates, GateEnds(g) PROVE ReviewFlags'
  BY <1>3 DEF GateEnds, ticks
<1>4. ASSUME NEW d \in Deliveries, Stamp(d) PROVE ReviewFlags'
  BY <1>4 DEF Stamp, regress
<1> QED
  BY <1>1, <1>2, <1>3, <1>4
  DEF ReviewNext, Develop, Waive, Attest, GateStarts, GateBegins, GateRuns, GateDies, Deliver,
      Judge, Mark, Burn, Tick, ticks, regress, reviewVars

-----------------------------------------------------------------------------
(* The regression gate.  A step of gate g leaves every other gate as it    *)
(* is, but for what a new baseline tells the checks under way.             *)

(* A gate process that runs has the fields of one.                         *)
LEMMA RunningIs ==
  ASSUME GateTypes, NEW g \in Gates, gate[g].pc = "run"
  PROVE  gate[g] \in Running
  BY DEF GateTypes, Idle

(* The baseline has a number and names segments, also when there is none.  *)
LEMMA BaseId ==
  ASSUME GateTypes
  PROVE  base.id \in 0..MaxBaselines /\ base.passed \subseteq Segs
  BY ReviewConstants DEF GateTypes, Baselines, NoBaseline

(* A gate that starts a check has the baseline on disk.                    *)
LEMMA Started ==
  ASSUME ReviewTypeOK, NEW g \in Gates, NEW mode \in {"baseline", "check"}, NEW s \in Segs,
         CheckInv, GateStarts(g, mode, s)
  PROVE  GateTypes' /\ CheckInv'
<1> DEFINE r == GateRun(g, mode, s)
<1>1. Selected(s) \subseteq Segs
  BY DEF Selected, Targets
<1>2. GateTypes
  BY ReviewTypeParts
<1>3. /\ r.pc = "run" /\ r.mode = mode
      /\ mode = "check" => r.base = base
  BY DEF GateRun
<1>4. (IF mode = "check" THEN base ELSE NoBaseline) \in Baselines \cup {NoBaseline}
  BY <1>2 DEF GateTypes
<1>5. r \in Running
  BY <1>1, <1>4 DEF GateRun, Running
<1>6. gate' = [gate EXCEPT ![g] = r] /\ UNCHANGED <<base, check, newer>>
  BY DEF GateStarts
<1>7. mode = "check" => base \in Baselines
  BY <1>2 DEF GateStarts, GateTypes
<1> HIDE DEF r
<1>8. GateTypes'
  BY <1>2, <1>5, <1>6 DEF GateTypes
<1>9. CurrentCheck'
  BY <1>2, <1>3, <1>6, <1>7 DEF CheckInv, CurrentCheck, GateTypes
<1> QED BY <1>6, <1>8, <1>9 DEF CheckInv, NewerFits

(* A command begins or ends, a gate dies.                                  *)
LEMMA GoesOnRunning ==
  ASSUME GateTypes, CheckInv, NEW g \in Gates, NEW r \in {Idle} \cup Running,
         gate' = [gate EXCEPT ![g] = r], UNCHANGED <<base, check, newer>>,
         r.pc = "run" => /\ gate[g].pc = "run" /\ r.mode = gate[g].mode
                         /\ r.base = gate[g].base /\ r.raced = gate[g].raced
  PROVE  GateTypes' /\ CheckInv'
<1>1. GateTypes'
  BY DEF GateTypes
<1>2. gate'[g] = r /\ \A h \in Gates : h # g => gate'[h] = gate[h]
  BY DEF GateTypes
<1>3. CurrentCheck'
  BY <1>2 DEF CheckInv, CurrentCheck
<1> QED BY <1>1, <1>3 DEF CheckInv, NewerFits

(* A baseline replaces the one on disk.                                    *)
LEMMA BaselineEnds ==
  ASSUME ReviewTypeOK, CheckInv, NEW g \in Gates, GateEnds(g), gate[g].mode = "baseline"
  PROVE  GateTypes' /\ CheckInv'
<1>1. GateTypes /\ gate[g] \in Running
  BY ReviewTypeParts, RunningIs DEF GateEnds
<1>2. base' \in Baselines /\ newer' = FALSE /\ check' = check
  <2>1. base.id + 1 \in 1..MaxBaselines
    BY <1>1, BaseId, ReviewConstants DEF GateEnds
  <2>2. gate[g].passed \subseteq Segs
    BY <1>1 DEF Running
  <2> QED BY <2>1, <2>2 DEF GateEnds, Report, Baselines
<1>3. gate' = [Outdated EXCEPT ![g] = Idle]
  BY DEF GateEnds
<1>4. \A h \in Gates :
        /\ gate'[h] = Idle \/ (gate[h].pc = "run" /\ gate'[h] = [gate[h] EXCEPT !.raced = TRUE])
             \/ (gate[h].pc # "run" /\ gate'[h] = gate[h])
  BY <1>3 DEF Outdated
<1>5. \A h \in Gates : gate'[h] \in {Idle} \cup Running
  <2> SUFFICES ASSUME NEW h \in Gates, gate[h].pc = "run"
               PROVE  [gate[h] EXCEPT !.raced = TRUE] \in Running
    BY <1>1, <1>4 DEF GateTypes
  <2> QED BY <1>1, RunningIs DEF Running
<1>6. gate' \in [Gates -> {Idle} \cup Running]
  <2>1. DOMAIN gate' = Gates /\ gate' = [h \in Gates |-> gate'[h]]
    BY <1>3 DEF Outdated
  <2> QED BY <1>5, <2>1
<1>7. CurrentCheck'
  <2> SUFFICES ASSUME NEW h \in Gates, gate'[h].pc = "run", gate'[h].mode = "check"
               PROVE  gate'[h].base \in Baselines /\ gate'[h].raced
    BY DEF CurrentCheck
  <2>1. gate'[h] # Idle
    BY DEF Idle
  <2>2. gate[h].pc = "run" /\ gate'[h] = [gate[h] EXCEPT !.raced = TRUE]
    BY <1>4, <2>1
  <2>3. gate[h] \in Running
    BY <1>1, <2>2, RunningIs
  <2>4. gate'[h].mode = gate[h].mode /\ gate'[h].base = gate[h].base /\ gate'[h].raced = TRUE
    BY <2>2, <2>3 DEF Running
  <2> QED BY <2>2, <2>4 DEF CheckInv, CurrentCheck
<1> QED BY <1>1, <1>2, <1>6, <1>7 DEF GateTypes, CheckInv, NewerFits

(* A check says what it was compared with.                                 *)
LEMMA CheckEnds ==
  ASSUME ReviewTypeOK, CheckInv, NEW g \in Gates, GateEnds(g), gate[g].mode # "baseline"
  PROVE  GateTypes' /\ CheckInv'
<1>1. GateTypes /\ gate[g] \in Running
  BY ReviewTypeParts, RunningIs DEF GateEnds
<1>2. gate[g].mode = "check" /\ gate[g].pc = "run"
  BY <1>1 DEF Running
<1>3. gate[g].base \in Baselines /\ (gate[g].base.id = base.id \/ gate[g].raced)
  BY <1>2 DEF CheckInv, CurrentCheck
<1>4. check' = Report(g) /\ newer' = TRUE /\ base' = base /\ gate' = [gate EXCEPT ![g] = Idle]
  BY DEF GateEnds
<1>5. Report(g) = [id |-> 1, bad |-> Regressions(g), against |-> gate[g].base.id,
                   raced |-> gate[g].raced]
  BY DEF Report
<1>6. Regressions(g) \subseteq Segs /\ gate[g].base.id \in 1..MaxBaselines
  BY <1>1, <1>3 DEF Regressions, Running, Baselines
<1>7. gate[g].raced \in BOOLEAN
  BY <1>1 DEF Running
<1>8. check' \in Checks
  BY <1>4, <1>5, <1>6, <1>7 DEF Checks
<1>9. check'.against = base.id \/ check'.raced
  BY <1>3, <1>4, <1>5
<1>10. GateTypes'
  BY <1>1, <1>4, <1>8 DEF GateTypes
<1>11. gate'[g] = Idle /\ \A h \in Gates : h # g => gate'[h] = gate[h]
  BY <1>1, <1>4 DEF GateTypes
<1>12. CurrentCheck'
  BY <1>4, <1>11 DEF CheckInv, CurrentCheck, Idle
<1> QED BY <1>4, <1>8, <1>9, <1>10, <1>12 DEF CheckInv, NewerFits

(* Every step keeps the gates typed and their checks current.              *)
LEMMA GateStep == ReviewTypeOK /\ CheckInv /\ [ReviewNext]_reviewVars => GateTypes' /\ CheckInv'
<1> SUFFICES ASSUME ReviewTypeOK, CheckInv, [ReviewNext]_reviewVars PROVE GateTypes' /\ CheckInv'
  OBVIOUS
<1>0. GateTypes
  BY ReviewTypeParts
<1>1. CASE UNCHANGED regress
  BY <1>0, <1>1 DEF regress, GateTypes, CheckInv, CurrentCheck, NewerFits
<1>2. ASSUME NEW g \in Gates, GateBegins(g) PROVE GateTypes' /\ CheckInv'
  <2>1. PICK s \in gate[g].left :
          gate' = [gate EXCEPT ![g].left = @ \ {s}, ![g].cmd = s]
    BY <1>2 DEF GateBegins
  <2> DEFINE r == [gate[g] EXCEPT !.left = @ \ {s}, !.cmd = s]
  <2>2. gate[g] \in Running /\ s \in Segs
    BY <1>0, <1>2, RunningIs DEF GateBegins, Running
  <2>3. r \in Running /\ gate[g].pc = "run" /\ r.mode = gate[g].mode
        /\ r.base = gate[g].base /\ r.raced = gate[g].raced
    BY <2>2 DEF Running
  <2>4. gate' = [gate EXCEPT ![g] = r]
    BY <2>1
  <2>5. UNCHANGED <<base, check, newer>>
    BY <1>2 DEF GateBegins
  <2> HIDE DEF r
  <2> QED BY <1>0, <2>3, <2>4, <2>5, GoesOnRunning
<1>3. ASSUME NEW g \in Gates, NEW passes \in BOOLEAN, GateRuns(g, passes)
      PROVE GateTypes' /\ CheckInv'
  <2> DEFINE s == gate[g].cmd
             r == [gate[g] EXCEPT !.cmd = 0,
                     !.passed = IF passes THEN @ \cup {s} ELSE @,
                     !.failed = IF passes THEN @ ELSE @ \cup {s}]
  <2>1. gate[g] \in Running /\ gate[g].cmd \in Segs
    BY <1>0, <1>3, RunningIs DEF GateRuns, Running
  <2>2. r \in Running /\ gate[g].pc = "run" /\ r.mode = gate[g].mode
        /\ r.base = gate[g].base /\ r.raced = gate[g].raced
    BY <2>1 DEF Running
  <2>3. gate' = [gate EXCEPT ![g] = r] /\ UNCHANGED <<base, check, newer>>
    BY <1>3 DEF GateRuns
  <2> HIDE DEF r
  <2> QED BY <1>0, <2>2, <2>3, GoesOnRunning
<1>4. ASSUME NEW g \in Gates, GateDies(g) PROVE GateTypes' /\ CheckInv'
  <2>1. Idle \in {Idle} \cup Running /\ Idle.pc # "run"
    BY DEF Idle
  <2> QED BY <1>0, <1>4, <2>1, GoesOnRunning DEF GateDies
<1>5. ASSUME NEW g \in Gates, GateEnds(g) PROVE GateTypes' /\ CheckInv'
  BY <1>5, BaselineEnds, CheckEnds
<1> QED
  BY <1>1, <1>2, <1>3, <1>4, <1>5, Started
  DEF ReviewNext, Develop, Waive, Attest, ReviewSkill, Deliver, Judge, Mark, Burn, Stamp,
      Tick, reviewVars

-----------------------------------------------------------------------------
(* One review call, one [review] closed.                                   *)

(* A step that leaves reviews, marker, closings and deliveries alone keeps *)
(* OnceInv.                                                                *)
LEMMA OnceUntouched ==
  ASSUME OnceInv, UNCHANGED <<fresh, reviews, closedOn, delivery>>
  PROVE  OnceInv'
  BY DEF OnceInv, FreshIsUnused, AloneIsAlone, AloneIsFirst, OneReviewPerCall, UnderWay

(* A delivery is alone only if nobody else is under way.                   *)
LEMMA OnceDelivered ==
  ASSUME ReviewTypeOK, OnceInv, NEW d \in Deliveries, NEW t \in Segs, NEW p \in Prompts,
         Deliver(d, t, p)
  PROVE  OnceInv'
<1>0. UNCHANGED <<fresh, reviews, closedOn>>
  BY DEF Deliver, history
<1>1. CASE consumed[t] = p
  BY <1>0, <1>1, OnceUntouched DEF Deliver
<1>2. CASE consumed[t] # p
  <2>1. FreshIsUnused' /\ OneReviewPerCall'
    BY <1>0 DEF OnceInv, FreshIsUnused, OneReviewPerCall
  <2>2. First(t, p) \in Judging /\ First(t, p).pc = 0
    BY FirstTyped DEF First
  <2>3. CASE Deciding = {}
    <3>1. delivery'[d] = First(t, p) /\ \A e \in Deliveries : e # d => delivery'[e] = Idle
      BY <1>2, <2>3, Delivered DEF Deciding, UnderWay
    <3>2. AloneIsAlone'
      BY <3>1 DEF AloneIsAlone, UnderWay
    <3>3. AloneIsFirst'
      BY <2>2, <3>1 DEF AloneIsFirst, UnderWay
    <3> QED BY <2>1, <3>2, <3>3 DEF OnceInv
  <2>4. CASE Deciding # {}
    <3>1. \A e \in Deliveries : delivery'[e] # Idle => delivery'[e].alone = FALSE
      <4> SUFFICES ASSUME NEW e \in Deliveries, delivery'[e] # Idle
                   PROVE  delivery'[e].alone = FALSE
        OBVIOUS
      <4>1. CASE e = d
        BY <1>2, <2>2, <2>4, <4>1, Delivered DEF Judging
      <4>2. CASE e # d
        <5>1. delivery'[e] = [delivery[e] EXCEPT !.alone = FALSE] /\ delivery[e] \in Judging
          BY <1>2, <4>2, Delivered DEF ReviewTypeOK, UnderWay
        <5> QED BY <5>1 DEF Judging
      <4> QED BY <4>1, <4>2
    <3>2. AloneIsAlone' /\ AloneIsFirst'
      BY <3>1 DEF AloneIsAlone, AloneIsFirst, UnderWay
    <3> QED BY <2>1, <3>2 DEF OnceInv
  <2> QED BY <2>3, <2>4
<1> QED BY <1>1, <1>2

(* A hook that takes a step, or leaves, gives nobody company and loses     *)
(* none.                                                                   *)
LEMMA OnceJudged ==
  ASSUME ReviewTypeOK, OnceInv, NEW d \in Deliveries, Judge(d)
  PROVE  OnceInv'
<1>0. UNCHANGED <<fresh, reviews, closedOn>> /\ UnderWay(d)
  BY DEF Judge, history, UnderWay
<1>1. FreshIsUnused' /\ OneReviewPerCall'
  BY <1>0 DEF OnceInv, FreshIsUnused, OneReviewPerCall
<1>2. CASE delivery' = [delivery EXCEPT ![d] = Idle]
  <2>1. delivery'[d] = Idle /\ \A e \in Deliveries : e # d => delivery'[e] = delivery[e]
    BY <1>2 DEF ReviewTypeOK
  <2>2. AloneIsAlone' /\ AloneIsFirst'
    BY <1>0, <2>1 DEF OnceInv, AloneIsAlone, AloneIsFirst, UnderWay
  <2> QED BY <1>1, <2>2 DEF OnceInv
<1>3. CASE delivery' # [delivery EXCEPT ![d] = Idle]
  <2> DEFINE r == [delivery[d] EXCEPT !.pc = 1, !.review = reviews]
  <2>1. delivery' = [delivery EXCEPT ![d] = r] /\ fresh
    BY <1>3 DEF Judge, Verified, ReviewOk
  <2>2. delivery[d] \in Judging
    BY <1>0 DEF ReviewTypeOK, UnderWay
  <2>3. r.alone = delivery[d].alone /\ r.review = reviews
    BY <2>2 DEF Judging
  <2> HIDE DEF r
  <2>4. delivery'[d] = r /\ \A e \in Deliveries : e # d => delivery'[e] = delivery[e]
    BY <2>1 DEF ReviewTypeOK
  <2>5. AloneIsAlone'
    BY <1>0, <2>3, <2>4 DEF OnceInv, AloneIsAlone, UnderWay
  <2>6. AloneIsFirst'
    <3>1. reviews \in Nat /\ \A s \in Segs : closedOn[s] < reviews
      BY <2>1, ReviewConstants DEF OnceInv, FreshIsUnused, ReviewTypeOK
    <3> SUFFICES ASSUME NEW e \in Deliveries, UnderWay(e)', delivery'[e].alone,
                        delivery'[e].pc > 0
                 PROVE  /\ delivery'[e].review <= reviews'
                        /\ \A s \in Segs : closedOn'[s] < delivery'[e].review
      BY DEF AloneIsFirst
    <3>2. CASE e = d
      BY <1>0, <2>3, <2>4, <3>1, <3>2
    <3>3. CASE e # d
      BY <1>0, <2>4, <3>3 DEF OnceInv, AloneIsFirst, UnderWay
    <3> QED BY <3>2, <3>3
  <2> QED BY <1>1, <2>5, <2>6 DEF OnceInv
<1> QED BY <1>2, <1>3

(* So do the first two steps of a grant, which close nothing yet.          *)
LEMMA OnceGranting ==
  ASSUME ReviewTypeOK, OnceInv, NEW d \in Deliveries, Mark(d) \/ Burn(d)
  PROVE  OnceInv'
<1>0. UNCHANGED <<fresh, reviews, closedOn>>
  BY DEF Mark, Burn
<1>1. PICK step \in {"mark", "burn"} : At(d, step)
  BY DEF Mark, Burn
<1>2. PICK n \in {2, 3} : delivery' = [delivery EXCEPT ![d] = [delivery[d] EXCEPT !.pc = n]]
  BY <1>1, StepAt
<1>3. /\ delivery[d] # Idle /\ delivery[d] \in Judging /\ delivery[d].pc \in {1, 2}
  BY <1>1, StepAt
<1> DEFINE r == [delivery[d] EXCEPT !.pc = n]
<1>4. r.alone = delivery[d].alone /\ r.review = delivery[d].review /\ r.pc = n
  BY <1>3 DEF Judging
<1>5. delivery' = [delivery EXCEPT ![d] = r]
  BY <1>2
<1> HIDE DEF r
<1>6. delivery'[d] = r /\ \A e \in Deliveries : e # d => delivery'[e] = delivery[e]
  BY <1>5 DEF ReviewTypeOK
<1>7. AloneIsAlone'
  BY <1>3, <1>4, <1>6 DEF OnceInv, AloneIsAlone, UnderWay
<1>8. AloneIsFirst'
  BY <1>0, <1>3, <1>4, <1>6 DEF OnceInv, AloneIsFirst, UnderWay
<1> QED BY <1>0, <1>7, <1>8 DEF OnceInv, FreshIsUnused, OneReviewPerCall

(* The call is spent: the marker is stale now, and the [review] is the     *)
(* only one closed on it, unless others were under way.                    *)
LEMMA OnceStamped ==
  ASSUME ReviewTypeOK, OnceInv, NEW d \in Deliveries, Stamp(d)
  PROVE  OnceInv'
<1> DEFINE t == delivery[d].task
           n == IF delivery[d].alone THEN delivery[d].review ELSE 0
<1>1. /\ delivery[d] # Idle /\ delivery[d] \in Judging /\ delivery[d].pc = 3
      /\ delivery' = [delivery EXCEPT ![d] = Idle]
  BY StepAt DEF Stamp
<1>2. fresh' = FALSE /\ reviews' = reviews /\ closedOn' = [closedOn EXCEPT ![t] = n]
  BY DEF Stamp
<1>3. t \in Segs /\ delivery[d].review \in 0..MaxReviews
  BY <1>1 DEF Judging
<1>4. closedOn'[t] = n /\ \A s \in Segs : s # t => closedOn'[s] = closedOn[s]
  BY <1>2, <1>3 DEF ReviewTypeOK
<1>5. n = 0 \/ (n <= reviews /\ \A s \in Segs : closedOn[s] < n)
  BY <1>1 DEF OnceInv, AloneIsFirst, UnderWay
<1>6. n \in Nat /\ reviews \in Nat /\ \A s \in Segs : closedOn[s] \in Nat
  BY <1>3, ReviewConstants DEF ReviewTypeOK
<1> HIDE DEF n, t
<1>7. FreshIsUnused'
  BY <1>2, <1>4, <1>5, <1>6 DEF OnceInv, FreshIsUnused
<1>8. OneReviewPerCall'
  <2> SUFFICES ASSUME NEW s \in Segs, NEW u \in Segs, s # u, closedOn'[s] # 0
               PROVE  closedOn'[s] # closedOn'[u]
    BY DEF OneReviewPerCall
  <2>1. CASE s = t
    <3>1. u # t /\ closedOn'[u] = closedOn[u] /\ closedOn'[s] = n /\ closedOn[u] < n
      BY <2>1, <1>4, <1>5
    <3> QED BY <3>1, <1>6
  <2>2. CASE u = t
    <3>1. s # t /\ closedOn'[s] = closedOn[s] /\ closedOn'[u] = n
      BY <2>2, <1>4
    <3> QED BY <3>1, <1>5, <1>6
  <2>3. CASE s # t /\ u # t
    BY <2>3, <1>4 DEF OnceInv, OneReviewPerCall
  <2> QED BY <2>1, <2>2, <2>3
<1>9. delivery'[d] = Idle /\ \A e \in Deliveries : e # d => delivery'[e] = delivery[e]
  BY <1>1 DEF ReviewTypeOK
<1>10. AloneIsAlone'
  BY <1>9 DEF OnceInv, AloneIsAlone, UnderWay
(* Anybody else under way has company by now.                              *)
<1>11. AloneIsFirst'
  <2> SUFFICES ASSUME NEW e \in Deliveries, UnderWay(e)', delivery'[e].alone PROVE FALSE
    BY DEF AloneIsFirst
  <2>1. e # d /\ delivery'[e] = delivery[e]
    BY <1>9 DEF UnderWay
  <2> QED BY <1>1, <2>1 DEF OnceInv, AloneIsAlone, UnderWay
<1> QED BY <1>7, <1>8, <1>10, <1>11 DEF OnceInv

(* A new review call is one nothing was closed on.                         *)
LEMMA OnceCalled ==
  ASSUME ReviewTypeOK, OnceInv, NEW agent \in Callers, ReviewSkill(agent)
  PROVE  OnceInv'
<1>1. UNCHANGED <<closedOn, delivery>>
  BY DEF ReviewSkill
<1>2. reviews \in Nat /\ \A s \in Segs : closedOn[s] \in Nat
  BY ReviewConstants DEF ReviewTypeOK
<1>3. /\ reviews' \in {reviews, reviews + 1}
      /\ fresh' => (fresh /\ reviews' = reviews) \/ reviews' = reviews + 1
  BY DEF ReviewSkill
<1>4. FreshIsUnused'
  BY <1>1, <1>2, <1>3 DEF OnceInv, FreshIsUnused
<1>5. AloneIsFirst'
  <2> SUFFICES ASSUME NEW d \in Deliveries, UnderWay(d), delivery[d].alone, delivery[d].pc > 0
               PROVE  /\ delivery[d].review <= reviews'
                      /\ \A s \in Segs : closedOn[s] < delivery[d].review
    BY <1>1 DEF AloneIsFirst, UnderWay
  <2>1. /\ delivery[d].review <= reviews
        /\ \A s \in Segs : closedOn[s] < delivery[d].review
    BY DEF OnceInv, AloneIsFirst
  <2>2. delivery[d].review \in Nat
    BY ReviewConstants DEF ReviewTypeOK, UnderWay, Judging
  <2> QED BY <2>1, <2>2, <1>2, <1>3
<1> QED BY <1>1, <1>4, <1>5 DEF OnceInv, AloneIsAlone, OneReviewPerCall, UnderWay

(* Every step keeps OnceInv.                                               *)
LEMMA OnceStep == ReviewTypeOK /\ OnceInv /\ [ReviewNext]_reviewVars => OnceInv'
<1> SUFFICES ASSUME ReviewTypeOK, OnceInv, [ReviewNext]_reviewVars PROVE OnceInv'
  OBVIOUS
<1>1. UNCHANGED <<fresh, reviews, closedOn, delivery>> => OnceInv'
  BY OnceUntouched
<1> QED
  BY <1>1, OnceDelivered, OnceJudged, OnceGranting, OnceStamped, OnceCalled
  DEF ReviewNext, Develop, Waive, Attest, GateStarts, GateBegins, GateRuns, GateEnds, GateDies,
      Tick, ticks, history, reviewVars

-----------------------------------------------------------------------------
(* A grant is on record before its sentinel goes.                          *)

(* What a hook under way is about does not change.                         *)
SameErrand(e) ==
  UnderWay(e)' => /\ UnderWay(e) /\ delivery'[e].task = delivery[e].task
                /\ delivery'[e].prompt = delivery[e].prompt
                /\ delivery'[e].late = delivery[e].late
SamePlace(e) == UnderWay(e)' => delivery'[e].pc = delivery[e].pc

(* A step that changes no grant and moves no delivery into one keeps       *)
(* ReplayInv.                                                              *)
LEMMA ReplayUntouched ==
  ASSUME ReplayInv, UNCHANGED <<consumed, spent>>,
         \A e \in Deliveries : SameErrand(e),
         \A e \in Deliveries : SamePlace(e) \/ (UnderWay(e)' => delivery'[e].pc \notin {2, 3})
  PROVE  ReplayInv'
<1>1. SpentIsGranted'
  BY DEF ReplayInv, SpentIsGranted
<1>2. OnePrompt'
  BY DEF ReplayInv, OnePrompt, SameErrand
<1>3. GrantOnRecord'
  BY DEF ReplayInv, GrantOnRecord, SameErrand, SamePlace
<1>4. NoneLate'
  BY DEF ReplayInv, NoneLate, SameErrand
<1> QED BY <1>1, <1>2, <1>3, <1>4 DEF ReplayInv

(* A completion whose sentinel was burnt is on record, and never judged    *)
(* again under that prompt.                                                *)
LEMMA ReplayDelivered ==
  ASSUME ReviewTypeOK, ReplayInv, NEW d \in Deliveries, NEW t \in Segs, NEW p \in Prompts,
         Deliver(d, t, p)
  PROVE  ReplayInv'
<1>0. UNCHANGED <<consumed, spent>> /\ delivery[d] = Idle
  BY DEF Deliver, history
<1>1. CASE consumed[t] = p
  BY <1>0, <1>1, ReplayUntouched DEF Deliver, SameErrand, SamePlace, UnderWay
<1>2. CASE consumed[t] # p
  <2>1. p # 0 /\ spent[t] # p
    BY <1>2, ReviewConstants DEF ReplayInv, SpentIsGranted
  <2>2. /\ First(t, p) \in Judging /\ First(t, p).pc = 0 /\ First(t, p).task = t
        /\ First(t, p).prompt = p /\ ~First(t, p).late
    BY <2>1, FirstTyped DEF First
  <2>3. UnderWay(d)' => /\ delivery'[d].pc = 0 /\ delivery'[d].task = t
                      /\ delivery'[d].prompt = p /\ ~delivery'[d].late
    <3> DEFINE f == First(t, p)
    <3>1. delivery'[d] = Idle \/ delivery'[d] = f \/ delivery'[d] = [f EXCEPT !.alone = FALSE]
      BY <1>2, Delivered
    <3>2. f \in Judging /\ f.pc = 0 /\ f.task = t /\ f.prompt = p /\ ~f.late
      BY <2>2
    <3> HIDE DEF f
    <3>3. LET g == [f EXCEPT !.alone = FALSE]
          IN g.pc = 0 /\ g.task = t /\ g.prompt = p /\ g.late = f.late
      BY <3>2 DEF Judging
    <3> QED BY <3>1, <3>2, <3>3 DEF UnderWay
  <2>4. ASSUME NEW e \in Deliveries, e # d PROVE SameErrand(e) /\ SamePlace(e)
    <3>1. delivery'[e] = IF ~UnderWay(e) THEN Idle ELSE [delivery[e] EXCEPT !.alone = FALSE]
      BY <1>2, <2>4, Delivered
    <3>2. CASE ~UnderWay(e)
      BY <3>1, <3>2 DEF SameErrand, SamePlace, UnderWay
    <3>3. CASE UnderWay(e)
      <4>1. delivery[e] \in Judging
        BY <3>3 DEF ReviewTypeOK, UnderWay
      <4> QED BY <3>1, <3>3, <4>1 DEF SameErrand, SamePlace, Judging
    <3> QED BY <3>2, <3>3
  <2>5. \A e \in Deliveries : UnderWay(e) /\ delivery[e].task = t => delivery[e].prompt = p
    BY DEF Deliver, Deciding, UnderWay
  <2>6. SpentIsGranted'
    BY <1>0 DEF ReplayInv, SpentIsGranted
  <2>7. OnePrompt'
    <3> SUFFICES ASSUME NEW a \in Deliveries, NEW b \in Deliveries, UnderWay(a)', UnderWay(b)',
                        delivery'[a].task = delivery'[b].task
                 PROVE  delivery'[a].prompt = delivery'[b].prompt
      BY DEF OnePrompt
    <3>1. CASE a = d /\ b = d
      BY <3>1
    <3>2. CASE a = d /\ b # d
      BY <2>3, <2>4, <2>5, <3>2 DEF SameErrand
    <3>3. CASE a # d /\ b = d
      BY <2>3, <2>4, <2>5, <3>3 DEF SameErrand
    <3>4. CASE a # d /\ b # d
      BY <2>4, <3>4 DEF SameErrand, ReplayInv, OnePrompt
    <3> QED BY <3>1, <3>2, <3>3, <3>4
  <2>8. GrantOnRecord'
    <3> SUFFICES ASSUME NEW e \in Deliveries, UnderWay(e)', delivery'[e].pc \in {2, 3}
                 PROVE  consumed[delivery'[e].task] = delivery'[e].prompt
      BY <1>0 DEF GrantOnRecord
    <3>1. e # d
      BY <2>3
    <3> QED BY <2>4, <3>1 DEF SameErrand, SamePlace, ReplayInv, GrantOnRecord
  <2>9. NoneLate'
    <3> SUFFICES ASSUME NEW e \in Deliveries, UnderWay(e)' PROVE ~delivery'[e].late
      BY DEF NoneLate
    <3> QED BY <2>3, <2>4 DEF SameErrand, ReplayInv, NoneLate
  <2> QED BY <2>6, <2>7, <2>8, <2>9 DEF ReplayInv
<1> QED BY <1>1, <1>2

(* A step of one hook keeps its errand.                                    *)
LEMMA HookMoves ==
  ASSUME ReviewTypeOK, NEW d \in Deliveries, delivery[d] \in Judging, UnderWay(d), NEW r,
         delivery' = [delivery EXCEPT ![d] = r],
         r = Idle \/ /\ r.task = delivery[d].task /\ r.prompt = delivery[d].prompt
                     /\ r.late = delivery[d].late
  PROVE  /\ \A e \in Deliveries : SameErrand(e) /\ (e # d => SamePlace(e))
         /\ delivery'[d] = r
  BY DEF ReviewTypeOK, SameErrand, SamePlace, UnderWay

(* So do the judgement, which has no grant yet, and the stamp, its end.    *)
LEMMA ReplayJudged ==
  ASSUME ReviewTypeOK, ReplayInv, NEW d \in Deliveries, Judge(d) \/ Stamp(d)
  PROVE  ReplayInv'
<1>0. UNCHANGED <<consumed, spent>>
  BY DEF Judge, Stamp, history
<1>1. UnderWay(d) /\ delivery[d] \in Judging
  BY StepAt DEF Judge, Stamp, UnderWay, ReviewTypeOK
<1>2. CASE delivery' = [delivery EXCEPT ![d] = Idle]
  BY <1>0, <1>1, <1>2, HookMoves, ReplayUntouched DEF UnderWay
<1>3. CASE delivery' # [delivery EXCEPT ![d] = Idle]
  <2> DEFINE r == [delivery[d] EXCEPT !.pc = 1, !.review = reviews]
  <2>1. delivery' = [delivery EXCEPT ![d] = r]
    BY <1>3, StepAt DEF Judge, Stamp
  <2>2. /\ r.task = delivery[d].task /\ r.prompt = delivery[d].prompt
        /\ r.late = delivery[d].late /\ r.pc = 1
    BY <1>1 DEF Judging
  <2> HIDE DEF r
  <2>3. /\ \A e \in Deliveries : SameErrand(e) /\ (e # d => SamePlace(e))
        /\ delivery'[d] = r
    BY <1>1, <2>1, <2>2, HookMoves
  <2>4. delivery'[d].pc \notin {2, 3}
    BY <2>2, <2>3
  <2> QED BY <1>0, <2>3, <2>4, ReplayUntouched
<1> QED BY <1>2, <1>3

(* The grant goes on record; whoever else judges the [review] is of the    *)
(* same turn and finds it there.                                           *)
LEMMA ReplayGranting ==
  ASSUME ReviewTypeOK, ReplayInv, NEW d \in Deliveries, Mark(d) \/ Burn(d)
  PROVE  ReplayInv'
<1> DEFINE t == delivery[d].task
           p == delivery[d].prompt
<1>1. PICK step \in {"mark", "burn"} :
        At(d, step) /\ (step = "mark" => Mark(d)) /\ (step = "burn" => Burn(d))
  BY DEF Mark, Burn
<1>2. PICK n \in {2, 3} : delivery' = [delivery EXCEPT ![d] = [delivery[d] EXCEPT !.pc = n]]
  BY <1>1, StepAt
<1>3. /\ UnderWay(d) /\ delivery[d] \in Judging /\ t \in Segs /\ p \in Prompts
      /\ step = "burn" => delivery[d].pc = 2
  BY <1>1, StepAt DEF UnderWay, Judging
<1> DEFINE r == [delivery[d] EXCEPT !.pc = n]
<1>4. r.task = t /\ r.prompt = p /\ r.late = delivery[d].late /\ r.pc = n
  BY <1>3 DEF Judging
<1>5. delivery' = [delivery EXCEPT ![d] = r]
  BY <1>2
<1> HIDE DEF r
<1>6. /\ \A e \in Deliveries : SameErrand(e) /\ (e # d => SamePlace(e))
      /\ delivery'[d] = r
  BY <1>3, <1>4, <1>5, HookMoves
<1>7. /\ consumed'[t] = p /\ \A u \in Segs : u # t => consumed'[u] = consumed[u]
      /\ spent'[t] \in {0, p} /\ \A u \in Segs : u # t => spent'[u] = spent[u]
  <2>1. CASE step = "mark"
    BY <1>1, <1>3, <2>1 DEF Mark, ReviewTypeOK
  <2>2. CASE step = "burn"
    <3>1. consumed[t] = p /\ consumed' = consumed
      BY <1>1, <1>3, <2>2 DEF Burn, ReplayInv, GrantOnRecord
    <3> QED BY <1>1, <1>3, <2>2, <3>1 DEF Burn, ReviewTypeOK
  <2> QED BY <2>1, <2>2
<1>8. SpentIsGranted'
  BY <1>7 DEF ReplayInv, SpentIsGranted
<1>9. OnePrompt' /\ NoneLate'
  BY <1>6 DEF ReplayInv, OnePrompt, NoneLate, SameErrand
<1>10. GrantOnRecord'
  <2> SUFFICES ASSUME NEW e \in Deliveries, UnderWay(e)', delivery'[e].pc \in {2, 3}
               PROVE  consumed'[delivery'[e].task] = delivery'[e].prompt
    BY DEF GrantOnRecord
  <2>1. /\ UnderWay(e) /\ delivery'[e].task = delivery[e].task
        /\ delivery'[e].prompt = delivery[e].prompt
    BY <1>6 DEF SameErrand
  <2>2. delivery[e].task \in Segs
    BY <2>1 DEF ReviewTypeOK, UnderWay, Judging
  <2>3. CASE delivery[e].task = t
    BY <1>3, <1>7, <2>1, <2>3 DEF ReplayInv, OnePrompt
  <2>4. CASE delivery[e].task # t
    <3>1. e # d
      BY <2>4
    <3> QED BY <1>6, <1>7, <2>1, <2>2, <2>4, <3>1 DEF SamePlace, ReplayInv, GrantOnRecord
  <2> QED BY <2>3, <2>4
<1> QED BY <1>8, <1>9, <1>10 DEF ReplayInv

(* Every step keeps ReplayInv.                                             *)
LEMMA ReplayStep == ReviewTypeOK /\ ReplayInv /\ [ReviewNext]_reviewVars => ReplayInv'
<1> SUFFICES ASSUME ReviewTypeOK, ReplayInv, [ReviewNext]_reviewVars PROVE ReplayInv'
  OBVIOUS
<1>1. UNCHANGED <<consumed, spent, delivery>> => ReplayInv'
  BY ReplayUntouched DEF SameErrand, SamePlace, UnderWay
<1> QED
  BY <1>1, ReplayDelivered, ReplayJudged, ReplayGranting
  DEF ReviewNext, Develop, Waive, Attest, ReviewSkill, GateStarts, GateBegins, GateRuns, GateEnds,
      GateDies, Tick, ticks, history, reviewVars

-----------------------------------------------------------------------------
(* The invariant of ReviewGates holds at first.                            *)
LEMMA ReviewInitHolds == ReviewInit => ReviewInv
<1> SUFFICES ASSUME ReviewInit PROVE ReviewInv
  OBVIOUS
<1>1. HookTypes /\ GateTypes /\ TickTypes
  BY ReviewConstants DEF ReviewInit, HookTypes, GateTypes, TickTypes
<1>2. ReviewFlags
  BY DEF ReviewInit, ReviewFlags
<1>3. OnceInv /\ ReplayInv /\ CheckInv
  BY DEF ReviewInit, OnceInv, ReplayInv, CheckInv, FreshIsUnused, AloneIsAlone, AloneIsFirst,
         OneReviewPerCall, SpentIsGranted, OnePrompt, GrantOnRecord, NoneLate, CurrentCheck,
         NewerFits, UnderWay, Idle
<1> QED BY <1>1, <1>2, <1>3, ReviewTypeParts DEF ReviewInv

(* Every step keeps it.                                                    *)
LEMMA ReviewInductive == ReviewInv /\ [ReviewNext]_reviewVars => ReviewInv'
<1> SUFFICES ASSUME ReviewInv, [ReviewNext]_reviewVars PROVE ReviewInv'
  OBVIOUS
<1>1. HookTypes' /\ GateTypes' /\ TickTypes' /\ ReviewFlags'
  BY ReviewTypeParts, HookTypesStep, GateStep, TickTypesStep, ReviewFlagsStep DEF ReviewInv
<1>2. ReviewTypeOK'
  BY <1>1 DEF ReviewTypeOK, HookTypes, GateTypes, TickTypes, ReviewFlags
<1> QED BY <1>2, GateStep, OnceStep, ReplayStep DEF ReviewInv

(* It holds always: marker, sentinels, grants and checks fit together.     *)
THEOREM ReviewInvariance == ReviewSpec => []ReviewInv
  BY ReviewInitHolds, ReviewInductive, PTL DEF ReviewSpec

(* Tasks, hooks and gates keep their types, for any number of each.        *)
THEOREM ReviewTypeCorrect == ReviewSpec => []ReviewTypeOK
<1>1. ReviewInv => ReviewTypeOK
  BY DEF ReviewInv
<1> QED BY <1>1, ReviewInvariance, PTL

(* Two [review]s closed on one call of the review skill were judged at the *)
(* same time, however many hooks run and whatever else the lead does.      *)
THEOREM CallClosesOne == ReviewSpec => []OneReviewPerCall
<1>1. ReviewInv => OneReviewPerCall
  BY DEF ReviewInv, OnceInv
<1> QED BY <1>1, ReviewInvariance, PTL

(* The check that both hooks accept was compared with the baseline on disk *)
(* or was under way when that one was recorded.                            *)
THEOREM CheckFitsBaseline == ReviewSpec => []ComparedWithBaseline
<1>1. ReviewInv => ComparedWithBaseline
  BY DEF ReviewInv, CheckInv, NewerFits, ComparedWithBaseline, RegressionOk
<1> QED BY <1>1, ReviewInvariance, PTL

(* A completion delivered again is replayed: no delivery is judged whose   *)
(* sentinel its own prompt has burnt, so none is taken back.               *)
THEOREM Replayed == ReviewSpec => RedeliveryReplayed
<1>1. ReviewInv /\ [ReviewNext]_reviewVars =>
        [\A d \in Deliveries :
           delivery[d] # Idle /\ delivery'[d] = Idle /\ delivery[d].late
           => delivery[d].task \in store']_reviewVars
  BY DEF ReviewInv, ReplayInv, NoneLate, UnderWay
<1> QED BY <1>1, ReviewInvariance, PTL DEF ReviewSpec, RedeliveryReplayed

=============================================================================
