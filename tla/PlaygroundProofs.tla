--------------------------- MODULE PlaygroundProofs ---------------------------
(***************************************************************************)
(* The log of every generation tells its story, and the badge of the page  *)
(* is right at rest, for any number of generations, texts and attempts.    *)
(***************************************************************************)
EXTENDS Playground, TLAPS

USE GenerationAssumption, PlaygroundAssumption

(***************************************************************************)
(* One generation. What the log holds is tied to where its handler is.     *)
(***************************************************************************)
Places == {"away", "opening", "calling", "validating", "checking",
           "failing", "inserting", "refusing", "ended"}
RowTypes == [status : {"absent", "running", "completed", "failed", "purged"},
             scene : Texts \cup {NoText}]

\* The attempts but the last did not validate, and their numbers grow.
Grows(log) == \A i \in 1..(Len(log) - 1) :
                 log[i].invalid /\ ~log[i].failed /\ log[i].attempt < log[i + 1].attempt

\* Every attempt so far did not validate and has a number below a.
Below(log, a) ==
  /\ Grows(log)
  /\ \A i \in 1..Len(log) : log[i].invalid /\ ~log[i].failed /\ log[i].attempt < a

\* Where a handler is, the row is and the log is.
PlaceInv(g) ==
  /\ handler[g] \in {"away", "opening"} =>
       attempt[g] = 0 /\ attempts[g] = <<>> /\ row[g].status = "absent"
  /\ handler[g] \in {"calling", "validating", "checking", "inserting"} =>
       keyed /\ attempt[g] \in 1..MaxAttempts
  /\ ~keyed => attempt[g] = 0 /\ attempts[g] = <<>>
  /\ handler[g] \in {"calling", "validating"} => Below(attempts[g], attempt[g])
  /\ handler[g] \in {"validating", "checking", "inserting"} => scene[g] \in Texts
  /\ handler[g] \in {"checking", "inserting"} => scene[g] \in Valid
  /\ handler[g] = "checking" =>
       (Len(attempts[g]) > 0 => ~attempts[g][Len(attempts[g])].failed)
  /\ row[g].status \in {"completed", "failed", "purged"} =>
       handler[g] \in {"inserting", "refusing", "ended"}
  /\ Grows(attempts[g])

CompletedInv(g) ==
  row[g].status = "completed" =>
    /\ row[g].scene \in Valid \ Long /\ row[g].scene = scene[g]
    /\ Len(attempts[g]) > 0 => ~attempts[g][Len(attempts[g])].failed

\* What holds while no call on the store has failed.
KeptInv(g) ==
  LET log == attempts[g]
      n == Len(log)
  IN  (stored /\ ~missed[g] /\ row[g].status # "purged") =>
        /\ n = attempt[g] - (IF handler[g] \in {"calling", "validating"} THEN 1 ELSE 0)
        /\ handler[g] \in {"calling", "validating", "checking", "failing"} => row[g].status = "running"
        /\ handler[g] = "checking" => log[n].scene = scene[g] /\ ~log[n].invalid
        /\ handler[g] = "failing" =>
             ~keyed \/ (n > 0 /\ (log[n].failed \/ (log[n].invalid /\ log[n].attempt = MaxAttempts)))
        /\ handler[g] \in {"inserting", "refusing", "ended"} => row[g].status \in {"completed", "failed"}
        /\ handler[g] = "inserting" =>
             row[g].status = "completed" /\ log[n].scene = row[g].scene /\ ~log[n].invalid
        /\ row[g].status = "failed" =>
             \/ ~keyed /\ n = 0
             \/ n > 0 /\ \/ log[n].failed \/ log[n].scene \in Long
                         \/ log[n].invalid /\ log[n].attempt = MaxAttempts

LogInv(g) == PlaceInv(g) /\ CompletedInv(g) /\ KeptInv(g)

StoryInv == GenerationTypeOK /\ \A g \in Generations : LogInv(g)

LEMMA StoryImpliesLog == StoryInv => LogTellsTheStory
  BY DEF StoryInv, LogTellsTheStory, LogInv, PlaceInv, CompletedInv, KeptInv, Grows, GenerationTypeOK

\* A step that leaves a generation's state alone leaves what is known of it.
LEMMA Others ==
  ASSUME NEW h, LogInv(h), UNCHANGED <<stored, keyed>>,
         handler'[h] = handler[h], attempt'[h] = attempt[h], scene'[h] = scene[h],
         row'[h] = row[h], attempts'[h] = attempts[h], missed'[h] = missed[h]
  PROVE  LogInv(h)'
  BY DEF LogInv, PlaceInv, CompletedInv, KeptInv, Grows, Below

\* To carry the invariant over a step of g it is enough to look at g.
LEMMA OneMoves ==
  ASSUME StoryInv, NEW g \in Generations, UNCHANGED <<stored, keyed>>, GenerationTypeOK', LogInv(g)',
         \A h \in Generations \ {g} :
           /\ handler'[h] = handler[h] /\ attempt'[h] = attempt[h] /\ scene'[h] = scene[h]
           /\ row'[h] = row[h] /\ attempts'[h] = attempts[h] /\ missed'[h] = missed[h]
  PROVE  StoryInv'
<1>1. SUFFICES ASSUME NEW h \in Generations \ {g} PROVE LogInv(h)'
  BY DEF StoryInv
<1>2. LogInv(h)
  BY DEF StoryInv
<1>. QED
  BY <1>2, Others

LEMMA StoryInit == Init => StoryInv
  BY DEF Init, GenerationInit, StoryInv, GenerationTypeOK, LogInv, PlaceInv, CompletedInv,
         KeptInv, Grows, NoRow

LEMMA StoryVanish ==
  ASSUME StoryInv, NEW g \in Generations, Vanish(g), UNCHANGED <<stored, keyed>>
  PROVE  StoryInv'
<1>1. GenerationTypeOK'
  BY DEF StoryInv, GenerationTypeOK, Vanish
<1>2. LogInv(g)
  BY DEF StoryInv
<1>3. LogInv(g)'
  BY <1>2, Others DEF Vanish
<1>. QED
  BY <1>1, <1>3, OneMoves DEF Vanish

LEMMA StoryPurge ==
  ASSUME StoryInv, NEW g \in Generations, Purge(g), UNCHANGED <<stored, keyed>>
  PROVE  StoryInv'
<1>1. GenerationTypeOK'
  <2>1. /\ row' \in [Generations -> RowTypes]
        /\ attempts' \in [Generations -> Seq(AttemptRows)]
    <3>1. <<>> \in Seq(AttemptRows) /\ row[g] \in RowTypes
      BY DEF StoryInv, GenerationTypeOK, RowTypes
    <3>. QED
      BY <3>1 DEF StoryInv, GenerationTypeOK, Purge, RowTypes
  <2>. QED
    BY <2>1 DEF StoryInv, GenerationTypeOK, Purge, RowTypes
<1>2. /\ row'[g].status = "purged" /\ attempts'[g] = <<>>
      /\ handler[g] \in {"inserting", "refusing", "ended"}
  BY DEF StoryInv, GenerationTypeOK, LogInv, PlaceInv, Purge
<1>3. LogInv(g)'
  BY <1>2 DEF StoryInv, LogInv, PlaceInv, CompletedInv, KeptInv, Grows, Purge
<1>. QED
  BY <1>1, <1>3, OneMoves DEF Purge, StoryInv, GenerationTypeOK

LEMMA StoryChatAnswers ==
  ASSUME StoryInv, NEW g \in Generations, ChatAnswers(g), UNCHANGED <<stored, keyed>>
  PROVE  StoryInv'
<1>1. GenerationTypeOK'
  BY DEF StoryInv, GenerationTypeOK, ChatAnswers, Goes
<1>2. /\ handler[g] = "calling" /\ handler'[g] = "validating" /\ scene'[g] \in Texts
      /\ row'[g].status \in {"absent", "running"}
  BY DEF StoryInv, GenerationTypeOK, LogInv, PlaceInv, ChatAnswers, Goes
<1>3. LogInv(g)'
  BY <1>2 DEF StoryInv, LogInv, PlaceInv, CompletedInv, KeptInv, Grows, Below, ChatAnswers
<1>. QED
  BY <1>1, <1>3, OneMoves DEF ChatAnswers, Goes, StoryInv, GenerationTypeOK

\* How a log grows by the attempt of the loop's counter.
LEMMA GrowsBy ==
  ASSUME NEW log \in Seq(AttemptRows), NEW a \in 1..MaxAttempts, Below(log, a),
         NEW entry \in AttemptRows, entry.attempt = a
  PROVE  /\ Grows(log) /\ Grows(Append(log, entry))
         /\ Below(log, a + 1)
         /\ (entry.invalid /\ ~entry.failed) => Below(Append(log, entry), a + 1)
<1>1. /\ \A i \in 1..Len(log) : /\ log[i].attempt \in Int /\ log[i].attempt < a
                               /\ log[i].invalid /\ ~log[i].failed
      /\ a \in Int /\ Len(log) \in Nat
  <2>1. a \in Int /\ Len(log) \in Nat
    OBVIOUS
  <2>2. SUFFICES ASSUME NEW i \in 1..Len(log) PROVE log[i].attempt \in Int
    BY <2>1 DEF Below
  <2>3. log[i] \in AttemptRows
    OBVIOUS
  <2>. QED
    BY <2>3 DEF AttemptRows
<1>2. /\ Len(Append(log, entry)) = Len(log) + 1
      /\ \A i \in 1..Len(log) : Append(log, entry)[i] = log[i]
      /\ Append(log, entry)[Len(log) + 1] = entry
  OBVIOUS
<1>3. Grows(Append(log, entry))
  <2>1. SUFFICES ASSUME NEW i \in 1..Len(log)
                 PROVE  /\ Append(log, entry)[i].invalid /\ ~Append(log, entry)[i].failed
                        /\ Append(log, entry)[i].attempt < Append(log, entry)[i + 1].attempt
    BY <1>1, <1>2 DEF Grows
  <2>2. CASE i = Len(log)
    BY <1>1, <1>2, <2>2
  <2>3. CASE i # Len(log)
    <3>1. i + 1 \in 1..Len(log)
      BY <1>1, <2>3
    <3>. QED
      BY <1>1, <1>2, <3>1 DEF Grows, Below
  <2>. QED
    BY <2>2, <2>3
<1>4. Grows(log) /\ Below(log, a + 1)
  <2>1. Grows(log)
    BY DEF Below
  <2>. QED
    BY <1>1, <2>1 DEF Below
<1>5. entry.invalid /\ ~entry.failed => Below(Append(log, entry), a + 1)
  <2>1. SUFFICES ASSUME entry.invalid, ~entry.failed, NEW i \in 1..(Len(log) + 1)
                 PROVE  LET e == Append(log, entry)[i]
                        IN  e.invalid /\ ~e.failed /\ e.attempt < a + 1
    BY <1>2, <1>3 DEF Below
  <2>2. CASE i = Len(log) + 1
    BY <1>1, <1>2, <2>1, <2>2
  <2>3. CASE i # Len(log) + 1
    <3>1. i \in 1..Len(log)
      BY <1>1, <2>3
    <3>. QED
      BY <1>1, <1>2, <3>1
  <2>. QED
    BY <2>2, <2>3
<1>. QED
  BY <1>3, <1>4, <1>5

\* What a call that records an attempt does to its log.
LEMMA Recorded ==
  ASSUME GenerationTypeOK, NEW g \in Generations, attempt[g] \in 1..MaxAttempts,
         NEW s \in Texts \cup {NoText}, NEW invalid \in BOOLEAN, NEW failed \in BOOLEAN,
         RecordAttempt(g, s, invalid, failed)
  PROVE  LET entry == [attempt |-> attempt[g], scene |-> s, invalid |-> invalid, failed |-> failed]
         IN  /\ attempts'[g] \in Seq(AttemptRows)
             /\ missed' \in [Generations -> BOOLEAN] /\ faults' \in 0..MaxStoreFaults
             /\ \/ attempts'[g] = Append(attempts[g], entry) /\ missed'[g] = missed[g]
                \/ attempts'[g] = attempts[g] /\ (missed'[g] \/ ~stored)
             /\ \A h \in Generations \ {g} : attempts'[h] = attempts[h] /\ missed'[h] = missed[h]
             /\ attempts' = [attempts EXCEPT ![g] = attempts'[g]]
<1>. DEFINE entry == [attempt |-> attempt[g], scene |-> s, invalid |-> invalid, failed |-> failed]
<1>1. entry \in AttemptRows
  BY DEF AttemptRows
<1>2. CASE Executes(g) /\ attempts' = [attempts EXCEPT ![g] = Append(@, entry)]
  BY <1>1, <1>2 DEF GenerationTypeOK, Executes
<1>3. CASE Misses(g) /\ UNCHANGED attempts
  BY <1>3 DEF GenerationTypeOK, Misses
<1>4. CASE Skips /\ UNCHANGED attempts
  BY <1>4 DEF GenerationTypeOK, Skips
<1>. QED
  BY <1>2, <1>3, <1>4 DEF RecordAttempt

LEMMA StoryOpen ==
  ASSUME StoryInv, NEW g \in Generations, Open(g), UNCHANGED <<stored, keyed>>
  PROVE  StoryInv'
<1>1. GenerationTypeOK'
  <2>1. attempt' \in [Generations -> 0..MaxAttempts]
    <3>1. 1 \in 0..MaxAttempts
      OBVIOUS
    <3>. QED
      BY <3>1 DEF StoryInv, GenerationTypeOK, Open, Begin
  <2>2. row' \in [Generations -> RowTypes]
    <3>1. row' = [row EXCEPT ![g].status = "running"] \/ row' = row
      BY DEF Open
    <3>2. row \in [Generations -> RowTypes] /\ row[g] \in RowTypes
      BY DEF StoryInv, GenerationTypeOK, RowTypes
    <3>3. [row[g] EXCEPT !.status = "running"] \in RowTypes
      BY <3>2 DEF RowTypes
    <3>. QED
      BY <3>1, <3>2, <3>3
  <2>3. handler' \in [Generations -> Places]
    <3>1. handler \in [Generations -> Places]
      BY DEF StoryInv, GenerationTypeOK, Places
    <3>2. \E pc \in Places : Goes(g, pc)
      <4>1. \E pc \in {"calling", "failing", "refusing"} : Goes(g, pc)
        BY DEF Open, Begin
      <4>. QED
        BY <4>1 DEF Places
    <3>. QED
      BY ONLY <3>1, <3>2 DEF Goes
  <2>4. missed' \in [Generations -> BOOLEAN] /\ faults' \in 0..MaxStoreFaults
    <3>1. Executes(g) \/ Misses(g) \/ Skips
      BY DEF Open
    <3>2. CASE Executes(g) \/ Skips
      BY <3>2 DEF StoryInv, GenerationTypeOK, Executes, Skips
    <3>3. CASE Misses(g)
      BY <3>3 DEF StoryInv, GenerationTypeOK, Misses
    <3>. QED
      BY <3>1, <3>2, <3>3
  <2>. QED
    BY <2>1, <2>2, <2>3, <2>4 DEF StoryInv, GenerationTypeOK, Open, RowTypes, Places
<1>2. /\ handler[g] = "opening" /\ attempt[g] = 0 /\ attempts'[g] = <<>>
      /\ row[g].status = "absent"
  BY DEF StoryInv, GenerationTypeOK, LogInv, PlaceInv, Open
<1>3. ASSUME Begin(g)
      PROVE  IF keyed THEN handler'[g] = "calling" /\ attempt'[g] = 1
                      ELSE handler'[g] = "failing" /\ attempt'[g] = 0
  BY <1>2, <1>3 DEF StoryInv, GenerationTypeOK, Begin, Goes
<1>4. \A h \in Generations \ {g} :
        /\ handler'[h] = handler[h] /\ attempt'[h] = attempt[h] /\ scene'[h] = scene[h]
        /\ row'[h] = row[h] /\ attempts'[h] = attempts[h] /\ missed'[h] = missed[h]
  BY DEF StoryInv, GenerationTypeOK, Open, Begin, Goes, Executes, Misses, Skips
<1>5. CASE Executes(g) /\ row' = [row EXCEPT ![g].status = "running"] /\ Begin(g)
  <2>1. row'[g].status = "running"
    BY <1>5 DEF StoryInv, GenerationTypeOK
  <2>2. LogInv(g)'
    BY <1>2, <1>3, <1>5, <2>1 DEF LogInv, PlaceInv, CompletedInv, KeptInv, Grows, Below
  <2>. QED
    BY <1>1, <1>4, <2>2, OneMoves
<1>6. CASE Misses(g) /\ Goes(g, "refusing") /\ UNCHANGED <<row, attempt>>
  <2>1. missed'[g] /\ handler'[g] = "refusing"
    BY <1>6 DEF StoryInv, GenerationTypeOK, Goes, Misses
  <2>2. LogInv(g)'
    BY <1>2, <1>6, <2>1 DEF LogInv, PlaceInv, CompletedInv, KeptInv, Grows, Below
  <2>. QED
    BY <1>1, <1>4, <2>2, OneMoves
<1>7. CASE Skips /\ Begin(g) /\ UNCHANGED row
  <2>1. ~stored'
    BY <1>7 DEF Skips
  <2>2. LogInv(g)'
    BY <1>2, <1>3, <1>7, <2>1 DEF LogInv, PlaceInv, CompletedInv, KeptInv, Grows, Below
  <2>. QED
    BY <1>1, <1>4, <2>2, OneMoves
<1>. QED
  BY <1>5, <1>6, <1>7 DEF Open

LEMMA StoryChatFails ==
  ASSUME StoryInv, NEW g \in Generations, ChatFails(g), UNCHANGED <<stored, keyed>>
  PROVE  StoryInv'
<1>. DEFINE log == attempts[g]
            entry == [attempt |-> attempt[g], scene |-> NoText, invalid |-> FALSE, failed |-> TRUE]
<1>1. /\ handler[g] = "calling" /\ handler'[g] = "failing"
      /\ attempt[g] \in 1..MaxAttempts /\ Below(log, attempt[g])
      /\ keyed /\ log \in Seq(AttemptRows) /\ row[g].status \in {"absent", "running"}
  BY DEF StoryInv, GenerationTypeOK, LogInv, PlaceInv, ChatFails, Goes
<1>2. /\ attempts'[g] \in Seq(AttemptRows)
      /\ missed' \in [Generations -> BOOLEAN] /\ faults' \in 0..MaxStoreFaults
      /\ \/ attempts'[g] = Append(log, entry) /\ missed'[g] = missed[g]
         \/ attempts'[g] = log /\ (missed'[g] \/ ~stored)
      /\ \A h \in Generations \ {g} : attempts'[h] = attempts[h] /\ missed'[h] = missed[h]
      /\ attempts' = [attempts EXCEPT ![g] = attempts'[g]]
  BY <1>1, Recorded DEF StoryInv, ChatFails
<1>3. GenerationTypeOK'
  BY <1>1, <1>2 DEF StoryInv, GenerationTypeOK, ChatFails, Goes
<1>4. PlaceInv(g)'
  <2>1. Grows(attempts[g])'
    <3>1. entry \in AttemptRows /\ entry.attempt = attempt[g]
      BY <1>1 DEF AttemptRows
    <3>. QED
      BY <1>1, <1>2, <3>1, GrowsBy
  <2>. QED
    BY <1>1, <2>1 DEF PlaceInv, ChatFails, Grows
<1>5. CompletedInv(g)'
  BY <1>1 DEF CompletedInv, ChatFails
<1>6. KeptInv(g)'
  <2>1. CASE attempts'[g] = Append(log, entry) /\ missed'[g] = missed[g]
    <3>1. Len(attempts'[g]) = Len(log) + 1 /\ attempts'[g][Len(log) + 1].failed
      <4>1. attempts'[g][Len(log) + 1] = entry /\ entry.failed  BY <1>1, <2>1
      <4>. QED
        BY <1>1, <2>1, <4>1
    <3>. HIDE DEF entry
    <3>. QED
      BY <1>1, <2>1, <3>1 DEF StoryInv, LogInv, KeptInv, ChatFails
  <2>2. CASE missed'[g] \/ ~stored
    BY <2>2 DEF KeptInv
  <2>. QED
    BY <1>2, <2>1, <2>2
<1>7. \A h \in Generations \ {g} :
        /\ handler'[h] = handler[h] /\ attempt'[h] = attempt[h] /\ scene'[h] = scene[h]
        /\ row'[h] = row[h]
  BY DEF ChatFails, Goes, StoryInv, GenerationTypeOK
<1>8. LogInv(g)'
  BY <1>4, <1>5, <1>6 DEF LogInv
<1>. QED
  BY <1>2, <1>3, <1>7, <1>8, OneMoves

LEMMA StoryValidate ==
  ASSUME StoryInv, NEW g \in Generations, Validate(g), UNCHANGED <<stored, keyed>>
  PROVE  StoryInv'
<1>. DEFINE log == attempts[g]
            bad == scene[g] \notin Valid
            entry == [attempt |-> attempt[g], scene |-> scene[g], invalid |-> bad, failed |-> FALSE]
<1>1. /\ handler[g] = "validating" /\ scene[g] \in Texts
      /\ attempt[g] \in 1..MaxAttempts /\ Below(log, attempt[g])
      /\ keyed /\ log \in Seq(AttemptRows) /\ row[g].status \in {"absent", "running"}
  BY DEF StoryInv, GenerationTypeOK, LogInv, PlaceInv, Validate
<1>2. /\ attempts'[g] \in Seq(AttemptRows)
      /\ missed' \in [Generations -> BOOLEAN] /\ faults' \in 0..MaxStoreFaults
      /\ \/ attempts'[g] = Append(log, entry) /\ missed'[g] = missed[g]
         \/ attempts'[g] = log /\ (missed'[g] \/ ~stored)
      /\ \A h \in Generations \ {g} : attempts'[h] = attempts[h] /\ missed'[h] = missed[h]
      /\ attempts' = [attempts EXCEPT ![g] = attempts'[g]]
  BY <1>1, Recorded DEF StoryInv, Validate
<1>a. /\ entry \in AttemptRows /\ entry.attempt = attempt[g]
      /\ entry.invalid = bad /\ ~entry.failed
  BY <1>1 DEF AttemptRows
<1>b. \A e \in AttemptRows : e.attempt = attempt[g] =>
        /\ Grows(log) /\ Grows(Append(log, e))
        /\ Below(log, attempt[g] + 1)
        /\ (e.invalid /\ ~e.failed) => Below(Append(log, e), attempt[g] + 1)
  BY <1>1, GrowsBy
<1>c. /\ Grows(log) /\ Grows(Append(log, entry))
      /\ Below(log, attempt[g] + 1)
      /\ bad => Below(Append(log, entry), attempt[g] + 1)
  <2>. HIDE DEF entry
  <2>. QED
    BY <1>a, <1>b
<1>3. Grows(attempts[g])'
  <2>. HIDE DEF entry
  <2>. QED
    BY <1>2, <1>c
<1>d. \A h \in Generations \ {g} :
        /\ handler'[h] = handler[h] /\ attempt'[h] = attempt[h] /\ scene'[h] = scene[h]
        /\ row'[h] = row[h]
  BY DEF Validate, Goes, StoryInv, GenerationTypeOK
<1>4. CASE ~bad
  <2>1. handler'[g] = "checking" /\ attempt' = attempt
    BY <1>4 DEF StoryInv, GenerationTypeOK, Validate, Goes
  <2>2. GenerationTypeOK'
    BY <1>1, <1>2, <1>4 DEF StoryInv, GenerationTypeOK, Validate, Goes
  <2>3. ~attempts'[g][Len(attempts'[g])].failed \/ Len(attempts'[g]) = 0
    BY <1>1, <1>2 DEF Below
  <2>4. PlaceInv(g)'
    BY <1>1, <1>3, <1>4, <2>1, <2>3 DEF PlaceInv, Validate
  <2>5. CompletedInv(g)'
    BY <1>1 DEF CompletedInv, Validate
  <2>6. KeptInv(g)'
    BY <1>1, <1>2, <1>4, <2>1 DEF StoryInv, LogInv, KeptInv, Validate
  <2>. QED
    BY <1>2, <1>d, <2>2, <2>4, <2>5, <2>6, OneMoves DEF LogInv
<1>5. CASE bad /\ attempt[g] = MaxAttempts
  <2>1. handler'[g] = "failing" /\ attempt' = attempt
    BY <1>5 DEF StoryInv, GenerationTypeOK, Validate, Goes
  <2>2. GenerationTypeOK'
    BY <1>1, <1>2, <1>5 DEF StoryInv, GenerationTypeOK, Validate, Goes
  <2>4. PlaceInv(g)'
    BY <1>1, <1>3, <1>5, <2>1 DEF PlaceInv, Validate
  <2>5. CompletedInv(g)'
    BY <1>1 DEF CompletedInv, Validate
  <2>6. KeptInv(g)'
    <3>1. CASE attempts'[g] = Append(log, entry) /\ missed'[g] = missed[g]
      <4>1. /\ Len(attempts'[g]) = Len(log) + 1
            /\ attempts'[g][Len(log) + 1].invalid /\ attempts'[g][Len(log) + 1].attempt = MaxAttempts
        <5>1. entry.invalid /\ entry.attempt = MaxAttempts
          BY <1>5
        <5>2. Len(attempts'[g]) = Len(log) + 1 /\ attempts'[g][Len(log) + 1] = entry
          BY <1>1, <3>1
        <5>. QED
          BY <5>1, <5>2
      <4>. QED
        BY <1>1, <1>5, <2>1, <3>1, <4>1 DEF StoryInv, LogInv, KeptInv, Validate
    <3>2. CASE missed'[g] \/ ~stored
      BY <3>2 DEF KeptInv
    <3>. QED
      BY <1>2, <3>1, <3>2
  <2>. QED
    BY <1>2, <1>d, <2>2, <2>4, <2>5, <2>6, OneMoves DEF LogInv
<1>6. CASE bad /\ attempt[g] # MaxAttempts
  <2>1. /\ handler'[g] = "calling" /\ attempt'[g] = attempt[g] + 1
        /\ attempt' \in [Generations -> 0..MaxAttempts]
        /\ \A h \in Generations \ {g} : attempt'[h] = attempt[h]
    <3>1. attempt' = [attempt EXCEPT ![g] = attempt[g] + 1] /\ Goes(g, "calling")
      BY <1>6 DEF Validate
    <3>2. attempt[g] + 1 \in 0..MaxAttempts
      BY <1>1, <1>6
    <3>. QED
      BY <3>1, <3>2 DEF StoryInv, GenerationTypeOK, Goes
  <2>2. GenerationTypeOK'
    <3>1. handler' = [handler EXCEPT ![g] = "calling"]
      BY <1>6 DEF Validate, Goes
    <3>. QED
      BY <1>1, <1>2, <2>1, <3>1 DEF StoryInv, GenerationTypeOK, Validate
  <2>3. Below(attempts[g], attempt[g])'
    <3>. HIDE DEF entry
    <3>. QED
      BY <1>2, <1>6, <1>c, <2>1
  <2>4. PlaceInv(g)'
    BY <1>1, <1>3, <1>6, <2>1, <2>3 DEF PlaceInv, Validate
  <2>5. CompletedInv(g)'
    BY <1>1 DEF CompletedInv, Validate
  <2>6. KeptInv(g)'
    BY <1>1, <1>2, <1>6, <2>1 DEF StoryInv, LogInv, KeptInv, Validate
  <2>. QED
    BY <1>2, <1>d, <2>2, <2>4, <2>5, <2>6, OneMoves DEF LogInv
<1>. QED
  BY <1>4, <1>5, <1>6

\* What a call that settles a row does to it.
LEMMA Marked ==
  ASSUME GenerationTypeOK, NEW g \in Generations,
         NEW status \in {"completed", "failed"}, NEW s \in Texts \cup {NoText},
         Mark(g, status, s)
  PROVE  /\ row' \in [Generations -> RowTypes]
         /\ missed' \in [Generations -> BOOLEAN] /\ faults' \in 0..MaxStoreFaults
         /\ \/ /\ row'[g].status = status /\ row'[g].scene = (IF s = NoText THEN row[g].scene ELSE s)
               /\ missed'[g] = missed[g]
            \/ row'[g] = row[g] /\ (missed'[g] \/ ~stored)
         /\ \A h \in Generations \ {g} : row'[h] = row[h] /\ missed'[h] = missed[h]
<1>. DEFINE new == [[row[g] EXCEPT !.status = status] EXCEPT !.scene = IF s = NoText THEN @ ELSE s]
<1>1. row \in [Generations -> RowTypes] /\ row[g] \in RowTypes
  BY DEF GenerationTypeOK, RowTypes
<1>2. /\ new \in RowTypes /\ new.status = status
      /\ new.scene = (IF s = NoText THEN row[g].scene ELSE s)
  BY <1>1 DEF RowTypes
<1>3. CASE Executes(g) /\ row' = [row EXCEPT ![g] = new]
  BY <1>1, <1>2, <1>3 DEF GenerationTypeOK, Executes
<1>4. CASE Misses(g) /\ UNCHANGED row
  BY <1>1, <1>4 DEF GenerationTypeOK, Misses
<1>5. CASE Skips /\ UNCHANGED row
  BY <1>1, <1>5 DEF GenerationTypeOK, Skips
<1>6. Executes(g) /\ row[g].status # "absent" =>
        ([row EXCEPT ![g].status = status, ![g].scene = IF s = NoText THEN @ ELSE s]
           = [row EXCEPT ![g] = new])
  BY <1>1 DEF RowTypes
<1>. QED
  BY <1>3, <1>4, <1>5, <1>6 DEF Mark

LEMMA StoryComplete ==
  ASSUME StoryInv, NEW g \in Generations, Complete(g), UNCHANGED <<stored, keyed>>
  PROVE  StoryInv'
<1>1. /\ handler[g] = "checking" /\ handler'[g] = "inserting"
      /\ handler' = [handler EXCEPT ![g] = "inserting"]
      /\ scene[g] \in Texts /\ scene[g] \in Valid /\ scene[g] \notin Long /\ scene[g] # NoText
      /\ row[g].status \in {"absent", "running"}
  BY DEF StoryInv, GenerationTypeOK, LogInv, PlaceInv, Complete, Goes
<1>2. /\ row' \in [Generations -> RowTypes]
      /\ missed' \in [Generations -> BOOLEAN] /\ faults' \in 0..MaxStoreFaults
      /\ \/ row'[g].status = "completed" /\ row'[g].scene = scene[g] /\ missed'[g] = missed[g]
         \/ row'[g] = row[g] /\ (missed'[g] \/ ~stored)
      /\ \A h \in Generations \ {g} : row'[h] = row[h] /\ missed'[h] = missed[h]
  <2>. scene[g] \in Texts \cup {NoText} /\ Mark(g, "completed", scene[g])
    BY <1>1 DEF Complete
  <2>. QED
    BY <1>1, Marked DEF StoryInv
<1>3. GenerationTypeOK'
  BY <1>1, <1>2 DEF StoryInv, GenerationTypeOK, Complete, RowTypes
<1>4. PlaceInv(g) /\ KeptInv(g)
  BY DEF StoryInv, LogInv
<1>5. PlaceInv(g)'
  BY <1>1, <1>4 DEF PlaceInv, Complete
<1>6. CompletedInv(g)'
  BY <1>1, <1>2, <1>4 DEF PlaceInv, CompletedInv, Complete
<1>7. KeptInv(g)'
  BY <1>1, <1>2, <1>4 DEF KeptInv, Complete
<1>. QED
  BY <1>1, <1>2, <1>3, <1>5, <1>6, <1>7, OneMoves DEF LogInv, Complete, StoryInv, GenerationTypeOK

LEMMA StoryFail ==
  ASSUME StoryInv, NEW g \in Generations, Fail(g), UNCHANGED <<stored, keyed>>
  PROVE  StoryInv'
<1>1. /\ handler[g] = "failing" \/ (handler[g] = "checking" /\ scene[g] \in Long)
      /\ handler'[g] = "refusing" /\ handler' = [handler EXCEPT ![g] = "refusing"]
      /\ row[g].status \in {"absent", "running"}
  BY DEF StoryInv, GenerationTypeOK, LogInv, PlaceInv, Fail, Goes
<1>2. /\ row' \in [Generations -> RowTypes]
      /\ missed' \in [Generations -> BOOLEAN] /\ faults' \in 0..MaxStoreFaults
      /\ \/ row'[g].status = "failed" /\ missed'[g] = missed[g]
         \/ row'[g] = row[g] /\ (missed'[g] \/ ~stored)
      /\ \A h \in Generations \ {g} : row'[h] = row[h] /\ missed'[h] = missed[h]
  BY Marked DEF StoryInv, Fail
<1>3. GenerationTypeOK'
  BY <1>1, <1>2 DEF StoryInv, GenerationTypeOK, Fail, RowTypes
<1>4. PlaceInv(g) /\ KeptInv(g)
  BY DEF StoryInv, LogInv
<1>5. PlaceInv(g)'
  BY <1>1, <1>4 DEF PlaceInv, Fail
<1>6. CompletedInv(g)'
  BY <1>1, <1>2 DEF CompletedInv
<1>7. KeptInv(g)'
  <2>1. CASE row'[g].status = "failed" /\ missed'[g] = missed[g]
    <3>1. SUFFICES ASSUME stored, ~missed[g]
                   PROVE  KeptInv(g)'
      BY <1>1, <2>1 DEF KeptInv
    <3>2. /\ Len(attempts[g]) = attempt[g]
          /\ ~keyed \/ Len(attempts[g]) > 0
          /\ keyed => \/ attempts[g][Len(attempts[g])].failed
                      \/ attempts[g][Len(attempts[g])].scene \in Long
                      \/ /\ attempts[g][Len(attempts[g])].invalid
                         /\ attempts[g][Len(attempts[g])].attempt = MaxAttempts
      BY <1>1, <1>4, <3>1 DEF StoryInv, GenerationTypeOK, PlaceInv, KeptInv
    <3>3. ~keyed => Len(attempts[g]) = 0
      BY <1>4 DEF PlaceInv
    <3>. QED
      BY <1>1, <2>1, <3>2, <3>3 DEF KeptInv, Fail
  <2>2. CASE row'[g] = row[g] /\ (missed'[g] \/ ~stored)
    BY <2>2 DEF KeptInv
  <2>. QED
    BY <1>2, <2>1, <2>2
<1>. QED
  BY <1>1, <1>2, <1>3, <1>5, <1>6, <1>7, OneMoves DEF LogInv, Fail, StoryInv, GenerationTypeOK

LEMMA StoryAsk ==
  ASSUME StoryInv, Ask
  PROVE  StoryInv'
<1>1. PICK g \in Generations : handler[g] = "away" /\ Goes(g, "opening")
  BY DEF Ask
<1>2. GenerationTypeOK'
  BY <1>1 DEF StoryInv, GenerationTypeOK, Ask, Goes
<1>3. handler'[g] = "opening"
  BY <1>1 DEF StoryInv, GenerationTypeOK, Goes
<1>4. LogInv(g)'
  BY <1>1, <1>3 DEF StoryInv, LogInv, PlaceInv, CompletedInv, KeptInv, Ask
<1>. QED
  BY <1>1, <1>2, <1>4, OneMoves DEF Ask, Goes, StoryInv, GenerationTypeOK

LEMMA StoryReceive ==
  ASSUME StoryInv, asking \in Generations, Receive
  PROVE  StoryInv'
<1>1. PICK g \in Generations : g = asking
  OBVIOUS
<1>2. handler[g] \in {"inserting", "refusing"} /\ Goes(g, "ended")
  BY <1>1 DEF Receive
<1>3. GenerationTypeOK'
  BY <1>2 DEF StoryInv, GenerationTypeOK, Receive, Goes
<1>4. handler'[g] = "ended"
  BY <1>2 DEF StoryInv, GenerationTypeOK, Goes
<1>5. LogInv(g)'
  BY <1>2, <1>4 DEF StoryInv, LogInv, PlaceInv, CompletedInv, KeptInv, Receive
<1>. QED
  BY <1>2, <1>3, <1>5, OneMoves DEF Receive, Goes, StoryInv, GenerationTypeOK

(***************************************************************************)
(* The page. It waits for a generation of its own only, and what it knows  *)
(* of its last request is what became of it.                               *)
(***************************************************************************)
PageData ==
  /\ asking \in Generations \cup {NoText}
  /\ text \in Texts /\ sentCode \in Texts \cup {NoText}
  /\ request \in {"unsent", "flying", "answered", "lost"}
  /\ output \in [status : {0, 200, 422, 500}, text : Texts \cup {NoText}]

PageFlags ==
  /\ armed \in BOOLEAN /\ busy \in BOOLEAN /\ settled \in BOOLEAN
  /\ lastRenderFailed \in BOOLEAN
  /\ busy <=> (request = "flying")

\* What is known of the last request, on its way and answered.
Carries == (~armed /\ request = "flying") => sentCode = text
Shown ==
  request = "answered" =>
    /\ settled /\ output.text = sentCode /\ output.status # 0
    /\ lastRenderFailed <=> (output.status >= 400)
Current == (~armed /\ request = "answered") => (output.status < 500 => output.text = text)

PageInv == PageData /\ PageFlags /\ Carries /\ Shown /\ Current

LEMMA PageImpliesBadge == PageInv => BadgeAtRest
<1>. SUFFICES ASSUME PageInv, ~armed, request = "answered"
              PROVE  /\ syncState # "compiling"
                     /\ (syncState = "synced") <=> output = [status |-> 200, text |-> text]
                     /\ output.status < 500 => output.text = text
  BY DEF BadgeAtRest
<1>1. settled /\ ~busy
  BY DEF PageInv, PageFlags, Shown
<1>2. syncState = IF lastRenderFailed THEN "error" ELSE "synced"
  BY <1>1 DEF syncState
<1>3. lastRenderFailed <=> (output.status >= 400)
  BY DEF PageInv, Shown
<1>4. output.status < 500 => output.text = text
  BY DEF PageInv, Current
<1>5. /\ output.status \in {200, 422, 500}
      /\ output = [status |-> output.status, text |-> output.text]
  BY DEF PageInv, PageData, Shown
<1>6. (output.status >= 400) <=> output.status # 200
  BY <1>5
<1>7. output.status = 200 => output.text = text
  BY <1>4
<1>8. output = [status |-> 200, text |-> text] <=> output.status = 200
  BY <1>5, <1>7
<1>. QED
  BY <1>2, <1>3, <1>4, <1>6, <1>8

LEMMA PageInit == Init => PageInv
<1>. SUFFICES ASSUME Init PROVE PageInv
  OBVIOUS
<1>1. /\ armed = TRUE /\ busy = FALSE /\ settled = FALSE /\ lastRenderFailed = FALSE
      /\ request = "unsent" /\ text = Default /\ sentCode = NoText /\ asking = NoText
      /\ output = [status |-> 0, text |-> NoText]
  BY DEF Init
<1>2. PageData
  BY <1>1 DEF PageData
<1>3. request # "flying" /\ request # "answered"
  BY <1>1
<1>4. PageFlags /\ Carries /\ Shown /\ Current
  BY <1>1, <1>3, Zenon DEF PageFlags, Carries, Shown, Current
<1>. QED
  BY <1>2, <1>4 DEF PageInv

\* What the page knows stays when what it is about stays.
LEMMA PageStays ==
  ASSUME PageInv, UNCHANGED <<text, armed, request, sentCode, busy, settled, lastRenderFailed, output>>,
         asking' \in Generations \cup {NoText}
  PROVE  PageInv'
<1>1. PageData'
  BY DEF PageInv, PageData
<1>2. PageFlags'
  BY DEF PageInv, PageFlags
<1>3. Carries' /\ Shown' /\ Current'
  BY Zenon DEF PageInv, Carries, Shown, Current
<1>. QED
  BY <1>1, <1>2, <1>3 DEF PageInv

\* The editor's text changes and the form is triggered.
LEMMA PageSetText ==
  ASSUME PageInv, NEW t \in Texts, SetText(t), UNCHANGED guard,
         asking' \in Generations \cup {NoText}
  PROVE  PageInv'
<1>1. /\ text' = t /\ armed' = TRUE
      /\ UNCHANGED <<request, sentCode, busy, settled, lastRenderFailed, output>>
  BY DEF SetText, guard
<1>2. PageData'
  BY <1>1 DEF PageInv, PageData
<1>3. PageFlags'
  BY <1>1, Zenon DEF PageInv, PageFlags
<1>4. Carries' /\ Shown' /\ Current'
  BY <1>1, Zenon DEF PageInv, Carries, Shown, Current
<1>. QED
  BY <1>2, <1>3, <1>4 DEF PageInv

LEMMA PageSend ==
  ASSUME PageInv, Send
  PROVE  PageInv'
<1>1. /\ request' = "flying" /\ sentCode' = text /\ busy' = TRUE /\ armed' = FALSE
      /\ UNCHANGED <<text, settled, lastRenderFailed, output, asking>>
  BY DEF Send
<1>2. PageData'
  BY <1>1 DEF PageInv, PageData
<1>3. request' # "answered"
  BY <1>1
<1>4. PageFlags' /\ Carries' /\ Shown' /\ Current'
  BY <1>1, <1>3, Zenon DEF PageInv, PageFlags, Carries, Shown, Current
<1>. QED
  BY <1>2, <1>4 DEF PageInv

LEMMA PageLose ==
  ASSUME PageInv, Lose
  PROVE  PageInv'
<1>1. /\ request' = "lost" /\ busy' = FALSE
      /\ UNCHANGED <<text, armed, sentCode, settled, lastRenderFailed, output, asking>>
  BY DEF Lose
<1>2. PageData'
  BY <1>1 DEF PageInv, PageData
<1>3. request' # "answered" /\ request' # "flying"
  BY <1>1
<1>4. PageFlags' /\ Carries' /\ Shown' /\ Current'
  BY <1>1, <1>3, Zenon DEF PageInv, PageFlags, Carries, Shown, Current
<1>. QED
  BY <1>2, <1>4 DEF PageInv

LEMMA PageAnswer ==
  ASSUME PageInv, Answer
  PROVE  PageInv'
<1>1. PICK status \in StatusesFor(sentCode) :
        /\ lastRenderFailed' = (status >= 400)
        /\ settledCode' = SettledBy(status)
        /\ armed' = (armed \/ Retries(status))
        /\ output' = [status |-> status, text |-> sentCode]
  BY DEF Answer
<1>2. /\ request' = "answered" /\ busy' = FALSE /\ settled' = TRUE
      /\ UNCHANGED <<text, sentCode, asking>>
  BY DEF Answer
<1>3. status \in {200, 422, 500}
  BY DEF StatusesFor
<1>4. output'.status = status /\ output'.text = sentCode /\ status # 0
  BY <1>1, <1>3
<1>5. PageData'
  BY <1>1, <1>2, <1>3 DEF PageInv, PageData
<1>6. ~armed' => text = SettledBy(status)
  BY <1>1, Zenon DEF Retries
<1>7. ~armed' => (status < 500 => sentCode = text)
  BY <1>6 DEF SettledBy
<1>8. (status >= 400) \in BOOLEAN /\ armed' \in BOOLEAN /\ request' # "flying"
  BY <1>1, <1>2 DEF Retries, PageInv, PageFlags
<1>9. PageFlags'
  BY <1>1, <1>2, <1>8, Zenon DEF PageFlags
<1>10. Carries' /\ Shown' /\ Current'
  BY <1>1, <1>2, <1>4, <1>7, <1>8, Zenon DEF Carries, Shown, Current
<1>. QED
  BY <1>5, <1>9, <1>10 DEF PageInv

LEMMA PageStep ==
  ASSUME StoryInv, PageInv, [Next]_vars
  PROVE  PageInv'
<1>1. CASE Edit
  BY <1>1, PageSetText DEF Edit, PageInv, PageData
<1>2. CASE Send
  BY <1>2, PageSend
<1>3. CASE Answer
  BY <1>3, PageAnswer
<1>4. CASE Lose
  BY <1>4, PageLose
<1>5. CASE Ask
  BY <1>5, PageStays DEF Ask, page, guard
<1>6. CASE Receive
  <2>1. CASE handler[asking] = "inserting" /\ ~gone[asking]
    <3>1. asking \in Generations /\ scene[asking] \in Texts
      BY <1>6, <2>1 DEF Receive, PageInv, PageData, StoryInv, LogInv, PlaceInv
    <3>2. asking' \in Generations \cup {NoText} /\ SetText(scene[asking]) /\ UNCHANGED guard
      BY <1>6, <2>1 DEF Receive
    <3>. QED
      BY <3>1, <3>2, PageSetText
  <2>2. CASE ~(handler[asking] = "inserting" /\ ~gone[asking])
    BY <1>6, <2>2, PageStays DEF Receive, guard
  <2>. QED
    BY <2>1, <2>2
<1>7. CASE GenerationNext
  BY <1>7, PageStays DEF GenerationNext, page, guard, PageInv, PageData
<1>8. CASE Done \/ UNCHANGED vars
  BY <1>8, PageStays DEF Done, vars, guard, PageInv, PageData
<1>. QED
  BY <1>1, <1>2, <1>3, <1>4, <1>5, <1>6, <1>7, <1>8 DEF Next

LEMMA StoryStep ==
  ASSUME StoryInv, PageInv, [Next]_vars
  PROVE  StoryInv'
<1>1. ASSUME UNCHANGED <<generation, stored, keyed>> PROVE StoryInv'
  BY <1>1 DEF generation, StoryInv, GenerationTypeOK, LogInv, PlaceInv, CompletedInv, KeptInv,
              Grows, Below
<1>2. CASE Edit \/ Send \/ Answer \/ Lose
  BY <1>1, <1>2 DEF Edit, Send, Answer, Lose
<1>3. CASE Ask
  BY <1>3, StoryAsk
<1>4. CASE Receive
  BY <1>4, StoryReceive DEF Receive, PageInv, PageData
<1>5. CASE GenerationNext
  <2>1. PICK g \in Generations : GenerationStep(g) \/ Vanish(g) \/ Purge(g)
    BY <1>5 DEF GenerationNext
  <2>2. UNCHANGED <<stored, keyed>>
    BY <1>5 DEF GenerationNext
  <2>. QED
    BY <2>1, <2>2, StoryOpen, StoryChatAnswers, StoryChatFails, StoryValidate, StoryComplete,
       StoryFail, StoryVanish, StoryPurge DEF GenerationStep
<1>6. CASE Done \/ UNCHANGED vars
  BY <1>1, <1>6 DEF Done, vars
<1>. QED
  BY <1>2, <1>3, <1>4, <1>5, <1>6 DEF Next

LEMMA Inductive == Spec => [](StoryInv /\ PageInv)
<1>1. Init => StoryInv /\ PageInv
  BY StoryInit, PageInit
<1>2. StoryInv /\ PageInv /\ [Next]_vars => (StoryInv /\ PageInv)'
  BY StoryStep, PageStep
<1>. QED
  BY <1>1, <1>2, PTL DEF Spec

\* For any number of generations and attempts, and whatever calls on the store
\* fail, the rows of a generation tell what became of it (Generate of
\* openrouter.go, handleGenerate of server.go).
THEOREM StoryIsTold == Spec => []LogTellsTheStory
  BY Inductive, StoryImpliesLog, PTL

\* For any texts, at rest the badge says whether the output is the preview of
\* the text in the editor (syncState and the guard of views.templ).
THEOREM BadgeIsRight == Spec => []BadgeAtRest
  BY Inductive, PageImpliesBadge, PTL
=============================================================================
