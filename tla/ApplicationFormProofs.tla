----------------------- MODULE ApplicationFormProofs -----------------------
(***************************************************************************)
(* Theorems about ApplicationForm, for every number of attempts, of        *)
(* storage operations and of mishaps.  The queue of storage operations is  *)
(* treated first, one lemma per way it changes, then the submissions of    *)
(* the two pages, then the actions, one invariant after the other.         *)
(***************************************************************************)
EXTENDS ApplicationForm, SequenceTheorems, TLAPS

-----------------------------------------------------------------------------
(* Types.                                                                  *)

(* What a storage operation carries depends on its kind. *)
Operations ==
  [kind : {"put"}, value : Forms, current : BOOLEAN]
    \cup [kind : {"load", "delete"}, value : {Nothing}, current : BOOLEAN]
    \cup [kind : {"read"}, value : Fingerprints, current : BOOLEAN]
    \cup [kind : {"keep"}, value : Attempts, current : BOOLEAN]

Pages == [mode : {"closed", "restoring", "open", "submitted"}, form : Forms,
          agreed : BOOLEAN, version : Nat,
          status : {"RESTORING", "IDLE", "SAVING", "SAVED", "ERROR"}, timer : BOOLEAN]

Answers == {"receipt", "stale", "duplicate", "closed", "expired", "lost"}

Steps == {"idle", "read", "prepare", "keep", "sent", "answered"}

Submits == [step : Steps, print : Fingerprints \cup {Nothing},
            attempt : Attempts \cup {Nothing}, answer : Answers \cup {Nothing}]

Typed ==
  /\ draft \in Forms \cup {Nothing} /\ attempt \in Attempts \cup {Nothing}
  /\ operations \in Seq(Operations)
  /\ page \in Pages
  /\ volatile \in Attempts \cup {Nothing}
  /\ submits \in [Submitters -> Submits]
  /\ keys \in Nat /\ requests \in SUBSET Attempts
  /\ submission \in Attempts \cup {Nothing}
  /\ posting \in Nat /\ lapsed \in SUBSET Nat /\ mishaps \in Nat

-----------------------------------------------------------------------------
(* The queue of storage operations.                                        *)

LEMMA OperationColumns ==
  ASSUME NEW op \in Operations
  PROVE  /\ op.kind \in {"put", "load", "delete", "read", "keep"} /\ op.current \in BOOLEAN
         /\ op.kind = "put" => op.value \in Forms
         /\ op.kind \in {"load", "delete"} => op.value = Nothing
         /\ op.kind = "read" => op.value \in Fingerprints
         /\ op.kind = "keep" => op.value \in Attempts
         /\ LET old == [op EXCEPT !.current = FALSE]
            IN  /\ old \in Operations /\ old.kind = op.kind /\ old.value = op.value
                /\ old.current = FALSE
BY DEF Operations

LEMMA OutdatedQueue ==
  ASSUME NEW ops \in Seq(Operations), NEW kinds
  PROVE  LET new == Outdated(ops, kinds)
         IN  /\ new \in Seq(Operations) /\ Len(new) = Len(ops)
             /\ \A i \in 1 .. Len(ops) :
                  /\ new[i] \in Operations
                  /\ new[i].kind = ops[i].kind /\ new[i].value = ops[i].value
                  /\ new[i].current = TRUE => ops[i].current = TRUE
                  /\ ops[i].kind \in kinds => new[i].current = FALSE
                  /\ ops[i].kind \notin kinds => new[i] = ops[i]
<1> DEFINE new == Outdated(ops, kinds)
           n == Len(ops)
<1>1. n \in Nat /\ \A i \in 1..n : ops[i] \in Operations
  BY LenProperties, ElementOfSeq
<1>2. new = [i \in 1..n |-> IF ops[i].kind \in kinds
                            THEN [ops[i] EXCEPT !.current = FALSE] ELSE ops[i]]
  BY DEF Outdated
<1> HIDE DEF new, n
<1>3. ASSUME NEW i \in 1..n
      PROVE  /\ new[i] \in Operations
             /\ new[i].kind = ops[i].kind /\ new[i].value = ops[i].value
             /\ new[i].current = TRUE => ops[i].current = TRUE
             /\ ops[i].kind \in kinds => new[i].current = FALSE
             /\ ops[i].kind \notin kinds => new[i] = ops[i]
  <2>1. ops[i] \in Operations
    BY <1>1
  <2>2. CASE ops[i].kind \in kinds
    <3>1. new[i] = [ops[i] EXCEPT !.current = FALSE]
      BY <1>2, <2>2
    <3> QED
      BY <2>1, <2>2, <3>1, OperationColumns
  <2>3. CASE ops[i].kind \notin kinds
    BY <1>2, <2>1, <2>3
  <2> QED
    BY <2>2, <2>3
<1>4. new \in [1..n -> Operations]
  BY <1>2, <1>3
<1>5. new \in Seq(Operations) /\ Len(new) = n
  BY <1>1, <1>4
<1> QED
  BY <1>3, <1>5 DEF new, n

LEMMA AppendQueue ==
  ASSUME NEW ops \in Seq(Operations), NEW op \in Operations
  PROVE  LET new == Append(ops, op)
         IN  /\ new \in Seq(Operations) /\ Len(new) = Len(ops) + 1 /\ Len(ops) \in Nat
             /\ \A i \in 1 .. Len(ops) : new[i] = ops[i]
             /\ new[Len(ops) + 1] = op
OBVIOUS

LEMMA TailQueue ==
  ASSUME NEW ops \in Seq(Operations), ops # << >>
  PROVE  /\ Head(ops) \in Operations /\ Head(ops) = ops[1] /\ Len(ops) \in Nat \ {0}
         /\ Tail(ops) \in Seq(Operations) /\ Len(Tail(ops)) = Len(ops) - 1
         /\ \A i \in 1 .. Len(ops) - 1 : Tail(ops)[i] = ops[i + 1]
BY HeadTailProperties, EmptySeq
-----------------------------------------------------------------------------
(* Reads and keeps in the queue.                                           *)

Attempted(ops) ==
  {a \in Attempts : \E i \in 1 .. Len(ops) : ops[i].kind = "keep" /\ ops[i].value = a}

AwaitedRead(op) == op.kind = "read" /\ op.current = TRUE
AwaitedKeep(op) == op.kind = "keep" /\ op.current = TRUE

ReadFor(ops) == {ops[i].value : i \in {n \in 1 .. Len(ops) : AwaitedRead(ops[n])}}
KeptFor(ops) == {ops[i].value.print : i \in {n \in 1 .. Len(ops) : AwaitedKeep(ops[n])}}

(* Attempts are kept in the order of their keys, a print that is read for  *)
(* is neither read for again nor kept behind, and no print is kept for     *)
(* twice.                                                                  *)
Follows(op, later) ==
  /\ op.kind = "keep" /\ later.kind = "keep" => op.value.key < later.value.key
  /\ AwaitedRead(op) /\ later.kind = "keep" => later.value.print # op.value
  /\ AwaitedRead(op) /\ AwaitedRead(later) => later.value # op.value
  /\ AwaitedKeep(op) /\ AwaitedKeep(later) => later.value.print # op.value.print

Lined(ops) == \A i, j \in 1 .. Len(ops) : i < j => Follows(ops[i], ops[j])

LEMMA OutdatedLined ==
  ASSUME NEW ops \in Seq(Operations), NEW kinds
  PROVE  LET new == Outdated(ops, kinds)
         IN  /\ Lined(ops) => Lined(new)
             /\ Attempted(new) = Attempted(ops)
             /\ ReadFor(new) \subseteq ReadFor(ops)
             /\ KeptFor(new) \subseteq KeptFor(ops)
<1> DEFINE new == Outdated(ops, kinds)
<1>1. /\ Len(new) = Len(ops)
      /\ \A i \in 1 .. Len(ops) : /\ new[i].kind = ops[i].kind /\ new[i].value = ops[i].value
                                  /\ new[i].current = TRUE => ops[i].current = TRUE
  BY OutdatedQueue
<1> HIDE DEF new
<1>2. Lined(ops) => Lined(new)
  BY <1>1 DEF Lined, Follows, AwaitedRead, AwaitedKeep
<1>3. Attempted(new) = Attempted(ops)
  BY <1>1 DEF Attempted
<1>4. ReadFor(new) \subseteq ReadFor(ops)
  BY <1>1 DEF ReadFor, AwaitedRead
<1>5. KeptFor(new) \subseteq KeptFor(ops)
  BY <1>1 DEF KeptFor, AwaitedKeep
<1> QED
  BY <1>2, <1>3, <1>4, <1>5 DEF new

(* An operation joins the end of the queue. *)
LEMMA AppendLined ==
  ASSUME NEW ops \in Seq(Operations), NEW op \in Operations
  PROVE  LET new == Append(ops, op)
         IN  /\ Lined(ops) /\ (\A i \in 1 .. Len(ops) : Follows(ops[i], op)) => Lined(new)
             /\ Attempted(new) = Attempted(ops) \cup {a \in Attempts : op.kind = "keep" /\ a = op.value}
             /\ ReadFor(new) \subseteq ReadFor(ops) \cup (IF AwaitedRead(op) THEN {op.value} ELSE {})
             /\ KeptFor(new) \subseteq KeptFor(ops) \cup (IF AwaitedKeep(op) THEN {op.value.print} ELSE {})
<1> DEFINE new == Append(ops, op)
           n == Len(ops)
<1>1. /\ n \in Nat /\ Len(new) = n + 1
      /\ \A i \in 1 .. n : new[i] = ops[i]
      /\ new[n + 1] = op
  BY AppendQueue
<1> HIDE DEF new
<1>2. \A i \in 1 .. n + 1 : i \in 1 .. n \/ i = n + 1
  BY <1>1
<1>3. 1 .. n \subseteq 1 .. n + 1 /\ n + 1 \in 1 .. n + 1
  BY <1>1
<1>4. ASSUME Lined(ops), \A i \in 1 .. n : Follows(ops[i], op)
      PROVE  Lined(new)
  <2> SUFFICES ASSUME NEW i \in 1 .. n + 1, NEW j \in 1 .. n + 1, i < j
               PROVE  Follows(new[i], new[j])
    BY <1>1 DEF Lined
  <2>1. i \in 1 .. n
    BY <1>1
  <2>2. CASE j \in 1 .. n
    BY <1>1, <1>4, <2>1, <2>2 DEF Lined
  <2>3. CASE j = n + 1
    BY <1>1, <1>4, <2>1, <2>3
  <2> QED
    BY <1>2, <2>2, <2>3
<1> HIDE DEF n
<1>5. Attempted(new) = Attempted(ops) \cup {a \in Attempts : op.kind = "keep" /\ a = op.value}
  BY <1>1, <1>2, <1>3 DEF Attempted, n
<1>6. ReadFor(new) \subseteq ReadFor(ops) \cup (IF AwaitedRead(op) THEN {op.value} ELSE {})
  BY <1>1, <1>2 DEF ReadFor, n
<1>7. KeptFor(new) \subseteq KeptFor(ops) \cup (IF AwaitedKeep(op) THEN {op.value.print} ELSE {})
  BY <1>1, <1>2 DEF KeptFor, n
<1> QED
  BY <1>4, <1>5, <1>6, <1>7 DEF new, n

(* The first operation of the queue is carried out. *)
LEMMA TailLined ==
  ASSUME NEW ops \in Seq(Operations), ops # << >>, Lined(ops)
  PROVE  LET new == Tail(ops)
             op == Head(ops)
         IN  /\ Lined(new)
             /\ Attempted(new) \subseteq Attempted(ops)
             /\ Attempted(ops) \subseteq Attempted(new) \cup {a \in Attempts : op.kind = "keep" /\ a = op.value}
             /\ op.kind = "keep" => op.value \in Attempted(ops)
             /\ op.kind = "keep" => \A a \in Attempted(new) : op.value.key < a.key
             /\ ReadFor(new) \subseteq ReadFor(ops) /\ KeptFor(new) \subseteq KeptFor(ops)
             /\ AwaitedRead(op) => /\ op.value \in ReadFor(ops) /\ op.value \notin ReadFor(new)
                                   /\ \A a \in Attempted(new) : a.print # op.value
             /\ AwaitedKeep(op) => /\ op.value.print \in KeptFor(ops)
                                   /\ op.value.print \notin KeptFor(new)
<1> DEFINE new == Tail(ops)
           op == Head(ops)
           n == Len(ops)
<1>1. /\ op \in Operations /\ op = ops[1] /\ n \in Nat \ {0} /\ Len(new) = n - 1
      /\ \A i \in 1 .. n - 1 : new[i] = ops[i + 1]
  BY TailQueue
<1>2. \A i \in 1 .. n - 1 : i + 1 \in 1 .. n /\ 1 < i + 1
  BY <1>1
<1>3. 1 \in 1 .. n /\ \A i \in 1 .. n : i = 1 \/ \E j \in 1 .. n - 1 : i = j + 1
  <2>1. ASSUME NEW i \in 1 .. n, i # 1
        PROVE  i - 1 \in 1 .. n - 1 /\ i = (i - 1) + 1
    BY <1>1, <2>1
  <2> QED
    BY <1>1, <2>1
<1> HIDE DEF new, op
<1>4. \A i \in 1 .. n - 1 : Follows(op, new[i])
  BY <1>1, <1>2, <1>3 DEF Lined
<1>5. Lined(new)
  <2> SUFFICES ASSUME NEW i \in 1 .. n - 1, NEW j \in 1 .. n - 1, i < j
               PROVE  Follows(new[i], new[j])
    BY <1>1 DEF Lined
  <2>1. i + 1 < j + 1
    BY <1>1
  <2> QED
    BY <1>1, <1>2, <2>1 DEF Lined
<1> HIDE DEF n
<1>6. Attempted(new) \subseteq Attempted(ops)
  BY <1>1, <1>2 DEF Attempted, n
<1>7. Attempted(ops) \subseteq Attempted(new) \cup {a \in Attempts : op.kind = "keep" /\ a = op.value}
  <2> SUFFICES ASSUME NEW a \in Attempts, NEW i \in 1 .. n, ops[i].kind = "keep", ops[i].value = a,
                      i # 1
               PROVE  a \in Attempted(new)
    BY <1>1, <1>3 DEF Attempted, n
  <2>1. PICK j \in 1 .. n - 1 : i = j + 1
    BY <1>3
  <2> QED
    BY <1>1, <2>1 DEF Attempted
<1>8. op.kind = "keep" => op.value \in Attempted(ops)
  BY <1>1, <1>3, OperationColumns DEF Attempted, n
<1>9. op.kind = "keep" => \A a \in Attempted(new) : op.value.key < a.key
  BY <1>1, <1>4 DEF Follows, Attempted
<1>10. ReadFor(new) \subseteq ReadFor(ops)
  BY <1>1, <1>2 DEF ReadFor, n
<1>11. KeptFor(new) \subseteq KeptFor(ops)
  BY <1>1, <1>2 DEF KeptFor, n
<1>12. AwaitedRead(op) => op.value \in ReadFor(ops)
  BY <1>1, <1>3 DEF ReadFor, n
<1>13. AwaitedRead(op) => op.value \notin ReadFor(new)
  BY <1>1, <1>4 DEF ReadFor, Follows
<1>14. AwaitedRead(op) => \A a \in Attempted(new) : a.print # op.value
  BY <1>1, <1>4 DEF Attempted, Follows
<1>15. AwaitedKeep(op) => op.value.print \in KeptFor(ops)
  BY <1>1, <1>3 DEF KeptFor, n
<1>16. AwaitedKeep(op) => op.value.print \notin KeptFor(new)
  BY <1>1, <1>4 DEF KeptFor, Follows
<1> QED
  BY <1>5, <1>6, <1>7, <1>8, <1>9, <1>10, <1>11, <1>12, <1>13, <1>14, <1>15, <1>16
     DEF new, op

-----------------------------------------------------------------------------
(* Pages and submissions.                                                  *)

LEMMA PageColumns ==
  ASSUME NEW p \in Pages
  PROVE  /\ p.form \in Forms /\ p.agreed \in BOOLEAN /\ p.version \in Nat
         /\ <<p.form, p.version>> \in Fingerprints
         /\ \A x \in {"RESTORING", "IDLE", "SAVING", "SAVED", "ERROR"} :
              LET new == [p EXCEPT !.status = x]
              IN  new \in Pages /\ new.mode = p.mode /\ new.form = p.form /\ new.status = x
         /\ LET new == [p EXCEPT !.timer = FALSE]
            IN  new \in Pages /\ new.mode = p.mode /\ new.form = p.form /\ new.status = p.status
BY DEF Pages, Fingerprints

LEMMA SubmittedColumns ==
  ASSUME NEW p \in Pages
  PROVE  LET new == [p EXCEPT !.mode = "submitted"]
         IN  new \in Pages /\ new.mode = "submitted"
BY DEF Pages

LEMMA NoPageTyped ==
  /\ NoPage \in Pages /\ NoPage.mode = "closed" /\ NoPage.timer = FALSE
BY ApplicationAssumption DEF NoPage, Pages, Forms

LEMMA OpenedTyped ==
  ASSUME NEW initial \in {0, MaxForm}, NEW version \in Nat
  PROVE  LET new == [NoPage EXCEPT !.mode = "restoring", !.form = initial, !.version = version]
         IN  new \in Pages /\ new.mode = "restoring" /\ new.form = initial
<1>1. initial \in Forms
  BY ApplicationAssumption DEF Forms
<1> QED
  BY <1>1 DEF NoPage, Pages

LEMMA ChangedColumns ==
  ASSUME NEW p \in Pages, NEW form \in Forms, NEW agreed \in BOOLEAN
  PROVE  LET new == [p EXCEPT !.form = form, !.agreed = agreed, !.status = "SAVING", !.timer = TRUE]
         IN  new \in Pages /\ new.mode = p.mode /\ new.form = form /\ new.status = "SAVING"
BY DEF Pages

LEMMA RestoredColumns ==
  ASSUME NEW ok \in BOOLEAN, page \in Pages, draft \in Forms \cup {Nothing}
  PROVE  LET new == Restored(ok)
         IN  /\ new \in Pages /\ new.mode = "open"
             /\ new.status \in {"SAVED", "IDLE"} =>
                  IF draft = Nothing THEN new.form = 0 ELSE new.form = draft
BY DEF Restored, Pages

LEMMA IdleTyped ==
  /\ Idle \in Submits /\ Idle.step = "idle" /\ Idle.answer = Nothing
  /\ Idle.attempt = Nothing
BY DEF Idle, Submits, Steps

LEMMA SubmitColumns ==
  ASSUME NEW s \in Submits
  PROVE  /\ s.print \in Fingerprints \cup {Nothing} /\ s.attempt \in Attempts \cup {Nothing}
         /\ s.answer \in Answers \cup {Nothing}
         /\ s.step \in Steps
BY DEF Submits

LEMMA SubmitMoved ==
  ASSUME NEW s \in Submits, NEW a \in Attempts \cup {Nothing},
         NEW step \in Steps
  PROVE  LET new == [s EXCEPT !.step = step, !.attempt = a]
         IN  /\ new \in Submits /\ new.step = step /\ new.attempt = a
             /\ new.print = s.print /\ new.answer = s.answer
BY DEF Submits

LEMMA SubmitConcluded ==
  ASSUME NEW s \in Submits, NEW answer \in Answers
  PROVE  LET new == [s EXCEPT !.step = "answered", !.answer = answer]
         IN  /\ new \in Submits /\ new.step = "answered" /\ new.answer = answer
             /\ new.print = s.print /\ new.attempt = s.attempt
BY DEF Submits, Steps

LEMMA FirstColumns ==
  ASSUME NEW print \in Fingerprints
  PROVE  LET new == [Idle EXCEPT !.step = "read", !.print = print]
         IN  /\ new \in Submits /\ new.step = "read" /\ new.print = print
             /\ new.answer = Nothing /\ new.attempt = Nothing
BY DEF Idle, Submits, Steps

(* What the preparation of a print does to the two submissions. *)
LEMMA MoveColumns ==
  ASSUME submits \in [Submitters -> Submits], NEW print, NEW a \in Attempts \cup {Nothing},
         NEW step \in Steps,
         Move(print, step, a)
  PROVE  /\ submits' \in [Submitters -> Submits]
         /\ \A k \in Submitters :
              /\ submits'[k].print = submits[k].print /\ submits'[k].answer = submits[k].answer
              /\ Preparing(k, print) => submits'[k].step = step /\ submits'[k].attempt = a
              /\ ~Preparing(k, print) => submits'[k] = submits[k]
<1>1. ASSUME NEW k \in Submitters
      PROVE  /\ submits'[k] \in Submits
             /\ submits'[k].print = submits[k].print /\ submits'[k].answer = submits[k].answer
             /\ Preparing(k, print) => submits'[k].step = step /\ submits'[k].attempt = a
             /\ ~Preparing(k, print) => submits'[k] = submits[k]
  <2>1. submits[k] \in Submits
    OBVIOUS
  <2>2. CASE Preparing(k, print)
    <3> DEFINE new == [submits[k] EXCEPT !.step = step, !.attempt = a]
    <3>1. submits'[k] = new
      BY <2>2 DEF Move
    <3>2. /\ new \in Submits /\ new.step = step /\ new.attempt = a
          /\ new.print = submits[k].print /\ new.answer = submits[k].answer
      BY <2>1, SubmitMoved
    <3> HIDE DEF new
    <3> QED
      BY <2>2, <3>1, <3>2
  <2>3. CASE ~Preparing(k, print)
    <3>1. submits'[k] = submits[k]
      BY <2>3 DEF Move
    <3> QED
      BY <2>1, <2>3, <3>1
  <2> QED
    BY <2>2, <2>3
<1>2. submits' = [k \in Submitters |-> submits'[k]]
  BY DEF Move
<1> QED
  BY <1>1, <1>2

(* What an answer does to them. *)
LEMMA AnswerColumns ==
  ASSUME submits \in [Submitters -> Submits], NEW a \in Attempts, NEW answer \in Answers,
         Answer(a, answer)
  PROVE  /\ submits' \in [Submitters -> Submits]
         /\ \A k \in Submitters :
              /\ submits'[k].print = submits[k].print /\ submits'[k].attempt = submits[k].attempt
              /\ \/ submits'[k] = submits[k]
                 \/ /\ submits[k].step = "sent" /\ submits[k].attempt = a
                    /\ submits'[k].step = "answered" /\ submits'[k].answer = answer
<1>1. ASSUME NEW k \in Submitters
      PROVE  /\ submits'[k] \in Submits
             /\ submits'[k].print = submits[k].print /\ submits'[k].attempt = submits[k].attempt
             /\ \/ submits'[k] = submits[k]
                \/ /\ submits[k].step = "sent" /\ submits[k].attempt = a
                   /\ submits'[k].step = "answered" /\ submits'[k].answer = answer
  <2>1. submits[k] \in Submits
    OBVIOUS
  <2>2. CASE submits[k].step = "sent" /\ submits[k].attempt = a
    <3> DEFINE new == [submits[k] EXCEPT !.step = "answered", !.answer = answer]
    <3>1. submits'[k] = new
      BY <2>2 DEF Answer, Concluded
    <3>2. /\ new \in Submits /\ new.step = "answered" /\ new.answer = answer
          /\ new.print = submits[k].print /\ new.attempt = submits[k].attempt
      BY <2>1, SubmitConcluded
    <3> HIDE DEF new
    <3> QED
      BY <2>2, <3>1, <3>2
  <2>3. CASE ~(submits[k].step = "sent" /\ submits[k].attempt = a)
    BY <2>1, <2>3 DEF Answer
  <2> QED
    BY <2>2, <2>3
<1>2. submits' = [k \in Submitters |-> submits'[k]]
  BY DEF Answer
<1> QED
  BY <1>1, <1>2

LEMMA VerdictTyped == \A a : Verdict(a) \in {"receipt", "stale", "duplicate"}
BY DEF Verdict

-----------------------------------------------------------------------------
(* Every step keeps the types.                                             *)

LEMMA Begins ==
  ASSUME Typed, NEW op \in Operations, Begun(op)
  PROVE  operations' \in Seq(Operations)
BY AppendQueue DEF Typed, Begun

LEMMA OperationsMade ==
  /\ \A v \in Forms : Operation("put", v) \in Operations
  /\ Operation("load", Nothing) \in Operations /\ Operation("delete", Nothing) \in Operations
  /\ [Operation("delete", Nothing) EXCEPT !.current = FALSE] \in Operations
  /\ \A p \in Fingerprints : Operation("read", p) \in Operations
  /\ \A a \in Attempts : Operation("keep", a) \in Operations
BY DEF Operation, Operations

LEMMA UnloadedTyped ==
  ASSUME Typed, Unloaded
  PROVE  page' \in Pages /\ submits' \in [Submitters -> Submits] /\ volatile' = Nothing
         /\ operations' \in Seq(Operations)
<1>1. submits' \in [Submitters -> Submits]
  BY IdleTyped DEF Unloaded
<1>2. operations' \in Seq(Operations)
  <2> DEFINE kinds == Autosaves \cup {"load", "read", "keep"}
  <2>1. operations' = Outdated(operations, kinds)
    BY DEF Unloaded
  <2> HIDE DEF kinds
  <2> QED
    BY <2>1, OutdatedQueue DEF Typed
<1> QED
  BY <1>1, <1>2, NoPageTyped DEF Unloaded

(* The key of an attempt joins those the store could not give back. *)
LEMMA LapsesTyped ==
  ASSUME lapsed \in SUBSET Nat, NEW a \in Attempts \cup {Nothing}, Lapses(a)
  PROVE  lapsed' \in SUBSET Nat /\ lapsed \subseteq lapsed' /\ (a # Nothing => a.key \in lapsed')
BY DEF Lapses, Attempts

LEMMA CarryOutTyped ==
  ASSUME Typed, NEW ok \in BOOLEAN, CarryOut(ok)
  PROVE  Typed'
<1> DEFINE op == Head(operations)
<1>1. op \in Operations /\ operations' \in Seq(Operations)
  BY TailQueue DEF Typed, CarryOut
<1>2. mishaps' \in Nat /\ keys' \in Nat /\ submission' \in Attempts \cup {Nothing} /\ posting' \in Nat
  BY DEF Typed, CarryOut, Mishap
<1>3. Saves(op, ok) \/ Loads(op, ok) \/ Reads(op, ok) \/ Keeps(op, ok)
  BY DEF CarryOut
<1> HIDE DEF op
<1>4. ASSUME Saves(op, ok) PROVE Typed'
  <2>1. op.kind \in {"put", "delete"}
    BY <1>4 DEF Saves, Autosaves
  <2>2. draft' \in Forms \cup {Nothing}
    BY <1>1, <1>4, <2>1, OperationColumns DEF Saves, Typed
  <2>3. attempt' \in Attempts \cup {Nothing} /\ lapsed' \in SUBSET Nat
    BY <1>4, LapsesTyped DEF Saves, Typed
  <2>4. page' \in Pages
    BY <1>4, PageColumns DEF Saves, Reported, Typed
  <2> QED
    BY <1>1, <1>2, <1>4, <2>2, <2>3, <2>4 DEF Saves, Typed
<1>5. ASSUME Loads(op, ok) PROVE Typed'
  <2>1. page' \in Pages
    BY <1>5, RestoredColumns DEF Loads, Typed
  <2> QED
    BY <1>1, <1>2, <1>5, <2>1 DEF Loads, Typed, storeVars
<1>6. ASSUME Reads(op, ok) PROVE Typed'
  <2> DEFINE found == IF ok THEN attempt ELSE volatile
  <2>1. found \in Attempts \cup {Nothing}
    BY DEF Typed
  <2>2. lapsed' \in SUBSET Nat
    BY <1>6, LapsesTyped DEF Reads, Typed
  <2>3. \/ UNCHANGED <<submits, requests>>
        \/ Reusable(found, op.value) /\ Send(op.value, found)
        \/ Move(op.value, "prepare", Nothing) /\ UNCHANGED requests
    BY <1>6 DEF Reads
  <2> HIDE DEF found
  <2>4. submits' \in [Submitters -> Submits] /\ requests' \in SUBSET Attempts
    <3>1. CASE UNCHANGED <<submits, requests>>
      BY <3>1 DEF Typed
    <3>2. CASE Reusable(found, op.value) /\ Send(op.value, found)
      BY <2>1, <3>2, MoveColumns DEF Reusable, Send, Typed, Steps
    <3>3. CASE Move(op.value, "prepare", Nothing) /\ UNCHANGED requests
      BY <3>3, MoveColumns DEF Typed, Steps
    <3> QED
      BY <2>3, <3>1, <3>2, <3>3
  <2> QED
    BY <1>1, <1>2, <1>6, <2>2, <2>4 DEF Reads, Typed
<1>7. ASSUME Keeps(op, ok) PROVE Typed'
  <2>1. op.value \in Attempts
    BY <1>1, <1>7, OperationColumns DEF Keeps
  <2>2. attempt' \in Attempts \cup {Nothing} /\ lapsed' \in SUBSET Nat
    BY <1>7, <2>1, LapsesTyped DEF Keeps, Typed
  <2>3. submits' \in [Submitters -> Submits] /\ requests' \in SUBSET Attempts
        /\ volatile' \in Attempts \cup {Nothing}
    <3>1. CASE UNCHANGED <<submits, requests, volatile>>
      BY <3>1 DEF Typed
    <3>2. CASE Send(op.value.print, op.value) /\ volatile' = op.value
      BY <2>1, <3>2, MoveColumns DEF Send, Typed, Steps
    <3> QED
      BY <1>7, <3>1, <3>2 DEF Keeps
  <2> QED
    BY <1>1, <1>2, <1>7, <2>2, <2>3 DEF Keeps, Typed
<1> QED
  BY <1>3, <1>4, <1>5, <1>6, <1>7

LEMMA PageTyped ==
  ASSUME Typed
  PROVE  /\ Open \/ Autosave \/ StopAutosave => Typed'
         /\ \A form \in 0 .. MaxForm, agreed \in BOOLEAN : EditForm(form, agreed) => Typed'
<1> USE DEF allButPage, storeVars, submissionVars
<1>1. ASSUME Open PROVE Typed'
  <2>1. page' \in Pages
    BY <1>1, OpenedTyped DEF Open, Typed
  <2>2. operations' \in Seq(Operations)
    BY <1>1, Begins, OperationsMade DEF Open
  <2> QED
    BY <1>1, <2>1, <2>2 DEF Open, Typed
<1>2. ASSUME Autosave PROVE Typed'
  <2>1. page.form \in Forms
    BY PageColumns DEF Typed
  <2>2. operations' \in Seq(Operations)
    BY <1>2, <2>1, Begins, OperationsMade DEF Autosave
  <2>3. page' \in Pages
    BY <1>2, PageColumns DEF Autosave, Typed
  <2> QED
    BY <1>2, <2>2, <2>3 DEF Autosave, Typed
<1>3. ASSUME StopAutosave PROVE Typed'
  <2>1. page' \in Pages
    BY <1>3, PageColumns DEF StopAutosave, Typed
  <2>2. operations' \in Seq(Operations)
    BY <1>3, OutdatedQueue DEF StopAutosave, Typed
  <2> QED
    BY <1>3, <2>1, <2>2 DEF StopAutosave, Typed
<1>4. ASSUME NEW form \in 0 .. MaxForm, NEW agreed \in BOOLEAN, EditForm(form, agreed)
      PROVE  Typed'
  <2>1. page' \in Pages
    BY <1>4, ChangedColumns DEF EditForm, Changed, Typed, Forms
  <2>2. operations' \in Seq(Operations)
    BY <1>4, OutdatedQueue DEF EditForm, Changed, Typed
  <2> QED
    BY <1>4, <2>1, <2>2 DEF EditForm, Typed
<1> QED
  BY <1>1, <1>2, <1>3, <1>4

LEMMA LeaveTyped ==
  ASSUME Typed, Leave \/ Unload
  PROVE  Typed'
<1> USE DEF storeVars, submissionVars
<1>1. CASE Leave
  <2>1. submits' \in [Submitters -> Submits]
    BY <1>1, IdleTyped DEF Leave, Typed, Submitters
  <2>2. operations' \in Seq(Operations)
    BY <1>1, OutdatedQueue DEF Leave, Typed
  <2> QED
    BY <1>1, <2>1, <2>2, NoPageTyped DEF Leave, Typed
<1>2. CASE Unload
  BY <1>2, UnloadedTyped DEF Unload, Typed
<1> QED
  BY <1>1, <1>2

LEMMA SubmitTyped ==
  ASSUME Typed, Submit
  PROVE  Typed'
<1>1. Fingerprint \in Fingerprints
  BY PageColumns DEF Fingerprint, Typed
<1>2. submits' \in [Submitters -> Submits]
  BY <1>1, FirstColumns DEF Submit, Typed, Submitters
<1>3. operations' \in Seq(Operations)
  BY <1>1, Begins, OperationsMade DEF Submit, Typed
<1> QED
  BY <1>2, <1>3 DEF Submit, Typed, storeVars, submissionVars

(* An attempt is made only of contents. *)
Carries(s) == s.step # "idle" => s.print \in Fingerprints

LEMMA BodyReadyTyped ==
  ASSUME Typed, NEW k \in Submitters, Carries(submits[k]), BodyReady(k)
  PROVE  Typed'
<1>1. submits[k].print \in Fingerprints
  BY DEF Carries, BodyReady
<1>2. CASE keys' = keys + 1
  <2> DEFINE a == [key |-> keys + 1, print |-> submits[k].print]
  <2>1. a \in Attempts
    BY <1>1 DEF Typed, Attempts
  <2>2. Move(a.print, "keep", a) /\ Begun(Operation("keep", a)) /\ UNCHANGED page
    BY <1>2 DEF BodyReady, Typed
  <2> HIDE DEF a
  <2>3. submits' \in [Submitters -> Submits]
    BY <2>1, <2>2, MoveColumns DEF Typed, Steps
  <2>4. operations' \in Seq(Operations)
    BY <2>1, <2>2, Begins, OperationsMade
  <2> QED
    BY <1>2, <2>2, <2>3, <2>4 DEF BodyReady, Typed, storeVars, submissionVars
<1>3. CASE UNCHANGED keys
  <2>1. /\ Move(submits[k].print, "answered", Nothing)
        /\ \/ UNCHANGED <<page, operations>>
           \/ \E form \in 0 .. MaxForm : Changed(form, page.agreed)
    BY <1>3 DEF BodyReady, Typed
  <2>2. submits' \in [Submitters -> Submits]
    BY <2>1, MoveColumns DEF Typed, Steps
  <2>3. page' \in Pages /\ operations' \in Seq(Operations)
    <3>1. CASE UNCHANGED <<page, operations>>
      BY <3>1 DEF Typed
    <3>2. ASSUME NEW form \in 0 .. MaxForm, Changed(form, page.agreed)
          PROVE  page' \in Pages /\ operations' \in Seq(Operations)
      BY <3>2, ChangedColumns, PageColumns, OutdatedQueue DEF Changed, Typed, Forms
    <3> QED
      BY <2>1, <3>1, <3>2
  <2> QED
    BY <1>3, <2>2, <2>3 DEF BodyReady, Typed, storeVars, submissionVars
<1> QED
  BY <1>2, <1>3 DEF BodyReady

LEMMA ServerTyped ==
  ASSUME Typed, NEW a \in requests, HandleSubmission(a) \/ Vanish(a)
  PROVE  /\ Typed'
         /\ \E answer \in Answers : Answer(a, answer)
<1>1. a \in Attempts
  BY DEF Typed
<1>2. PICK answer \in Answers : Answer(a, answer)
  BY VerdictTyped DEF HandleSubmission, Vanish, Answers
<1>3. submits' \in [Submitters -> Submits]
  BY <1>1, <1>2, AnswerColumns DEF Typed
<1>4. submission' \in Attempts \cup {Nothing}
  BY <1>1 DEF HandleSubmission, Vanish, Typed
<1>5. requests' \in SUBSET Attempts /\ mishaps' \in Nat
  BY DEF HandleSubmission, Vanish, Typed, Mishap
<1> QED
  BY <1>2, <1>3, <1>4, <1>5 DEF HandleSubmission, Vanish, Typed, storeVars

LEMMA AnswersTyped ==
  ASSUME Typed, NEW k \in Submitters, LoseAnswer(k) \/ TakeAnswer(k)
  PROVE  Typed'
<1> USE DEF storeVars, submissionVars
<1>1. CASE LoseAnswer(k)
  <2>1. submits[k] \in Submits /\ "lost" \in Answers
    BY DEF Typed, Answers
  <2>2. Concluded(k, "lost") \in Submits
    BY <2>1, SubmitConcluded DEF Concluded
  <2> QED
    BY <1>1, <2>2 DEF LoseAnswer, Typed, Mishap
<1>2. CASE TakeAnswer(k) /\ submits[k].answer = "expired"
  BY <1>2, UnloadedTyped DEF TakeAnswer, Typed
<1>3. CASE TakeAnswer(k) /\ submits[k].answer # "expired"
  <2>1. submits' \in [Submitters -> Submits]
    BY <1>3, IdleTyped DEF TakeAnswer, Typed
  <2>2. operations' \in Seq(Operations) /\ volatile' \in Attempts \cup {Nothing}
    BY <1>3, Begins, OperationsMade DEF TakeAnswer, Typed
  <2>3. page' \in Pages
    <3>1. page' = page \/ page' = [page EXCEPT !.mode = "submitted"]
      BY <1>3 DEF TakeAnswer
    <3>2. page \in Pages
      BY DEF Typed
    <3> QED
      BY <3>1, <3>2, SubmittedColumns
  <2> QED
    BY <1>3, <2>1, <2>2, <2>3 DEF TakeAnswer, Typed
<1> QED
  BY <1>1, <1>2, <1>3

LEMMA ElsewhereTyped ==
  ASSUME Typed, Elsewhere
  PROVE  /\ Typed'
         /\ \/ submission' = submission
            \/ /\ submission = Nothing
               /\ submission' # Nothing /\ submission'.key = 0
<1>1. [key |-> 0, print |-> <<MaxForm, posting>>] \in Attempts
  BY ApplicationAssumption DEF Typed, Attempts, Fingerprints, Forms
<1>2. [key |-> 0, print |-> <<MaxForm, posting>>] # Nothing
  BY <1>1, NothingAssumption
<1>3. \/ submission' = submission
      \/ /\ submission = Nothing
         /\ submission' = [key |-> 0, print |-> <<MaxForm, posting>>]
  BY DEF Elsewhere
<1>4. submission' \in Attempts \cup {Nothing}
  BY <1>1, <1>3 DEF Typed
<1>5. posting' \in Nat /\ mishaps' \in Nat
  BY DEF Elsewhere, Typed, Mishap
<1> QED
  BY <1>2, <1>3, <1>4, <1>5 DEF Elsewhere, Typed, storeVars

-----------------------------------------------------------------------------
(* The attempts of one browser.                                            *)

(* The attempt the server has stored, if it came from this browser. *)
Stored == {a \in {submission} : a # Nothing /\ a.key # 0}

(* Every attempt somebody still holds. *)
Known == ({attempt, volatile} \cup requests \cup {submits[k].attempt : k \in Submitters}
            \cup Attempted(operations) \cup Stored) \ {Nothing}

(* An attempt is its key, and of two attempts of the same contents the     *)
(* older one is one the store could no longer give back.                   *)
Numbered == \A a \in Known : a \in Attempts /\ a.key \in 1 .. keys
Unique == \A a, b \in Known : a.key = b.key => a = b
Older == \A a, b \in Known : a.print = b.print /\ a.key < b.key => a.key \in lapsed

(* An attempt that has not lapsed is in the store or on its way there, in  *)
(* the order of the keys.                                                  *)
Remembered == \A a \in Known : a.key \in lapsed \/ a = attempt \/ a \in Attempted(operations)
Ahead == attempt # Nothing => \A a \in Attempted(operations) : attempt.key < a.key

(* Who prepares a new attempt has found none of these contents.            *)
Fresh == \A k \in Submitters : submits[k].step = "prepare" =>
           \A a \in Known : a.print = submits[k].print => a.key \in lapsed

(* Who waits for an operation of the store is in the step that began it,   *)
(* and the two pages share the preparation of the same contents.           *)
Awaited ==
  /\ \A p \in ReadFor(operations) :
       \E k \in Submitters : submits[k].step = "read" /\ submits[k].print = p
  /\ \A p \in KeptFor(operations) :
       \E k \in Submitters : submits[k].step = "keep" /\ submits[k].print = p
Together == \A k, l \in Submitters : Preparing(k, submits[l].print) /\ Preparing(l, submits[k].print)
                                      => submits[k].step = submits[l].step

(* What is sent and answered is an attempt of the contents submitted.      *)
Carried(s) ==
  /\ Carries(s)
  /\ s.step # "answered" => s.answer = Nothing
  /\ s.step = "sent" => s.attempt \in Attempts /\ s.attempt.print = s.print
  /\ s.answer \in {"receipt", "duplicate"} =>
       /\ s.attempt \in Attempts /\ s.attempt.print = s.print
       /\ submission # Nothing
  /\ s.answer = "receipt" => submission.key # 0 /\ submission.print = s.print
  /\ s.answer = "duplicate" => submission.key # s.attempt.key

AllCarried == \A k \in Submitters : Carried(submits[k])

Numbers == Numbered /\ Unique /\ Older /\ Remembered /\ Ahead
Slots == Fresh /\ Awaited /\ Together /\ AllCarried
AttemptInv == Typed /\ Lined(operations) /\ Numbers /\ Slots

(* Everything is known. *)
LEMMA KnownHolds ==
  ASSUME Typed
  PROVE  /\ attempt # Nothing => attempt \in Known
         /\ volatile # Nothing => volatile \in Known
         /\ requests \subseteq Known
         /\ \A k \in Submitters : submits[k].attempt # Nothing => submits[k].attempt \in Known
         /\ Attempted(operations) \subseteq Known
         /\ submission # Nothing /\ submission.key # 0 => submission \in Known
         /\ Known \subseteq Attempts
<1>1. \A a \in Attempts : a # Nothing
  BY NothingAssumption
<1>2. requests \subseteq Attempts /\ Attempted(operations) \subseteq Attempts
  BY DEF Typed, Attempted
<1>3. \A k \in Submitters : submits[k].attempt \in Attempts \cup {Nothing}
  BY SubmitColumns DEF Typed
<1>4. Stored \subseteq Attempts
  BY DEF Stored, Typed
<1>5. Known \subseteq Attempts
  BY <1>2, <1>3, <1>4 DEF Known, Typed
<1> QED
  BY <1>1, <1>2, <1>5 DEF Known, Stored

(* Attempts that are only handed on, or forgotten, break no number.        *)
LEMMA FewerKnown ==
  ASSUME AttemptInv, Known' \subseteq Known, keys' = keys, lapsed \subseteq lapsed'
  PROVE  Numbered' /\ Unique' /\ Older'
BY DEF AttemptInv, Numbers, Numbered, Unique, Older

LEMMA SameStore ==
  ASSUME AttemptInv, Known' \subseteq Known, UNCHANGED <<keys, lapsed, attempt>>,
         Attempted(operations') = Attempted(operations)
  PROVE  Numbers'
<1>1. Numbered' /\ Unique' /\ Older'
  BY FewerKnown
<1>2. Remembered' /\ Ahead'
  BY DEF AttemptInv, Numbers, Remembered, Ahead
<1> QED
  BY <1>1, <1>2 DEF Numbers

(* The submissions stay as they are. *)
LEMMA SameSlots ==
  ASSUME AttemptInv, Known' \subseteq Known, lapsed \subseteq lapsed', submits' = submits,
         ReadFor(operations') \subseteq ReadFor(operations),
         KeptFor(operations') \subseteq KeptFor(operations),
         submission' = submission \/ submission = Nothing
  PROVE  Slots'
<1>1. Fresh'
  BY DEF AttemptInv, Slots, Fresh
<1>2. Awaited'
  BY DEF AttemptInv, Slots, Awaited
<1>3. Together'
  BY DEF AttemptInv, Slots, Together, Preparing
<1>4. AllCarried'
  <2> SUFFICES ASSUME NEW k \in Submitters PROVE Carried(submits[k])'
    BY DEF AllCarried
  <2>1. Carried(submits[k])
    BY DEF AttemptInv, Slots, AllCarried
  <2>2. CASE submission' = submission
    BY <2>1, <2>2 DEF Carried, Carries
  <2>3. CASE submission = Nothing
    BY <2>1, <2>3 DEF Carried, Carries
  <2> QED
    BY <2>2, <2>3
<1> QED
  BY <1>1, <1>2, <1>3, <1>4 DEF Slots

(* A step that begins or outdates operations of the draft only. *)
QueueKept ==
  /\ Lined(operations') /\ Attempted(operations') = Attempted(operations)
  /\ ReadFor(operations') \subseteq ReadFor(operations)
  /\ KeptFor(operations') \subseteq KeptFor(operations)

LEMMA AppendedOther ==
  ASSUME operations \in Seq(Operations), Lined(operations), NEW op \in Operations,
         op.kind \in {"put", "load", "delete"}, operations' = Append(operations, op)
  PROVE  QueueKept
<1>1. op.kind # "keep" /\ ~AwaitedRead(op) /\ ~AwaitedKeep(op)
  BY DEF AwaitedRead, AwaitedKeep
<1>2. \A i \in 1 .. Len(operations) : Follows(operations[i], op)
  BY <1>1 DEF Follows
<1> DEFINE new == Append(operations, op)
<1>3. /\ Lined(new)
      /\ Attempted(new) = Attempted(operations) \cup {a \in Attempts : op.kind = "keep" /\ a = op.value}
      /\ ReadFor(new) \subseteq ReadFor(operations) \cup (IF AwaitedRead(op) THEN {op.value} ELSE {})
      /\ KeptFor(new) \subseteq KeptFor(operations) \cup (IF AwaitedKeep(op) THEN {op.value.print} ELSE {})
  BY <1>2, AppendLined
<1> HIDE DEF new
<1>4. Lined(new) /\ Attempted(new) = Attempted(operations)
  BY <1>1, <1>3
<1>5. ReadFor(new) \subseteq ReadFor(operations) /\ KeptFor(new) \subseteq KeptFor(operations)
  BY <1>1, <1>3
<1> QED
  BY <1>4, <1>5 DEF QueueKept, new

(* The page and its draft. *)
LEMMA PageAttempts ==
  ASSUME AttemptInv,
         \/ Open \/ Autosave \/ StopAutosave
         \/ \E form \in 0 .. MaxForm, agreed \in BOOLEAN : EditForm(form, agreed)
  PROVE  AttemptInv'
<1>1. Typed'
  BY PageTyped DEF AttemptInv
<1>2. QueueKept
  <2>1. ASSUME NEW op \in Operations, op.kind \in {"put", "load", "delete"},
               operations' = Append(operations, op)
        PROVE  QueueKept
    BY <2>1, AppendedOther DEF AttemptInv, Typed
  <2>2. ASSUME operations' = Outdated(operations, Autosaves)
        PROVE  QueueKept
    BY <2>2, OutdatedLined DEF AttemptInv, Typed, QueueKept
  <2>3. ASSUME Open PROVE QueueKept
    BY <2>1, <2>3, OperationsMade DEF Open, Begun, Operation
  <2>4. ASSUME Autosave PROVE QueueKept
    <3>1. page.form \in Forms
      BY PageColumns DEF AttemptInv, Typed
    <3> QED
      BY <2>1, <2>4, <3>1, OperationsMade DEF Autosave, Begun, Operation
  <2>5. ASSUME StopAutosave PROVE QueueKept
    BY <2>2, <2>5 DEF StopAutosave
  <2>6. ASSUME \E form \in 0 .. MaxForm, agreed \in BOOLEAN : EditForm(form, agreed)
        PROVE  QueueKept
    BY <2>2, <2>6 DEF EditForm, Changed
  <2> QED
    BY <2>3, <2>4, <2>5, <2>6
<1>3. UNCHANGED <<keys, lapsed, attempt, volatile, submits, requests, submission>>
  BY DEF Open, Autosave, StopAutosave, EditForm, allButPage, storeVars, submissionVars
<1>4. Known' = Known
  BY <1>2, <1>3 DEF Known, Stored, QueueKept
<1>5. Numbers'
  BY <1>2, <1>3, <1>4, SameStore DEF QueueKept
<1>6. Slots'
  BY <1>2, <1>3, <1>4, SameSlots DEF QueueKept
<1> QED
  BY <1>1, <1>2, <1>5, <1>6 DEF AttemptInv, QueueKept

(* Pages that are left, answers that come. *)
LEMMA OutdatedAwaits ==
  ASSUME NEW ops \in Seq(Operations), NEW kinds, {"read", "keep"} \subseteq kinds
  PROVE  /\ ReadFor(Outdated(ops, kinds)) = {}
         /\ KeptFor(Outdated(ops, kinds)) = {}
<1> DEFINE new == Outdated(ops, kinds)
<1>1. /\ Len(new) = Len(ops)
      /\ \A i \in 1 .. Len(ops) : /\ new[i].kind = ops[i].kind
                                  /\ ops[i].kind \in kinds => new[i].current = FALSE
  BY OutdatedQueue
<1> HIDE DEF new
<1>2. \A i \in 1 .. Len(new) : ~AwaitedRead(new[i]) /\ ~AwaitedKeep(new[i])
  BY <1>1 DEF AwaitedRead, AwaitedKeep
<1> QED
  BY <1>2 DEF ReadFor, KeptFor, new

LEMMA OutdatedKept ==
  ASSUME operations \in Seq(Operations), Lined(operations), NEW kinds,
         operations' = Outdated(operations, kinds)
  PROVE  QueueKept
BY OutdatedLined DEF QueueKept

LEMMA UnloadedAttempts ==
  ASSUME AttemptInv, Typed', Unloaded,
         UNCHANGED <<keys, lapsed, attempt, requests, submission>>
  PROVE  AttemptInv'
<1> DEFINE kinds == Autosaves \cup {"load", "read", "keep"}
<1>1. operations' = Outdated(operations, kinds) /\ {"read", "keep"} \subseteq kinds
  BY DEF Unloaded
<1> HIDE DEF kinds
<1>2. QueueKept /\ ReadFor(operations') = {} /\ KeptFor(operations') = {}
  BY <1>1, OutdatedAwaits, OutdatedKept DEF AttemptInv, Typed
<1>3. \A k \in Submitters : submits'[k] = Idle
  BY DEF Unloaded
<1>4. volatile' = Nothing
  BY DEF Unloaded
<1>5. Known' \subseteq Known
  BY <1>2, <1>3, <1>4, IdleTyped DEF Known, Stored, QueueKept
<1>6. Numbers'
  BY <1>2, <1>5, SameStore DEF QueueKept
<1>7. Fresh' /\ Awaited' /\ Together'
  BY <1>2, <1>3, IdleTyped DEF Fresh, Awaited, Together, Preparing
<1>8. AllCarried'
  BY <1>3, IdleTyped, NothingAssumption DEF AllCarried, Carried, Carries
<1> QED
  BY <1>2, <1>6, <1>7, <1>8 DEF AttemptInv, Slots, QueueKept

LEMMA SlotsConcluded ==
  ASSUME AttemptInv, Known' \subseteq Known, lapsed \subseteq lapsed',
         ReadFor(operations') \subseteq ReadFor(operations),
         KeptFor(operations') \subseteq KeptFor(operations),
         AllCarried',
         \A k \in Submitters : submits'[k].step \in {"read", "prepare", "keep"}
                               => submits'[k] = submits[k],
         \A k \in Submitters : submits[k].step \in {"read", "keep"} => submits'[k] = submits[k]
  PROVE  Slots'
<1>1. Fresh'
  BY DEF AttemptInv, Slots, Fresh
<1>2. Awaited'
  BY DEF AttemptInv, Slots, Awaited
<1>3. Together'
  BY DEF AttemptInv, Slots, Together, Preparing
<1> QED
  BY <1>1, <1>2, <1>3 DEF Slots

LEMMA LeaveAttempts ==
  ASSUME AttemptInv, Leave \/ Unload
  PROVE  AttemptInv'
<1>1. Typed'
  BY LeaveTyped DEF AttemptInv
<1>2. CASE Unload
  BY <1>1, <1>2, UnloadedAttempts DEF Unload, storeVars, submissionVars
<1>3. CASE Leave
  <2>1. UNCHANGED <<keys, lapsed, attempt, volatile, requests, submission>>
    BY <1>3 DEF Leave, storeVars, submissionVars
  <2>2. /\ submits["left"] = Idle
        /\ submits'["page"] = Idle /\ submits'["left"] = submits["page"]
    BY <1>3 DEF Leave
  <2>3. QueueKept
    BY <1>3, OutdatedKept DEF Leave, AttemptInv, Typed
  <2>4. Known' \subseteq Known
    BY <2>1, <2>2, <2>3 DEF Known, Stored, QueueKept, Submitters
  <2>5. Numbers'
    BY <2>1, <2>3, <2>4, SameStore DEF QueueKept
  <2>6. Fresh'
    BY <2>1, <2>2, <2>4, IdleTyped DEF AttemptInv, Slots, Fresh, Submitters
  <2>7. Awaited'
    BY <2>2, <2>3, IdleTyped DEF AttemptInv, Slots, Awaited, Submitters, QueueKept
  <2>8. Together'
    BY <2>2, IdleTyped DEF Together, Preparing, Submitters
  <2>9. AllCarried'
    <3>1. Carried(submits["page"]) /\ Carried(submits["left"])
      BY DEF AttemptInv, Slots, AllCarried, Submitters
    <3> QED
      BY <2>1, <2>2, <3>1 DEF AllCarried, Carried, Carries, Submitters
  <2> QED
    BY <1>1, <2>3, <2>5, <2>6, <2>7, <2>8, <2>9 DEF AttemptInv, Slots, QueueKept
<1> QED
  BY <1>2, <1>3

LEMMA AnswersAttempts ==
  ASSUME AttemptInv, NEW k \in Submitters, LoseAnswer(k) \/ TakeAnswer(k)
  PROVE  AttemptInv'
<1>1. Typed'
  BY AnswersTyped DEF AttemptInv
<1>2. CASE TakeAnswer(k) /\ submits[k].answer = "expired"
  BY <1>1, <1>2, UnloadedAttempts DEF TakeAnswer, storeVars, submissionVars
<1>3. ASSUME QueueKept, UNCHANGED <<keys, lapsed, attempt, volatile, requests, submission>>,
             NEW s \in Submits, submits' = [submits EXCEPT ![k] = s],
             s.step \notin {"read", "prepare", "keep"},
             submits[k].step \notin {"read", "keep"},
             s.attempt \in {Nothing, submits[k].attempt}, Carried(s)
      PROVE  AttemptInv'
  <2>1. submits'[k] = s /\ \A l \in Submitters : l # k => submits'[l] = submits[l]
    BY <1>3 DEF AttemptInv, Typed
  <2>2. Known' \subseteq Known
    BY <1>3, <2>1 DEF Known, Stored, QueueKept
  <2>3. Numbers'
    BY <1>3, <2>2, SameStore DEF QueueKept
  <2>4. AllCarried'
    BY <1>3, <2>1 DEF AttemptInv, Slots, AllCarried, Carried, Carries
  <2>5. Slots'
    BY <1>3, <2>1, <2>2, <2>4, SlotsConcluded DEF QueueKept
  <2> QED
    BY <1>1, <1>3, <2>3, <2>5 DEF AttemptInv, QueueKept
<1>4. CASE LoseAnswer(k)
  <2>1. submits[k] \in Submits /\ "lost" \in Answers /\ Carried(submits[k])
    BY DEF AttemptInv, Slots, AllCarried, Typed, Answers
  <2> DEFINE s == Concluded(k, "lost")
  <2>2. /\ s \in Submits /\ s.step = "answered" /\ s.answer = "lost"
        /\ s.print = submits[k].print /\ s.attempt = submits[k].attempt
    BY <2>1, SubmitConcluded DEF Concluded
  <2>3. submits' = [submits EXCEPT ![k] = s] /\ submits[k].step = "sent"
    BY <1>4 DEF LoseAnswer
  <2> HIDE DEF s
  <2>4. Carried(s)
    BY <2>1, <2>2, <2>3 DEF Carried, Carries
  <2>5. QueueKept /\ UNCHANGED <<keys, lapsed, attempt, volatile, requests, submission>>
    BY <1>4 DEF LoseAnswer, QueueKept, storeVars, submissionVars, AttemptInv
  <2> QED
    BY <1>3, <2>2, <2>3, <2>4, <2>5
<1>5. CASE TakeAnswer(k) /\ submits[k].answer # "expired"
  <2>1. submits' = [submits EXCEPT ![k] = Idle] /\ submits[k].step = "answered"
    BY <1>5 DEF TakeAnswer
  <2>2. Carried(Idle)
    BY IdleTyped, NothingAssumption DEF Carried, Carries
  <2>3. UNCHANGED <<keys, lapsed, attempt, volatile, requests, submission>>
    BY <1>5 DEF TakeAnswer, storeVars, submissionVars
  <2>4. QueueKept
    <3> DEFINE op == [Operation("delete", Nothing) EXCEPT !.current = FALSE]
    <3>1. op \in Operations /\ op.kind = "delete"
      BY OperationsMade DEF Operation
    <3>2. operations' = operations \/ operations' = Append(operations, op)
      BY <1>5 DEF TakeAnswer, Begun
    <3> HIDE DEF op
    <3>3. CASE operations' = operations
      BY <3>3 DEF QueueKept, AttemptInv
    <3>4. CASE operations' = Append(operations, op)
      BY <3>1, <3>4, AppendedOther DEF AttemptInv, Typed
    <3> QED
      BY <3>2, <3>3, <3>4
  <2> QED
    BY <1>3, <2>1, <2>2, <2>3, <2>4, IdleTyped
<1> QED
  BY <1>2, <1>4, <1>5

(* The server stores one attempt, and answers what became of it. *)
LEMMA ServerAttempts ==
  ASSUME AttemptInv, NEW a \in requests, HandleSubmission(a) \/ Vanish(a)
  PROVE  AttemptInv'
<1>1. Typed' /\ a \in Attempts /\ a \in Known /\ a.key # 0 /\ a # Nothing
  <2>1. Typed' /\ a \in Attempts /\ a \in Known
    BY ServerTyped, KnownHolds DEF AttemptInv, Typed
  <2> QED
    BY <2>1, NothingAssumption DEF AttemptInv, Numbers, Numbered
<1>2. /\ UNCHANGED <<keys, lapsed, attempt, volatile, operations>>
      /\ requests' \subseteq requests
  BY DEF HandleSubmission, Vanish, storeVars
<1>3. PICK answer \in Answers :
        /\ Answer(a, answer)
        /\ answer = "receipt" => submission' = a
        /\ answer = "duplicate" => submission # Nothing /\ submission.key # a.key
                                   /\ submission' = submission
  <2>1. CASE Answer(a, Verdict(a)) /\ submission' = IF Verdict(a) = "receipt" THEN a ELSE submission
    <3>1. Verdict(a) \in Answers
      BY VerdictTyped DEF Answers
    <3>2. Verdict(a) = "duplicate" => submission # Nothing /\ submission.key # a.key
      BY DEF Verdict
    <3> QED
      BY <2>1, <3>1, <3>2
  <2>2. CASE Answer(a, "closed") \/ Answer(a, "expired") \/ Answer(a, "lost")
    BY <2>2 DEF Answers
  <2> QED
    BY <2>1, <2>2 DEF HandleSubmission, Vanish
<1>4. \/ submission' = submission
      \/ /\ submission = Nothing
         /\ submission' = a
  <2>1. CASE submission' = a /\ Verdict(a) = "receipt" /\ submission # Nothing
    <3>1. submission.key = a.key
      BY <2>1 DEF Verdict
    <3>2. submission \in Known
      BY <1>1, <2>1, <3>1, KnownHolds DEF AttemptInv
    <3> QED
      BY <1>1, <2>1, <3>1, <3>2 DEF AttemptInv, Numbers, Unique
  <2> QED
    BY <2>1 DEF HandleSubmission, Vanish
<1>5. \A k \in Submitters :
        /\ submits'[k].print = submits[k].print /\ submits'[k].attempt = submits[k].attempt
        /\ \/ submits'[k] = submits[k]
           \/ /\ submits[k].step = "sent" /\ submits[k].attempt = a
              /\ submits'[k].step = "answered" /\ submits'[k].answer = answer
  BY <1>1, <1>3, AnswerColumns DEF AttemptInv, Typed
<1>6. Known' \subseteq Known
  <2>1. Stored' \subseteq Stored \cup {a}
    BY <1>4 DEF Stored
  <2>2. {submits'[k].attempt : k \in Submitters} = {submits[k].attempt : k \in Submitters}
    BY <1>5
  <2> QED
    BY <1>1, <1>2, <2>1, <2>2 DEF Known
<1>7. Numbers'
  BY <1>2, <1>6, SameStore
<1>8. AllCarried'
  <2> SUFFICES ASSUME NEW k \in Submitters PROVE Carried(submits[k])'
    BY DEF AllCarried
  <2>1. Carried(submits[k])
    BY DEF AttemptInv, Slots, AllCarried
  <2>2. CASE submits'[k] = submits[k]
    BY <1>4, <2>1, <2>2 DEF Carried, Carries
  <2>3. CASE /\ submits[k].step = "sent" /\ submits[k].attempt = a
             /\ submits'[k].step = "answered" /\ submits'[k].answer = answer
    BY <1>1, <1>3, <1>5, <2>1, <2>3 DEF Carried, Carries
  <2> QED
    BY <1>5, <2>2, <2>3
<1>9. Slots'
  BY <1>2, <1>5, <1>6, <1>8, SlotsConcluded
<1> QED
  BY <1>1, <1>2, <1>7, <1>9 DEF AttemptInv

LEMMA ElsewhereAttempts ==
  ASSUME AttemptInv, Elsewhere
  PROVE  AttemptInv'
<1>1. Typed'
  BY ElsewhereTyped DEF AttemptInv
<1>2. UNCHANGED <<keys, lapsed, attempt, volatile, operations, requests, submits>>
  BY DEF Elsewhere, storeVars
<1>3. /\ \/ submission' = submission
         \/ submission = Nothing
      /\ Stored' \subseteq Stored
  BY ElsewhereTyped DEF AttemptInv, Stored
<1>4. Known' \subseteq Known
  BY <1>2, <1>3 DEF Known
<1>5. Numbers'
  BY <1>2, <1>4, SameStore
<1>6. Slots'
  BY <1>2, <1>3, <1>4, SameSlots
<1> QED
  BY <1>1, <1>2, <1>5, <1>6 DEF AttemptInv

(* The pages that prepare one print move together. *)
LEMMA MoveSlots ==
  ASSUME AttemptInv, NEW p, NEW step \in {"prepare", "keep", "sent", "answered"},
         NEW a \in Attempts \cup {Nothing}, Move(p, step, a),
         lapsed \subseteq lapsed', submission' = submission,
         \A b \in Known' : b \in Known \/ b.print = p,
         \A q \in ReadFor(operations') : q \in ReadFor(operations) /\ q # p,
         \A q \in KeptFor(operations') : IF q = p THEN step = "keep" ELSE q \in KeptFor(operations),
         step = "keep" => \E k \in Submitters : Preparing(k, p),
         step = "prepare" => \A b \in Known' : b.print = p => b.key \in lapsed',
         step = "sent" => a \in Attempts /\ a.print = p
  PROVE  Slots'
<1>1. \A k \in Submitters :
        /\ submits'[k].print = submits[k].print /\ submits'[k].answer = submits[k].answer
        /\ Preparing(k, p) => submits'[k].step = step /\ submits'[k].attempt = a
        /\ ~Preparing(k, p) => submits'[k] = submits[k]
  BY MoveColumns DEF AttemptInv, Typed, Steps
<1>2. Fresh'
  <2> SUFFICES ASSUME NEW k \in Submitters, submits'[k].step = "prepare",
                      NEW b \in Known', b.print = submits'[k].print
               PROVE  b.key \in lapsed'
    BY DEF Fresh
  <2>1. CASE Preparing(k, p)
    BY <1>1, <2>1 DEF Preparing
  <2>2. CASE ~Preparing(k, p)
    <3>1. submits'[k] = submits[k] /\ submits[k].print # p
      BY <1>1, <2>2 DEF Preparing
    <3> QED
      BY <3>1 DEF AttemptInv, Slots, Fresh
  <2> QED
    BY <2>1, <2>2
<1>3. Awaited'
  <2>1. ASSUME NEW q \in ReadFor(operations')
        PROVE  \E k \in Submitters : submits'[k].step = "read" /\ submits'[k].print = q
    <3>1. PICK k \in Submitters : submits[k].step = "read" /\ submits[k].print = q
      BY <2>1 DEF AttemptInv, Slots, Awaited
    <3> QED
      BY <1>1, <2>1, <3>1 DEF Preparing
  <2>2. ASSUME NEW q \in KeptFor(operations')
        PROVE  \E k \in Submitters : submits'[k].step = "keep" /\ submits'[k].print = q
    <3>1. CASE q = p
      <4>1. PICK k \in Submitters : Preparing(k, p)
        BY <2>2, <3>1
      <4> QED
        BY <1>1, <2>2, <3>1, <4>1 DEF Preparing
    <3>2. CASE q # p
      <4>1. PICK k \in Submitters : submits[k].step = "keep" /\ submits[k].print = q
        BY <2>2, <3>2 DEF AttemptInv, Slots, Awaited
      <4> QED
        BY <1>1, <3>2, <4>1 DEF Preparing
    <3> QED
      BY <3>1, <3>2
  <2> QED
    BY <2>1, <2>2 DEF Awaited
<1>4. Together'
  BY <1>1 DEF AttemptInv, Slots, Together, Preparing
<1>5. AllCarried'
  <2> SUFFICES ASSUME NEW k \in Submitters PROVE Carried(submits[k])'
    BY DEF AllCarried
  <2>1. Carried(submits[k])
    BY DEF AttemptInv, Slots, AllCarried
  <2>2. CASE Preparing(k, p)
    <3>1. submits[k].step \notin {"idle", "answered"} /\ submits[k].print = p
      BY <2>2 DEF Preparing
    <3>2. submits'[k].answer = Nothing /\ p \in Fingerprints
      BY <1>1, <2>1, <3>1 DEF Carried, Carries
    <3> QED
      BY <1>1, <2>2, <3>1, <3>2, NothingAssumption DEF Carried, Carries
  <2>3. CASE ~Preparing(k, p)
    BY <1>1, <2>1, <2>3 DEF Carried, Carries
  <2> QED
    BY <2>2, <2>3
<1> QED
  BY <1>2, <1>3, <1>4, <1>5 DEF Slots

(* Only one step of the preparation of a print is under way. *)
LEMMA OneStep ==
  ASSUME AttemptInv, NEW k \in Submitters, NEW p, submits[k].print = p
  PROVE  /\ submits[k].step = "prepare" => p \notin ReadFor(operations) /\ p \notin KeptFor(operations)
         /\ p \in ReadFor(operations) => p \notin KeptFor(operations)
BY DEF AttemptInv, Slots, Awaited, Together, Preparing

LEMMA SubmitAttempts ==
  ASSUME AttemptInv, Submit
  PROVE  AttemptInv'
<1> DEFINE p == Fingerprint
           left == submits["left"]
           first == [Idle EXCEPT !.step = "read", !.print = p]
<1>1. p \in Fingerprints
  BY PageColumns DEF Fingerprint, AttemptInv, Typed
<1>2. Typed'
  BY SubmitTyped DEF AttemptInv
<1>3. UNCHANGED <<keys, lapsed, attempt, volatile, requests, submission>>
  BY DEF Submit, storeVars, submissionVars
<1>4. submits["page"] = Idle /\ submits'["left"] = left
  BY DEF Submit, AttemptInv, Typed, Submitters
<1>5. Carried(left) /\ left.step \in Steps
  BY SubmitColumns DEF AttemptInv, Slots, AllCarried, Typed, Submitters
<1>6. CASE Preparing("left", p)
  <2>1. submits'["page"] = left /\ operations' = operations
    BY <1>6 DEF Submit, AttemptInv, Typed, Submitters
  <2>2. Known' \subseteq Known
    BY <1>3, <1>4, <2>1 DEF Known, Stored, Submitters
  <2>3. Numbers'
    BY <1>3, <2>1, <2>2, SameStore
  <2>4. Fresh' /\ Awaited'
    BY <1>3, <1>4, <2>1, <2>2, IdleTyped DEF AttemptInv, Slots, Fresh, Awaited, Submitters
  <2>5. Together'
    BY <1>4, <2>1 DEF Together, Preparing, Submitters
  <2>6. AllCarried'
    BY <1>3, <1>4, <1>5, <2>1 DEF AllCarried, Carried, Carries, Submitters
  <2> QED
    BY <1>2, <2>1, <2>3, <2>4, <2>5, <2>6 DEF AttemptInv, Slots
<1>7. CASE ~Preparing("left", p)
  <2> DEFINE op == Operation("read", p)
  <2>1. submits'["page"] = first /\ operations' = Append(operations, op)
    BY <1>7 DEF Submit, Begun, AttemptInv, Typed, Submitters
  <2>2. /\ first \in Submits /\ first.step = "read" /\ first.print = p
        /\ first.answer = Nothing /\ first.attempt = Nothing
    BY <1>1, FirstColumns
  <2>3. op \in Operations /\ op.kind = "read" /\ op.value = p
    BY <1>1, OperationsMade DEF Operation
  <2> HIDE DEF op, first, p
  <2>4. p \notin ReadFor(operations)
    BY <1>4, <1>7, IdleTyped DEF AttemptInv, Slots, Awaited, Preparing, Submitters
  <2>5. \A i \in 1 .. Len(operations) : Follows(operations[i], op)
    BY <2>3, <2>4 DEF Follows, ReadFor, AwaitedKeep
  <2> DEFINE new == Append(operations, op)
  <2>6. /\ Lined(new)
        /\ Attempted(new) = Attempted(operations) \cup {a \in Attempts : op.kind = "keep" /\ a = op.value}
        /\ ReadFor(new) \subseteq ReadFor(operations) \cup (IF AwaitedRead(op) THEN {op.value} ELSE {})
        /\ KeptFor(new) \subseteq KeptFor(operations) \cup (IF AwaitedKeep(op) THEN {op.value.print} ELSE {})
    BY <2>3, <2>5, AppendLined DEF AttemptInv, Typed
  <2>7. operations' = new
    BY <2>1
  <2> HIDE DEF new
  <2>8. /\ Lined(operations') /\ Attempted(operations') = Attempted(operations)
        /\ ReadFor(operations') \subseteq ReadFor(operations) \cup {p}
        /\ KeptFor(operations') \subseteq KeptFor(operations)
    BY <2>3, <2>6, <2>7 DEF AwaitedRead, AwaitedKeep
  <2>9. Known' \subseteq Known
    BY <1>3, <1>4, <2>1, <2>2, <2>8 DEF Known, Stored, Submitters
  <2>10. Numbers'
    BY <1>3, <2>8, <2>9, SameStore
  <2>11. Fresh' /\ Awaited'
    BY <1>3, <1>4, <2>1, <2>2, <2>8, <2>9, IdleTyped
       DEF AttemptInv, Slots, Fresh, Awaited, Submitters
  <2>12. Together'
    <3>1. ~(left.step \in {"read", "prepare", "keep"} /\ left.print = p)
      BY <1>7 DEF Preparing
    <3>2. submits'["page"].print = p /\ submits'["left"] = left
      BY <1>4, <2>1, <2>2
    <3> HIDE DEF left
    <3> QED
      BY <3>1, <3>2 DEF Together, Preparing, Submitters
  <2>13. Carried(submits["page"])'
    BY <1>1, <2>1, <2>2, NothingAssumption DEF Carried, Carries
  <2>14. AllCarried'
    BY <1>3, <1>4, <1>5, <2>13 DEF AllCarried, Carried, Carries, Submitters
  <2> QED
    BY <1>2, <2>8, <2>10, <2>11, <2>12, <2>14 DEF AttemptInv, Slots
<1> QED
  BY <1>6, <1>7

(* A new attempt: the older ones of its contents have lapsed. *)
LEMMA BodyReadyAttempts ==
  ASSUME AttemptInv, NEW k \in Submitters, BodyReady(k)
  PROVE  AttemptInv'
<1> DEFINE p == submits[k].print
<1>1. Carried(submits[k]) /\ submits[k].step = "prepare" /\ p \in Fingerprints
  BY DEF AttemptInv, Slots, AllCarried, Carried, Carries, BodyReady
<1>2. Typed'
  BY <1>1, BodyReadyTyped DEF AttemptInv, Carried
<1>3. UNCHANGED <<lapsed, attempt, volatile, requests, submission>>
  BY DEF BodyReady, storeVars, submissionVars
<1>4. p \notin ReadFor(operations) /\ p \notin KeptFor(operations) /\ Preparing(k, p)
  BY <1>1, OneStep DEF Preparing
<1> DEFINE a == [key |-> keys + 1, print |-> p]
           op == Operation("keep", a)
<1>5. CASE keys' = keys + 1 /\ Move(a.print, "keep", a) /\ operations' = Append(operations, op)
  <2>1. a \in Attempts /\ a.key = keys + 1 /\ a.print = p /\ a # Nothing
    BY <1>1, NothingAssumption DEF AttemptInv, Typed, Attempts
  <2>2. op \in Operations /\ op.kind = "keep" /\ op.value = a
    BY <2>1, OperationsMade DEF Operation
  <2> HIDE DEF a, op, p
  <2>3. keys \in Nat /\ \A b \in Known : b \in Attempts /\ b.key \in 1 .. keys
    BY DEF AttemptInv, Numbers, Numbered, Typed
  <2>4. \A b \in Attempted(operations) : b \in Known
    BY KnownHolds DEF AttemptInv
  <2>5. \A i \in 1 .. Len(operations) : Follows(operations[i], op)
    <3> SUFFICES ASSUME NEW i \in 1 .. Len(operations) PROVE Follows(operations[i], op)
      OBVIOUS
    <3> DEFINE earlier == operations[i]
    <3>1. earlier \in Operations
      BY ElementOfSeq DEF AttemptInv, Typed
    <3>2. earlier.kind = "keep" => earlier.value \in Attempted(operations)
      BY <3>1, OperationColumns DEF Attempted
    <3>3. AwaitedRead(earlier) => earlier.value \in ReadFor(operations)
      BY DEF ReadFor
    <3>4. AwaitedKeep(earlier) => earlier.value.print \in KeptFor(operations)
      BY DEF KeptFor
    <3> HIDE DEF earlier
    <3>5. earlier.kind = "keep" => earlier.value.key < op.value.key
      BY <2>1, <2>2, <2>3, <2>4, <3>2
    <3>6. Follows(earlier, op)
      BY <1>4, <2>1, <2>2, <3>3, <3>4, <3>5 DEF Follows, AwaitedRead
    <3> QED
      BY <3>6 DEF earlier
  <2> DEFINE new == Append(operations, op)
  <2>6. /\ Lined(new)
        /\ Attempted(new) = Attempted(operations) \cup {b \in Attempts : op.kind = "keep" /\ b = op.value}
        /\ ReadFor(new) \subseteq ReadFor(operations) \cup (IF AwaitedRead(op) THEN {op.value} ELSE {})
        /\ KeptFor(new) \subseteq KeptFor(operations) \cup (IF AwaitedKeep(op) THEN {op.value.print} ELSE {})
    BY <2>2, <2>5, AppendLined DEF AttemptInv, Typed
  <2>7. operations' = new
    BY <1>5
  <2> HIDE DEF new
  <2>8. /\ Lined(operations') /\ Attempted(operations') = Attempted(operations) \cup {a}
        /\ ReadFor(operations') \subseteq ReadFor(operations)
        /\ KeptFor(operations') \subseteq KeptFor(operations) \cup {p}
    BY <2>1, <2>2, <2>6, <2>7 DEF AwaitedRead
  <2>9. Known' \subseteq Known \cup {a}
    <3>1. \A l \in Submitters : submits'[l].attempt \in {submits[l].attempt, a}
      BY <1>5, <2>1, MoveColumns DEF AttemptInv, Typed, Steps
    <3> QED
      BY <1>3, <2>8, <3>1 DEF Known, Stored
  <2>10. Numbered'
    BY <1>5, <2>1, <2>3, <2>9 DEF Numbered
  <2>11. Unique'
    BY <2>1, <2>3, <2>9 DEF AttemptInv, Numbers, Unique
  <2>12. Older'
    <3> SUFFICES ASSUME NEW b \in Known', NEW c \in Known', b.print = c.print, b.key < c.key
                 PROVE  b.key \in lapsed'
      BY DEF Older
    <3>1. b \in Known
      BY <2>1, <2>3, <2>9
    <3>2. CASE c \in Known
      BY <1>3, <3>1, <3>2 DEF AttemptInv, Numbers, Older
    <3>3. CASE c = a
      BY <1>1, <1>3, <2>1, <3>1, <3>3 DEF AttemptInv, Slots, Fresh, p
    <3> QED
      BY <2>9, <3>2, <3>3
  <2>13. Remembered'
    BY <1>3, <2>8, <2>9 DEF AttemptInv, Numbers, Remembered
  <2>14. Ahead'
    BY <1>3, <2>1, <2>3, <2>8, KnownHolds DEF AttemptInv, Numbers, Ahead
  <2>15. Slots'
    <3>1. Move(p, "keep", a)
      BY <1>5, <2>1
    <3> QED
      BY <1>3, <1>4, <2>1, <2>8, <2>9, <3>1, MoveSlots
  <2> QED
    BY <1>2, <2>8, <2>10, <2>11, <2>12, <2>13, <2>14, <2>15 DEF AttemptInv, Numbers
<1>6. CASE /\ UNCHANGED keys /\ Move(p, "answered", Nothing)
           /\ \/ UNCHANGED operations
              \/ operations' = Outdated(operations, Autosaves)
  <2>1. QueueKept
    BY <1>6, OutdatedKept DEF AttemptInv, Typed, QueueKept
  <2>2. \A l \in Submitters : submits'[l].attempt \in {submits[l].attempt, Nothing}
    BY <1>6, MoveColumns DEF AttemptInv, Typed, Steps
  <2>3. Known' \subseteq Known
    BY <1>3, <2>1, <2>2 DEF Known, Stored, QueueKept
  <2>4. Numbers'
    BY <1>3, <1>6, <2>1, <2>3, SameStore DEF QueueKept
  <2> HIDE DEF p
  <2>5. Slots'
    BY <1>3, <1>4, <1>6, <2>1, <2>3, MoveSlots DEF QueueKept
  <2> QED
    BY <1>2, <2>1, <2>4, <2>5 DEF AttemptInv, QueueKept
<1>7. \/ keys' = keys + 1 /\ Move(a.print, "keep", a) /\ operations' = Append(operations, op)
      \/ /\ UNCHANGED keys /\ Move(p, "answered", Nothing)
         /\ \/ UNCHANGED operations
            \/ operations' = Outdated(operations, Autosaves)
  <2>1. CASE keys' = keys + 1
    BY <2>1 DEF BodyReady, Begun, AttemptInv, Typed
  <2>2. CASE UNCHANGED keys
    <3>1. /\ Move(p, "answered", Nothing)
          /\ \/ UNCHANGED <<page, operations>>
             \/ \E form \in 0 .. MaxForm : Changed(form, page.agreed)
      BY <2>2 DEF BodyReady, AttemptInv, Typed
    <3> QED
      BY <2>2, <3>1 DEF Changed
  <2> QED
    BY <2>1, <2>2 DEF BodyReady
<1> QED
  BY <1>5, <1>6, <1>7

(* The store carries out the oldest operation. *)
LEMMA CarryOutAttempts ==
  ASSUME AttemptInv, NEW ok \in BOOLEAN, CarryOut(ok)
  PROVE  AttemptInv'
<1> DEFINE op == Head(operations)
<1>1. Typed'
  BY CarryOutTyped DEF AttemptInv
<1>2. /\ op \in Operations /\ operations' = Tail(operations) /\ operations # << >>
      /\ UNCHANGED <<keys, submission>>
  BY TailQueue DEF AttemptInv, Typed, CarryOut
<1>3. /\ Lined(operations')
      /\ Attempted(operations') \subseteq Attempted(operations)
      /\ Attempted(operations) \subseteq Attempted(operations')
            \cup {b \in Attempts : op.kind = "keep" /\ b = op.value}
      /\ op.kind = "keep" => op.value \in Attempted(operations)
      /\ op.kind = "keep" => \A b \in Attempted(operations') : op.value.key < b.key
      /\ ReadFor(operations') \subseteq ReadFor(operations)
      /\ KeptFor(operations') \subseteq KeptFor(operations)
      /\ AwaitedRead(op) => /\ op.value \in ReadFor(operations) /\ op.value \notin ReadFor(operations')
                            /\ \A b \in Attempted(operations') : b.print # op.value
      /\ AwaitedKeep(op) => /\ op.value.print \in KeptFor(operations)
                            /\ op.value.print \notin KeptFor(operations')
  BY <1>2, TailLined DEF AttemptInv, Typed
<1>4. Saves(op, ok) \/ Loads(op, ok) \/ Reads(op, ok) \/ Keeps(op, ok)
  BY DEF CarryOut
<1> HIDE DEF op
<1>5. op.kind # "keep" => Attempted(operations') = Attempted(operations)
  BY <1>3
<1>6. ASSUME Saves(op, ok) PROVE AttemptInv'
  <2>1. op.kind # "keep" /\ UNCHANGED <<volatile, submits, requests>>
    BY <1>6 DEF Saves, Autosaves
  <2>2. \/ UNCHANGED <<attempt, lapsed>>
        \/ attempt' = Nothing /\ Lapses(attempt)
    BY <1>6 DEF Saves
  <2>3. /\ lapsed \subseteq lapsed'
        /\ attempt' = attempt \/ attempt' = Nothing
        /\ attempt # Nothing => attempt' = attempt \/ attempt.key \in lapsed'
    BY <2>2, LapsesTyped DEF AttemptInv, Typed
  <2>4. Known' \subseteq Known
    BY <1>2, <1>5, <2>1, <2>3 DEF Known, Stored
  <2>5. Numbered' /\ Unique' /\ Older'
    BY <1>2, <2>3, <2>4, FewerKnown
  <2>6. Remembered'
    <3>1. \A b \in Known : b # Nothing
      BY DEF Known
    <3> QED
      BY <1>5, <2>1, <2>3, <2>4, <3>1 DEF AttemptInv, Numbers, Remembered
  <2>7. Ahead'
    BY <1>5, <2>1, <2>3 DEF AttemptInv, Numbers, Ahead
  <2>8. Slots'
    BY <1>2, <1>3, <2>1, <2>3, <2>4, SameSlots
  <2> QED
    BY <1>1, <1>3, <2>5, <2>6, <2>7, <2>8 DEF AttemptInv, Numbers
<1>7. ASSUME Loads(op, ok) PROVE AttemptInv'
  <2>1. op.kind # "keep" /\ UNCHANGED <<attempt, lapsed, volatile, submits, requests>>
    BY <1>7 DEF Loads, storeVars
  <2>2. Known' \subseteq Known
    BY <1>2, <1>5, <2>1 DEF Known, Stored
  <2>3. Numbers'
    BY <1>2, <1>5, <2>1, <2>2, SameStore
  <2>4. Slots'
    BY <1>2, <1>3, <2>1, <2>2, SameSlots
  <2> QED
    BY <1>1, <1>3, <2>3, <2>4 DEF AttemptInv
<1>8. ASSUME Reads(op, ok) PROVE AttemptInv'
  <2> DEFINE found == IF ok THEN attempt ELSE volatile
             p == op.value
  <2>1. op.kind # "keep" /\ UNCHANGED <<attempt, volatile>>
    BY <1>8 DEF Reads
  <2>2. /\ lapsed \subseteq lapsed'
        /\ ~ok /\ attempt # Nothing => attempt.key \in lapsed'
    BY <1>8, LapsesTyped DEF Reads, AttemptInv, Typed
  <2>3. \/ UNCHANGED <<submits, requests>>
        \/ /\ op.current
           /\ \/ Reusable(found, p) /\ Send(p, found)
              \/ ~Reusable(found, p) /\ Move(p, "prepare", Nothing) /\ UNCHANGED requests
    BY <1>8 DEF Reads
  <2>4. found \in Attempts \cup {Nothing} /\ (found # Nothing => found \in Known)
    BY KnownHolds DEF AttemptInv, Typed
  <2>5. ok => found = attempt
    OBVIOUS
  <2> HIDE DEF found
  <2>6. Known' \subseteq Known
    <3>1. CASE UNCHANGED <<submits, requests>>
      BY <1>2, <1>5, <2>1, <3>1 DEF Known, Stored
    <3>2. CASE Reusable(found, p) /\ Send(p, found)
      <4>1. found # Nothing /\ requests' = requests \cup {found} /\ Move(p, "sent", found)
        BY <3>2 DEF Reusable, Send
      <4>2. \A k \in Submitters : submits'[k].attempt \in {submits[k].attempt, found}
        BY <2>4, <4>1, MoveColumns DEF AttemptInv, Typed, Steps
      <4> QED
        BY <1>2, <1>5, <2>1, <2>4, <4>1, <4>2 DEF Known, Stored
    <3>3. CASE Move(p, "prepare", Nothing) /\ UNCHANGED requests
      <4>1. \A k \in Submitters : submits'[k].attempt \in {submits[k].attempt, Nothing}
        BY <3>3, MoveColumns DEF AttemptInv, Typed, Steps
      <4> QED
        BY <1>2, <1>5, <2>1, <3>3, <4>1 DEF Known, Stored
    <3> QED
      BY <2>3, <3>1, <3>2, <3>3
  <2>7. Numbered' /\ Unique' /\ Older'
    BY <1>2, <2>2, <2>6, FewerKnown
  <2>8. Remembered' /\ Ahead'
    BY <1>5, <2>1, <2>2, <2>6 DEF AttemptInv, Numbers, Remembered, Ahead
  <2>9. ASSUME op.current PROVE /\ AwaitedRead(op)
                                /\ p \in ReadFor(operations) /\ p \notin ReadFor(operations')
                                /\ p \notin KeptFor(operations')
                                /\ \A b \in Attempted(operations') : b.print # p
    <3>1. AwaitedRead(op)
      BY <1>2, <1>8, <2>9, OperationColumns DEF Reads, AwaitedRead
    <3>2. p \in ReadFor(operations)
      BY <1>3, <3>1
    <3>3. PICK k \in Submitters : submits[k].print = p
      BY <3>2 DEF AttemptInv, Slots, Awaited
    <3>4. p \notin KeptFor(operations)
      BY <3>2, <3>3, OneStep
    <3> QED
      BY <1>3, <3>1, <3>4
  <2>10. Slots'
    <3>1. CASE UNCHANGED <<submits, requests>>
      BY <1>2, <1>3, <2>2, <2>6, <3>1, SameSlots
    <3>2. CASE op.current /\ Reusable(found, p) /\ Send(p, found)
      <4>1. Move(p, "sent", found) /\ found \in Attempts /\ found.print = p
        BY <2>4, <3>2 DEF Reusable, Send
      <4> HIDE DEF p
      <4> QED
        BY <1>2, <1>3, <2>2, <2>6, <2>9, <3>2, <4>1, MoveSlots
    <3>3. CASE op.current /\ ~Reusable(found, p) /\ Move(p, "prepare", Nothing)
      <4>1. ASSUME NEW b \in Known', b.print = p PROVE b.key \in lapsed'
        <5>1. b \in Known /\ b # Nothing
          BY <2>6 DEF Known
        <5>2. b \notin Attempted(operations')
          BY <2>9, <3>3, <4>1
        <5>3. CASE b = attempt /\ ok
          BY <2>5, <3>3, <4>1, <5>1, <5>3 DEF Reusable
        <5>4. CASE b = attempt /\ ~ok
          BY <2>2, <5>1, <5>4
        <5> QED
          BY <1>5, <2>1, <2>2, <5>1, <5>2, <5>3, <5>4 DEF AttemptInv, Numbers, Remembered
      <4>2. Move(p, "prepare", Nothing) /\ Nothing \in Attempts \cup {Nothing}
        BY <3>3
      <4>3. /\ \A q \in ReadFor(operations') : q \in ReadFor(operations) /\ q # p
            /\ \A q \in KeptFor(operations') : q \in KeptFor(operations) /\ q # p
        BY <1>3, <2>9, <3>3
      <4> HIDE DEF p
      <4> QED
        BY <1>2, <2>2, <2>6, <4>1, <4>2, <4>3, MoveSlots
    <3> QED
      BY <2>3, <3>1, <3>2, <3>3
  <2> QED
    BY <1>1, <1>3, <2>7, <2>8, <2>10 DEF AttemptInv, Numbers
<1>9. ASSUME Keeps(op, ok) PROVE AttemptInv'
  <2> DEFINE v == op.value
             p == op.value.print
  <2>1. op.kind = "keep" /\ v \in Attempts /\ v \in Known /\ v # Nothing
    BY <1>2, <1>3, <1>9, OperationColumns, KnownHolds, NothingAssumption DEF Keeps, AttemptInv
  <2>2. \/ /\ attempt' = v
           /\ IF attempt # Nothing /\ attempt.print # p THEN Lapses(attempt) ELSE UNCHANGED lapsed
        \/ UNCHANGED attempt /\ Lapses(v)
    BY <1>9 DEF Keeps
  <2>3. \/ /\ UNCHANGED <<submits, requests, volatile>>
        \/ op.current /\ Send(p, v) /\ volatile' = v
    BY <1>9 DEF Keeps
  <2>4. lapsed \subseteq lapsed'
    BY <2>1, <2>2, LapsesTyped DEF AttemptInv, Typed
  <2> HIDE DEF v
  <2>5. Known' \subseteq Known
    <3>1. attempt' \in {attempt, v}
      BY <2>2
    <3>2. CASE UNCHANGED <<submits, requests, volatile>>
      BY <1>2, <1>3, <2>1, <3>1, <3>2 DEF Known, Stored
    <3>3. CASE Send(p, v) /\ volatile' = v
      <4>1. Move(p, "sent", v) /\ requests' = requests \cup {v}
        BY <3>3 DEF Send
      <4>2. \A k \in Submitters : submits'[k].attempt \in {submits[k].attempt, v}
        BY <2>1, <4>1, MoveColumns DEF AttemptInv, Typed, Steps
      <4> QED
        BY <1>2, <1>3, <2>1, <3>1, <3>3, <4>1, <4>2 DEF Known, Stored
    <3> QED
      BY <2>3, <3>2, <3>3
  <2>6. Numbered' /\ Unique' /\ Older'
    BY <1>2, <2>4, <2>5, FewerKnown
  <2>7. Attempted(operations) \subseteq Attempted(operations') \cup {v}
    BY <1>3 DEF v
  <2>8. Remembered'
    <3> SUFFICES ASSUME NEW b \in Known, b.key \notin lapsed'
                 PROVE  b = attempt' \/ b \in Attempted(operations')
      BY <2>5 DEF Remembered
    <3>1. b # Nothing /\ (b = attempt \/ b \in Attempted(operations')\/ b = v)
      BY <2>4, <2>7 DEF AttemptInv, Numbers, Remembered, Known
    <3>2. CASE attempt' = v
      <4>1. ASSUME b = attempt, b # v PROVE FALSE
        <5>1. attempt.print = p
          BY <2>1, <2>2, <3>1, <3>2, <4>1, LapsesTyped DEF AttemptInv, Typed
        <5>2. attempt.key < v.key
          BY <1>3, <2>1, <3>1, <4>1 DEF AttemptInv, Numbers, Ahead, v
        <5>3. attempt.key \in lapsed
          BY <2>1, <4>1, <5>1, <5>2 DEF AttemptInv, Numbers, Older, v
        <5> QED
          BY <2>4, <4>1, <5>3
      <4> QED
        BY <3>1, <3>2, <4>1
    <3>3. CASE UNCHANGED attempt /\ Lapses(v)
      BY <2>1, <3>1, <3>3, LapsesTyped DEF AttemptInv, Typed
    <3> QED
      BY <2>2, <3>2, <3>3
  <2>9. Ahead'
    <3>1. CASE attempt' = v
      BY <1>3, <2>1, <3>1 DEF Ahead, v
    <3>2. CASE UNCHANGED attempt
      BY <1>3, <3>2 DEF AttemptInv, Numbers, Ahead
    <3> QED
      BY <2>2, <3>1, <3>2
  <2>10. Slots'
    <3>1. CASE UNCHANGED <<submits, requests, volatile>>
      BY <1>2, <1>3, <2>4, <2>5, <3>1, SameSlots
    <3>2. CASE op.current /\ Send(p, v)
      <4>1. AwaitedKeep(op) /\ Move(p, "sent", v) /\ v.print = p
        BY <1>2, <2>1, <3>2, OperationColumns DEF AwaitedKeep, Send, v
      <4>2. p \in KeptFor(operations) /\ p \notin KeptFor(operations')
        BY <1>3, <4>1
      <4>3. PICK k \in Submitters : submits[k].print = p
        BY <4>2 DEF AttemptInv, Slots, Awaited
      <4>4. p \notin ReadFor(operations)
        BY <4>2, <4>3, OneStep
      <4> HIDE DEF p
      <4> QED
        BY <1>2, <1>3, <2>1, <2>4, <2>5, <4>1, <4>2, <4>4, MoveSlots
    <3> QED
      BY <2>3, <3>1, <3>2
  <2> QED
    BY <1>1, <1>3, <2>6, <2>8, <2>9, <2>10 DEF AttemptInv, Numbers
<1> QED
  BY <1>4, <1>6, <1>7, <1>8, <1>9

LEMMA AttemptsBegin ==
  ASSUME ApplicationInit
  PROVE  AttemptInv
<1>1. Typed
  BY NoPageTyped, IdleTyped DEF ApplicationInit, Typed
<1>2. operations = << >> /\ Len(operations) = 0
  BY DEF ApplicationInit
<1>3. /\ Lined(operations) /\ Attempted(operations) = {}
      /\ ReadFor(operations) = {} /\ KeptFor(operations) = {}
  BY <1>2 DEF Lined, Attempted, ReadFor, KeptFor
<1>4. \A k \in Submitters : submits[k] = Idle
  BY DEF ApplicationInit
<1>5. Known = {}
  BY <1>3, <1>4, IdleTyped DEF ApplicationInit, Known, Stored
<1>6. Numbers
  BY <1>3, <1>5 DEF Numbers, Numbered, Unique, Older, Remembered, Ahead
<1>7. Slots
  BY <1>3, <1>4, <1>5, IdleTyped, NothingAssumption
     DEF Slots, Fresh, Awaited, Together, Preparing, AllCarried, Carried, Carries
<1> QED
  BY <1>1, <1>3, <1>6, <1>7 DEF AttemptInv

LEMMA AttemptsStep ==
  ASSUME AttemptInv, [ApplicationNext]_applicationVars
  PROVE  AttemptInv'
<1>1. CASE UNCHANGED applicationVars
  <2>1. UNCHANGED Known
    BY <1>1 DEF applicationVars, Known, Stored
  <2> QED
    BY <1>1, <2>1 DEF applicationVars, AttemptInv, Typed, Numbers, Numbered, Unique, Older,
         Remembered, Ahead, Slots, Fresh, Awaited, Together, Preparing, AllCarried, Carried, Carries
<1>2. CASE \E ok \in BOOLEAN : CarryOut(ok)
  BY <1>2, CarryOutAttempts
<1>3. CASE \E k \in Submitters : BodyReady(k) \/ LoseAnswer(k) \/ TakeAnswer(k)
  BY <1>3, BodyReadyAttempts, AnswersAttempts
<1>4. CASE \E a \in requests : HandleSubmission(a) \/ Vanish(a)
  BY <1>4, ServerAttempts
<1> QED
  BY <1>1, <1>2, <1>3, <1>4, PageAttempts, LeaveAttempts, SubmitAttempts, ElsewhereAttempts
     DEF ApplicationNext

LEMMA AttemptsHold == ApplicationSpec => []AttemptInv
<1>1. ApplicationInit => AttemptInv
  BY AttemptsBegin
<1>2. AttemptInv /\ [ApplicationNext]_applicationVars => AttemptInv'
  BY AttemptsStep
<1> QED
  BY <1>1, <1>2, PTL DEF ApplicationSpec

(* A receipt is for what the page was asked to send: the server has stored *)
(* contents of that print, for any number of keys, lost answers, reloads   *)
(* and failures of the store (submission-v1.ts,                            *)
(* IdempotentSubmissionService.submit).                                    *)
THEOREM ReceiptsMatch == ApplicationSpec => []ReceiptMatches
<1>1. AttemptInv => ReceiptMatches
  <2> SUFFICES ASSUME AttemptInv, NEW k \in Submitters, submits[k] = Concluded(k, "receipt")
               PROVE  submission.print = submits[k].print
    BY DEF ReceiptMatches
  <2>1. submits[k].answer = "receipt"
    <3>1. submits[k] \in Submits /\ "receipt" \in Answers
      BY DEF AttemptInv, Typed, Answers
    <3>2. Concluded(k, "receipt").answer = "receipt"
      BY <3>1, SubmitConcluded DEF Concluded
    <3> QED
      BY <3>2
  <2> QED
    BY <2>1 DEF AttemptInv, Slots, AllCarried, Carried
<1> QED
  BY <1>1, AttemptsHold, PTL

(* Who is told of a duplicate did send other contents, or has an attempt   *)
(* the store could no longer give back: the same contents of one posting   *)
(* get one key (submission-v1.ts, public-application-draft-store.ts).      *)
THEOREM DuplicatesAreOther == ApplicationSpec => []DuplicateMeansOther
<1>1. AttemptInv => DuplicateMeansOther
  <2> SUFFICES ASSUME AttemptInv, NEW k \in Submitters, submits[k] = Concluded(k, "duplicate"),
                      submission.key # 0, submission.print = submits[k].print
               PROVE  {submission.key, submits[k].attempt.key} \cap lapsed # {}
    BY DEF DuplicateMeansOther
  <2>1. submits[k].answer = "duplicate"
    <3>1. submits[k] \in Submits /\ "duplicate" \in Answers
      BY DEF AttemptInv, Typed, Answers
    <3>2. Concluded(k, "duplicate").answer = "duplicate"
      BY <3>1, SubmitConcluded DEF Concluded
    <3> QED
      BY <3>2
  <2> DEFINE a == submits[k].attempt
  <2>2. /\ a \in Attempts /\ a.print = submission.print
        /\ submission # Nothing /\ submission.key # a.key
    BY <2>1 DEF AttemptInv, Slots, AllCarried, Carried
  <2>3. a \in Known /\ submission \in Known
    BY <2>2, KnownHolds, NothingAssumption DEF AttemptInv
  <2>4. a.key \in Nat /\ submission.key \in Nat
    BY <2>3 DEF AttemptInv, Numbers, Numbered
  <2>5. a.key < submission.key \/ submission.key < a.key
    BY <2>2, <2>4
  <2> HIDE DEF a
  <2>6. a.key \in lapsed \/ submission.key \in lapsed
    BY <2>2, <2>3, <2>5 DEF AttemptInv, Numbers, Older
  <2> QED
    BY <2>6 DEF a
<1> QED
  BY <1>1, AttemptsHold, PTL

-----------------------------------------------------------------------------
(* What the page says of its draft.                                        *)

Waits(op) == op.kind = "load" /\ op.current = TRUE
Writes(op) == op.kind \in Autosaves

(* A load the page waits for comes after every write of the draft and is   *)
(* the only one; writes outdated by an edit come before the later ones.    *)
Behind(op, later) ==
  /\ Waits(op) => ~Writes(later) /\ ~Waits(later)
  /\ Writes(op) /\ op.current = TRUE /\ Writes(later) => later.current = TRUE

Sorted(ops) == \A i, j \in 1 .. Len(ops) : i < j => Behind(ops[i], ops[j])
Queue(ops) == {ops[i] : i \in 1 .. Len(ops)}

(* A stored value is the form shown, none being the empty form. *)
Shows(value, form) == IF value = Nothing THEN form = 0 ELSE value = form

Fitting(p, op) ==
  /\ Waits(op) => p.mode = "restoring"
  /\ Writes(op) /\ op.current = TRUE => /\ p.mode \in {"open", "submitted"}
                                        /\ Shows(op.value, p.form)

(* What is shown as saved is saved, and nothing under way changes it. *)
Settled(p, stored, queue) ==
  p.mode = "open" /\ p.status \in {"SAVED", "IDLE"}
  => Shows(stored, p.form) /\ \A op \in queue : Writes(op) => op.current = TRUE

(* Only a form that can be edited is saved or submitted. *)
Editable(p, slot) ==
  /\ p.timer = TRUE => p.mode \in {"open", "submitted"}
  /\ p.mode # "open" => slot = Idle

Ours == submission # Nothing /\ submission.key # 0

DraftFits ==
  /\ Sorted(operations)
  /\ \A op \in Queue(operations) : Fitting(page, op)
  /\ Settled(page, draft, Queue(operations))
  /\ Editable(page, submits["page"])

DraftInv == Ours \/ DraftFits

LEMMA OutdatedSorted ==
  ASSUME NEW ops \in Seq(Operations), NEW kinds, Autosaves \subseteq kinds
  PROVE  LET new == Outdated(ops, kinds)
         IN  /\ Sorted(ops) => Sorted(new)
             /\ \A op \in Queue(new) : /\ Writes(op) => op.current = FALSE
                                       /\ Waits(op) => op \in Queue(ops) /\ "load" \notin kinds
<1> DEFINE new == Outdated(ops, kinds)
<1>1. /\ new \in Seq(Operations) /\ Len(new) = Len(ops)
      /\ \A i \in 1 .. Len(ops) :
           /\ new[i] \in Operations
           /\ new[i].kind = ops[i].kind /\ new[i].value = ops[i].value
           /\ new[i].current = TRUE => ops[i].current = TRUE
           /\ ops[i].kind \in kinds => new[i].current = FALSE
           /\ ops[i].kind \notin kinds => new[i] = ops[i]
  BY OutdatedQueue
<1> HIDE DEF new
<1>2. ASSUME NEW i \in 1 .. Len(ops)
      PROVE  /\ Writes(new[i]) <=> Writes(ops[i])
             /\ Writes(new[i]) => new[i].current = FALSE
             /\ Waits(new[i]) => Waits(ops[i]) /\ new[i] = ops[i] /\ "load" \notin kinds
  BY <1>1 DEF Writes, Waits
<1>3. Sorted(ops) => Sorted(new)
  <2> SUFFICES ASSUME Sorted(ops), NEW i \in 1 .. Len(ops), NEW j \in 1 .. Len(ops), i < j
               PROVE  Behind(new[i], new[j])
    BY <1>1 DEF Sorted
  <2>1. Behind(ops[i], ops[j])
    BY DEF Sorted
  <2> QED
    BY <1>2, <2>1 DEF Behind
<1>4. \A op \in Queue(new) : /\ Writes(op) => op.current = FALSE
                             /\ Waits(op) => op \in Queue(ops) /\ "load" \notin kinds
  <2> SUFFICES ASSUME NEW op \in Queue(new)
               PROVE  /\ Writes(op) => op.current = FALSE
                      /\ Waits(op) => op \in Queue(ops) /\ "load" \notin kinds
    OBVIOUS
  <2>1. PICK i \in 1 .. Len(ops) : op = new[i]
    BY <1>1 DEF Queue
  <2>2. ops[i] \in Queue(ops)
    BY DEF Queue
  <2> QED
    BY <1>2, <2>1, <2>2
<1> QED
  BY <1>3, <1>4 DEF new

LEMMA AppendSorted ==
  ASSUME NEW ops \in Seq(Operations), NEW op \in Operations
  PROVE  LET new == Append(ops, op)
         IN  /\ Sorted(ops) /\ (\A before \in Queue(ops) : Behind(before, op)) => Sorted(new)
             /\ Queue(new) = Queue(ops) \cup {op}
<1> DEFINE new == Append(ops, op)
           n == Len(ops)
<1>1. /\ n \in Nat /\ Len(new) = n + 1
      /\ \A i \in 1 .. n : new[i] = ops[i]
      /\ new[n + 1] = op
  BY AppendQueue
<1> HIDE DEF new
<1>2. \A i \in 1 .. n + 1 : i \in 1 .. n \/ i = n + 1
  BY <1>1
<1>3. 1 .. n \subseteq 1 .. n + 1 /\ n + 1 \in 1 .. n + 1
  BY <1>1
<1>4. ASSUME Sorted(ops), \A before \in Queue(ops) : Behind(before, op)
      PROVE  Sorted(new)
  <2> SUFFICES ASSUME NEW i \in 1 .. n + 1, NEW j \in 1 .. n + 1, i < j
               PROVE  Behind(new[i], new[j])
    BY <1>1 DEF Sorted
  <2>1. i \in 1 .. n
    BY <1>1
  <2>2. CASE j \in 1 .. n
    BY <1>1, <1>4, <2>1, <2>2 DEF Sorted
  <2>3. CASE j = n + 1
    BY <1>1, <1>4, <2>1, <2>3 DEF Queue
  <2> QED
    BY <1>2, <2>2, <2>3
<1> HIDE DEF n
<1>5. Queue(new) = Queue(ops) \cup {op}
  BY <1>1, <1>2, <1>3 DEF Queue, n
<1> QED
  BY <1>4, <1>5 DEF new

LEMMA TailSorted ==
  ASSUME NEW ops \in Seq(Operations), ops # << >>, Sorted(ops)
  PROVE  /\ Head(ops) \in Queue(ops) /\ Sorted(Tail(ops)) /\ Queue(Tail(ops)) \subseteq Queue(ops)
         /\ \A later \in Queue(Tail(ops)) : Behind(Head(ops), later)
<1> DEFINE new == Tail(ops)
           op == Head(ops)
           n == Len(ops)
<1>1. /\ op = ops[1] /\ n \in Nat \ {0} /\ Len(new) = n - 1
      /\ \A i \in 1 .. n - 1 : new[i] = ops[i + 1]
  BY TailQueue
<1>2. 1 \in 1 .. n /\ \A i \in 1 .. n - 1 : i + 1 \in 1 .. n /\ 1 < i + 1
  BY <1>1
<1> HIDE DEF new, op
<1>3. Sorted(new)
  <2> SUFFICES ASSUME NEW i \in 1 .. n - 1, NEW j \in 1 .. n - 1, i < j
               PROVE  Behind(new[i], new[j])
    BY <1>1 DEF Sorted
  <2>1. i + 1 < j + 1
    BY <1>1
  <2> QED
    BY <1>1, <1>2, <2>1 DEF Sorted
<1> HIDE DEF n
<1>4. op \in Queue(ops) /\ Queue(new) \subseteq Queue(ops)
  BY <1>1, <1>2 DEF Queue, n
<1>5. \A later \in Queue(new) : Behind(op, later)
  BY <1>1, <1>2 DEF Queue, Sorted, n
<1> QED
  BY <1>3, <1>4, <1>5 DEF new, op

(* What the server has stored stays. *)
LEMMA OursStays ==
  ASSUME AttemptInv, [ApplicationNext]_applicationVars, Ours
  PROVE  Ours'
<1>1. ASSUME NEW a \in requests, HandleSubmission(a) \/ Vanish(a)
      PROVE  Ours'
  <2>1. a \in Known /\ a # Nothing
    BY KnownHolds DEF AttemptInv, Known
  <2>2. a.key # 0
    BY <2>1 DEF AttemptInv, Numbers, Numbered
  <2>3. submission' = submission \/ submission' = a
    BY <1>1 DEF HandleSubmission, Vanish
  <2> QED
    BY <2>1, <2>2, <2>3 DEF Ours
<1>2. ASSUME Elsewhere PROVE Ours'
  BY <1>2 DEF Elsewhere, Ours
<1>3. ASSUME UNCHANGED submission PROVE Ours'
  BY <1>3 DEF Ours
<1> QED
  BY <1>1, <1>2, <1>3
     DEF ApplicationNext, applicationVars, Open, Autosave, Leave, Unload, Submit, StopAutosave,
         EditForm, CarryOut, BodyReady, LoseAnswer, TakeAnswer, allButPage, submissionVars

(* The page, its draft and its submission: only others change. *)
LEMMA DraftUntouched ==
  ASSUME DraftFits, UNCHANGED <<page, draft>>, Sorted(operations'),
         \A op \in Queue(operations') : op \in Queue(operations) \/ (~Waits(op) /\ ~Writes(op)),
         page.mode # "open" => submits'["page"] = Idle
  PROVE  DraftFits'
BY DEF DraftFits, Fitting, Settled, Editable

LEMMA QueueGrows ==
  ASSUME Typed, DraftFits, NEW op \in Operations, ~Waits(op), ~Writes(op),
         operations' = Append(operations, op)
  PROVE  /\ Sorted(operations')
         /\ \A o \in Queue(operations') : o \in Queue(operations) \/ (~Waits(o) /\ ~Writes(o))
<1>1. \A before \in Queue(operations) : Behind(before, op)
  BY DEF Behind
<1>2. Sorted(Append(operations, op)) /\ Queue(Append(operations, op)) = Queue(operations) \cup {op}
  BY <1>1, AppendSorted DEF Typed, DraftFits
<1> QED
  BY <1>2

LEMMA FormEdited ==
  ASSUME Typed, DraftFits, page.mode = "open", NEW form \in Forms, NEW agreed \in BOOLEAN,
         Changed(form, agreed)
  PROVE  DraftFits'
<1>1. page'.mode = "open" /\ page'.status = "SAVING"
  BY DEF Changed, Typed, Pages
<1>2. /\ Sorted(operations')
      /\ \A op \in Queue(operations') : /\ Writes(op) => op.current = FALSE
                                        /\ Waits(op) => op \in Queue(operations)
  BY OutdatedSorted DEF Changed, Typed, DraftFits
<1>3. \A op \in Queue(operations') : Fitting(page', op)
  BY <1>2 DEF DraftFits, Fitting
<1> QED
  BY <1>1, <1>2, <1>3 DEF DraftFits, Settled, Editable

LEMMA PageGone ==
  ASSUME Typed, DraftFits, NEW kinds, Autosaves \cup {"load"} \subseteq kinds,
         operations' = Outdated(operations, kinds), page' = NoPage, submits'["page"] = Idle
  PROVE  DraftFits'
<1>1. /\ Sorted(operations')
      /\ \A op \in Queue(operations') : (Writes(op) => op.current = FALSE) /\ ~Waits(op)
  BY OutdatedSorted DEF Typed, DraftFits
<1>2. \A op \in Queue(operations') : Fitting(page', op)
  BY <1>1 DEF Fitting
<1> QED
  BY <1>1, <1>2, NoPageTyped DEF DraftFits, Settled, Editable

LEMMA UnloadedDraft ==
  ASSUME Typed, DraftFits, Unloaded
  PROVE  DraftFits'
<1> DEFINE kinds == Autosaves \cup {"load", "read", "keep"}
<1>1. operations' = Outdated(operations, kinds) /\ Autosaves \cup {"load"} \subseteq kinds
  BY DEF Unloaded
<1>2. page' = NoPage /\ submits'["page"] = Idle
  BY DEF Unloaded, Submitters
<1> HIDE DEF kinds
<1> QED
  BY <1>1, <1>2, PageGone

LEMMA OpenDraft ==
  ASSUME Typed, DraftFits, Open
  PROVE  DraftFits'
<1> DEFINE op == Operation("load", Nothing)
<1>1. op \in Operations /\ Waits(op) /\ ~Writes(op) /\ operations' = Append(operations, op)
  BY OperationsMade DEF Open, Begun, Operation, Waits, Writes, Autosaves
<1>2. page'.mode = "restoring" /\ page'.timer = FALSE
  BY DEF Open, NoPage
<1> HIDE DEF op
<1>3. \A o \in Queue(operations) : ~Waits(o) /\ (Writes(o) => o.current # TRUE)
  BY DEF Open, DraftFits, Fitting
<1>4. Sorted(operations') /\ Queue(operations') = Queue(operations) \cup {op}
  <2>1. \A o \in Queue(operations) : Behind(o, op)
    BY <1>3 DEF Behind
  <2> QED
    BY <1>1, <2>1, AppendSorted DEF Typed, DraftFits
<1>5. \A o \in Queue(operations') : Fitting(page', o)
  BY <1>1, <1>2, <1>3, <1>4 DEF Fitting
<1>6. submits'["page"] = Idle
  BY DEF Open, allButPage, DraftFits, Editable
<1> QED
  BY <1>2, <1>4, <1>5, <1>6 DEF DraftFits, Settled, Editable

LEMMA AutosaveDraft ==
  ASSUME Typed, DraftFits, Autosave
  PROVE  DraftFits'
<1> DEFINE op == IF page.form # 0 \/ page.agreed THEN Operation("put", page.form)
                 ELSE Operation("delete", Nothing)
<1>1. page.form \in Forms /\ page.form # Nothing /\ page.agreed \in BOOLEAN
  BY PageColumns, NothingAssumption DEF Typed
<1>2. /\ op \in Operations /\ Writes(op) /\ ~Waits(op) /\ op.current = TRUE
      /\ Shows(op.value, page.form)
  BY <1>1, OperationsMade DEF Operation, Waits, Writes, Autosaves, Shows
<1>3. operations' = Append(operations, op)
  BY DEF Autosave, Begun
<1>4. /\ page'.timer = FALSE /\ page'.mode = page.mode /\ page'.form = page.form
      /\ page'.status = page.status
  BY PageColumns DEF Autosave, Typed, Pages
<1>5. page.mode \in {"open", "submitted"}
  BY PageColumns DEF Autosave, DraftFits, Editable, Typed, Pages
<1> HIDE DEF op
<1>6. Sorted(operations') /\ Queue(operations') = Queue(operations) \cup {op}
  <2>1. \A o \in Queue(operations) : Behind(o, op)
    BY <1>2, <1>5 DEF Behind, DraftFits, Fitting
  <2> QED
    BY <1>2, <1>3, <2>1, AppendSorted DEF Typed, DraftFits
<1>7. \A o \in Queue(operations') : Fitting(page', o)
  BY <1>2, <1>4, <1>5, <1>6 DEF DraftFits, Fitting
<1>8. UNCHANGED <<draft, submits>>
  BY DEF Autosave, allButPage, storeVars
<1> QED
  BY <1>2, <1>4, <1>6, <1>7, <1>8 DEF DraftFits, Settled, Editable

LEMMA StopDraft ==
  ASSUME Typed, DraftFits, StopAutosave
  PROVE  DraftFits'
<1>1. /\ page'.timer = FALSE /\ page'.mode = "submitted"
  BY PageColumns DEF StopAutosave, Typed, Pages
<1>2. /\ Sorted(operations')
      /\ \A op \in Queue(operations') : /\ Writes(op) => op.current = FALSE
                                        /\ Waits(op) => op \in Queue(operations)
  BY OutdatedSorted DEF StopAutosave, Typed, DraftFits
<1>3. \A op \in Queue(operations') : Fitting(page', op)
  BY <1>2 DEF StopAutosave, DraftFits, Fitting
<1>4. submits'["page"] = Idle
  BY DEF StopAutosave, allButPage, DraftFits, Editable
<1> QED
  BY <1>1, <1>2, <1>3, <1>4 DEF DraftFits, Settled, Editable

LEMMA CarryOutDraft ==
  ASSUME AttemptInv, DraftFits, NEW ok \in BOOLEAN, CarryOut(ok)
  PROVE  DraftFits'
<1> DEFINE op == Head(operations)
<1>1. op \in Operations /\ operations' = Tail(operations) /\ operations # << >>
  BY TailQueue DEF AttemptInv, Typed, CarryOut
<1>2. /\ op \in Queue(operations) /\ Sorted(operations')
      /\ Queue(operations') \subseteq Queue(operations)
      /\ \A later \in Queue(operations') : Behind(op, later)
  BY <1>1, TailSorted DEF AttemptInv, Typed, DraftFits
<1>3. Saves(op, ok) \/ Loads(op, ok) \/ Reads(op, ok) \/ Keeps(op, ok)
  BY DEF CarryOut
<1> HIDE DEF op
<1>4. op.current \in BOOLEAN /\ page \in Pages /\ draft \in Forms \cup {Nothing}
  BY <1>1, OperationColumns DEF AttemptInv, Typed
<1>5. ASSUME Saves(op, ok) PROVE DraftFits'
  <2>1. Writes(op) /\ UNCHANGED submits
    BY <1>5 DEF Saves, Writes
  <2>2. CASE op.current = TRUE
    <3> DEFINE status == IF ~ok THEN "ERROR" ELSE IF op.kind = "put" THEN "SAVED" ELSE "IDLE"
    <3>1. status \in {"RESTORING", "IDLE", "SAVING", "SAVED", "ERROR"}
      OBVIOUS
    <3>2. page' = [page EXCEPT !.status = status]
      BY <1>5, <2>2 DEF Saves, Reported
    <3>3. ok \/ status = "ERROR"
      OBVIOUS
    <3> HIDE DEF status
    <3>4. /\ page'.mode = page.mode /\ page'.form = page.form /\ page'.timer = page.timer
          /\ page'.status = status
      BY <1>4, <3>1, <3>2 DEF Pages
    <3>5. Fitting(page, op)
      BY <1>2 DEF DraftFits
    <3>6. \A o \in Queue(operations') : Fitting(page', o)
      BY <1>2, <3>4 DEF DraftFits, Fitting
    <3>7. Settled(page', draft', Queue(operations'))
      <4>1. CASE ok
        <5>1. draft' = op.value
          BY <1>5, <4>1 DEF Saves
        <5> QED
          BY <1>2, <2>1, <2>2, <3>4, <3>5, <5>1 DEF Settled, Fitting, Behind
      <4>2. CASE ~ok
        BY <3>3, <3>4, <4>2 DEF Settled
      <4> QED
        BY <4>1, <4>2
    <3> QED
      BY <1>2, <2>1, <3>4, <3>6, <3>7 DEF DraftFits, Editable
  <2>3. CASE op.current # TRUE
    <3>1. page' = page
      BY <1>4, <1>5, <2>3 DEF Saves, Reported
    <3>2. ~(page.mode = "open" /\ page.status \in {"SAVED", "IDLE"})
      BY <1>2, <2>1, <2>3 DEF DraftFits, Settled
    <3> QED
      BY <1>2, <2>1, <3>1, <3>2 DEF DraftFits, Fitting, Settled, Editable
  <2> QED
    BY <2>2, <2>3
<1>6. ASSUME Loads(op, ok) PROVE DraftFits'
  <2>1. op.kind = "load" /\ UNCHANGED <<draft, submits>>
    BY <1>6 DEF Loads, storeVars
  <2>2. CASE op.current = TRUE
    <3>1. Waits(op) /\ page' = Restored(ok)
      BY <1>6, <2>1, <2>2 DEF Loads, Waits
    <3>2. /\ page' \in Pages /\ page'.mode = "open"
          /\ page'.status \in {"SAVED", "IDLE"} =>
               IF draft = Nothing THEN page'.form = 0 ELSE page'.form = draft
      BY <1>4, <3>1, RestoredColumns
    <3>3. \A o \in Queue(operations') : ~Waits(o) /\ ~Writes(o)
      BY <1>2, <3>1 DEF Behind
    <3>4. \A o \in Queue(operations') : Fitting(page', o)
      BY <3>3 DEF Fitting
    <3>5. Settled(page', draft', Queue(operations'))
      BY <2>1, <3>2, <3>3 DEF Settled, Shows
    <3>6. Editable(page', submits'["page"])
      BY <3>2 DEF Editable
    <3> QED
      BY <1>2, <3>4, <3>5, <3>6 DEF DraftFits
  <2>3. CASE op.current # TRUE
    <3>1. page' = page
      BY <1>4, <1>6, <2>3 DEF Loads
    <3>2. page.mode # "open" => submits'["page"] = Idle
      BY <2>1 DEF DraftFits, Editable
    <3> QED
      BY <1>2, <2>1, <3>1, <3>2, DraftUntouched
  <2> QED
    BY <2>2, <2>3
<1>7. ASSUME Reads(op, ok) \/ Keeps(op, ok) PROVE DraftFits'
  <2>1. UNCHANGED <<page, draft>>
    BY <1>7 DEF Reads, Keeps
  <2>2. ASSUME submits["page"] = Idle PROVE submits'["page"] = Idle
    <3>1. \A print : ~Preparing("page", print)
      BY <2>2, IdleTyped DEF Preparing
    <3> QED
      BY <1>7, <2>2, <3>1 DEF Reads, Keeps, Send, Move, Submitters
  <2> QED
    BY <1>2, <2>1, <2>2, DraftUntouched DEF DraftFits, Editable
<1> QED
  BY <1>3, <1>5, <1>6, <1>7

LEMMA SubmitDraft ==
  ASSUME Typed, DraftFits, Submit
  PROVE  DraftFits'
<1>1. UNCHANGED <<page, draft>> /\ page.mode = "open"
  BY DEF Submit, storeVars
<1> DEFINE op == Operation("read", Fingerprint)
<1>2. op \in Operations /\ ~Waits(op) /\ ~Writes(op)
  BY PageColumns, OperationsMade DEF Fingerprint, Typed, Operation, Waits, Writes, Autosaves
<1>3. operations' = operations \/ operations' = Append(operations, op)
  BY DEF Submit, Begun
<1> HIDE DEF op
<1>4. /\ Sorted(operations')
      /\ \A o \in Queue(operations') : o \in Queue(operations) \/ (~Waits(o) /\ ~Writes(o))
  BY <1>2, <1>3, QueueGrows DEF DraftFits
<1> QED
  BY <1>1, <1>4, DraftUntouched

LEMMA BodyReadyDraft ==
  ASSUME AttemptInv, DraftFits, NEW k \in Submitters, BodyReady(k)
  PROVE  DraftFits'
<1>1. UNCHANGED draft /\ submits[k].print \in Fingerprints /\ submits[k].step = "prepare"
  BY DEF BodyReady, storeVars, AttemptInv, Slots, AllCarried, Carried, Carries
<1>2. page.mode # "open" => submits'["page"] = Idle
  <2>1. submits["page"] = Idle => \A print : ~Preparing("page", print)
    BY IdleTyped DEF Preparing
  <2> QED
    BY <2>1 DEF BodyReady, Move, DraftFits, Editable, Submitters
<1>3. CASE keys' = keys + 1
  <2> DEFINE a == [key |-> keys + 1, print |-> submits[k].print]
             op == Operation("keep", a)
  <2>1. a \in Attempts
    BY <1>1 DEF AttemptInv, Typed, Attempts
  <2>2. op \in Operations /\ ~Waits(op) /\ ~Writes(op)
    BY <2>1, OperationsMade DEF Operation, Waits, Writes, Autosaves
  <2>3. operations' = Append(operations, op) /\ UNCHANGED page
    BY <1>3 DEF BodyReady, Begun, AttemptInv, Typed
  <2> HIDE DEF op
  <2>4. /\ Sorted(operations')
        /\ \A o \in Queue(operations') : o \in Queue(operations) \/ (~Waits(o) /\ ~Writes(o))
    BY <2>2, <2>3, QueueGrows DEF AttemptInv
  <2> QED
    BY <1>1, <1>2, <2>3, <2>4, DraftUntouched
<1>4. CASE UNCHANGED keys
  <2>1. \/ UNCHANGED <<page, operations>>
        \/ k = "page" /\ \E form \in 0 .. MaxForm : Changed(form, page.agreed)
    BY <1>4 DEF BodyReady, AttemptInv, Typed
  <2>2. CASE UNCHANGED <<page, operations>>
    BY <1>1, <1>2, <2>2, DraftUntouched DEF DraftFits
  <2>3. ASSUME k = "page", NEW form \in 0 .. MaxForm, Changed(form, page.agreed)
        PROVE  DraftFits'
    <3>1. page.mode = "open"
      BY <1>1, <2>3, IdleTyped DEF DraftFits, Editable
    <3>2. page.agreed \in BOOLEAN
      BY PageColumns DEF AttemptInv, Typed
    <3> QED
      BY <2>3, <3>1, <3>2, FormEdited DEF AttemptInv, Forms
  <2> QED
    BY <2>1, <2>2, <2>3
<1> QED
  BY <1>3, <1>4 DEF BodyReady

LEMMA AnswersDraft ==
  ASSUME AttemptInv, DraftFits, NEW k \in Submitters, LoseAnswer(k) \/ TakeAnswer(k), ~Ours
  PROVE  DraftFits'
<1>1. UNCHANGED draft
  BY DEF LoseAnswer, TakeAnswer, storeVars
<1>2. CASE LoseAnswer(k)
  <2>1. UNCHANGED <<page, operations>> /\ submits[k].step = "sent"
    BY <1>2 DEF LoseAnswer
  <2>2. page.mode # "open" => submits'["page"] = Idle
    BY <1>2, <2>1, IdleTyped DEF LoseAnswer, DraftFits, Editable, AttemptInv, Typed, Submitters
  <2> QED
    BY <1>1, <2>1, <2>2, DraftUntouched DEF DraftFits
<1>3. CASE TakeAnswer(k) /\ submits[k].answer = "expired"
  BY <1>3, UnloadedDraft DEF TakeAnswer, AttemptInv
<1>4. CASE TakeAnswer(k) /\ submits[k].answer # "expired"
  <2>1. submits[k].answer # "receipt"
    BY DEF AttemptInv, Slots, AllCarried, Carried, Ours
  <2>2. UNCHANGED <<page, operations>> /\ submits' = [submits EXCEPT ![k] = Idle]
    BY <1>4, <2>1 DEF TakeAnswer
  <2>3. page.mode # "open" => submits'["page"] = Idle
    BY <2>2 DEF DraftFits, Editable, AttemptInv, Typed, Submitters
  <2> QED
    BY <1>1, <2>2, <2>3, DraftUntouched DEF DraftFits
<1> QED
  BY <1>2, <1>3, <1>4

LEMMA ServerDraft ==
  ASSUME AttemptInv, DraftFits, NEW a \in requests, HandleSubmission(a) \/ Vanish(a)
  PROVE  DraftFits'
<1>1. UNCHANGED <<draft, page, operations>>
  BY DEF HandleSubmission, Vanish, storeVars
<1>2. PICK answer \in Answers : Answer(a, answer)
  BY ServerTyped DEF AttemptInv
<1>3. page.mode # "open" => submits'["page"] = Idle
  BY <1>2, IdleTyped DEF Answer, DraftFits, Editable, Submitters
<1> QED
  BY <1>1, <1>3, DraftUntouched DEF DraftFits

LEMMA DraftStep ==
  ASSUME AttemptInv, DraftInv, [ApplicationNext]_applicationVars
  PROVE  DraftInv'
<1> SUFFICES ASSUME ~Ours PROVE DraftFits'
  BY OursStays DEF DraftInv
<1>1. DraftFits /\ Typed
  BY DEF DraftInv, AttemptInv
<1>2. ASSUME UNCHANGED <<page, draft, operations, submits>> PROVE DraftFits'
  BY <1>1, <1>2 DEF DraftFits
<1>3. CASE Leave
  <2> DEFINE kinds == Autosaves \cup {"load"}
  <2>1. operations' = Outdated(operations, kinds)
    BY <1>3 DEF Leave
  <2> HIDE DEF kinds
  <2>2. Autosaves \cup {"load"} \subseteq kinds
    BY DEF kinds
  <2> QED
    BY <1>1, <1>3, <2>1, <2>2, PageGone DEF Leave
<1>4. CASE Unload
  BY <1>1, <1>4, UnloadedDraft DEF Unload
<1>5. ASSUME NEW form \in 0 .. MaxForm, NEW agreed \in BOOLEAN, EditForm(form, agreed)
      PROVE  DraftFits'
  BY <1>1, <1>5, FormEdited DEF EditForm, Forms
<1>6. CASE Elsewhere
  BY <1>2, <1>6 DEF Elsewhere, storeVars
<1>7. CASE UNCHANGED applicationVars
  BY <1>2, <1>7 DEF applicationVars
<1>8. CASE \E ok \in BOOLEAN : CarryOut(ok)
  BY <1>1, <1>8, CarryOutDraft
<1>9. CASE \E k \in Submitters : BodyReady(k) \/ LoseAnswer(k) \/ TakeAnswer(k)
  BY <1>1, <1>9, BodyReadyDraft, AnswersDraft
<1>10. CASE \E a \in requests : HandleSubmission(a) \/ Vanish(a)
  BY <1>1, <1>10, ServerDraft
<1> QED
  BY <1>1, <1>3, <1>4, <1>5, <1>6, <1>7, <1>8, <1>9, <1>10,
     OpenDraft, AutosaveDraft, StopDraft, SubmitDraft DEF ApplicationNext

(* A page that says saved, or that there is nothing to save, may be        *)
(* closed: the store has the form shown, however edits, autosaves, loads   *)
(* and failures of the store interleave (use-public-application-draft.ts). *)
THEOREM SavedMayClose == ApplicationSpec => []ClosesOnlySaved
<1>1. ApplicationInit => DraftInv
  <2> SUFFICES ASSUME ApplicationInit PROVE DraftFits
    BY DEF DraftInv
  <2>1. operations = << >> /\ Len(operations) = 0 /\ page = NoPage /\ submits["page"] = Idle
    BY DEF ApplicationInit, Submitters
  <2> QED
    BY <2>1, NoPageTyped DEF DraftFits, Sorted, Queue, Settled, Editable
<1>2. AttemptInv /\ DraftInv /\ [ApplicationNext]_applicationVars => DraftInv'
  BY DraftStep
<1>3. DraftInv => ClosesOnlySaved
  BY DEF DraftInv, DraftFits, Settled, Shows, Ours, ClosesOnlySaved, Shown
<1> QED
  BY <1>1, <1>2, <1>3, AttemptsHold, PTL DEF ApplicationSpec
=============================================================================
