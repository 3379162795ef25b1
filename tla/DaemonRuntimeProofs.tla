------------------------- MODULE DaemonRuntimeProofs --------------------------
(***************************************************************************)
(* Safety of DaemonRuntime for every cap, set of periods and bound, and    *)
(* that the queue of unsaved attempts implements AttemptLog.               *)
(*                                                                         *)
(* None of the properties is inductive: each is about what the actions     *)
(* still to be run will do, so the invariant says what they may hold.      *)
(***************************************************************************)
EXTENDS DaemonRuntime, SequenceTheorems, TLAPS

Todo == ToSet(todo)     \* the actions still to be run

(* Is there an action of the kind, and is there at most one                *)
Has(acts, kind) == \E a \in ToSet(acts) : a.do = kind
Once(acts, kind) ==
    \A i, j \in DOMAIN acts : acts[i].do = kind /\ acts[j].do = kind => i = j

(* Attempts are numbered in order: those that ended are older than the one *)
(* being played, and a save takes at most Cap of them                      *)
Started == MaxAttempts - bounds.attempts
Played  == IF attempt = 0 THEN Started ELSE Started - 1

Older(s) == \A i \in 1..Len(s) : s[i] <= Played

Numbered ==
    /\ attempt \in {0, Started}
    /\ Older(unsaved) /\ Older(saved)
    /\ \A a \in Todo : a.do = "save" => Older(a.attempts) /\ Len(a.attempts) <= Cap

(* One save at a time, and nothing is queued behind it before it was tried *)
OneSave ==
    /\ Once(todo, "save")
    /\ Has(todo, "save") => unsaved = <<>>

(* The guard follows the mode, or an action that will make it is due       *)
GuardDue ==
    /\ \A a \in Todo : a.do = "writes" => (a.on <=> ~InMap)
    /\ db.open /\ ~lateOpen => Has(todo, "writes") \/ (db.writes <=> ~InMap)

(* SYNC waits for a sync                                                   *)
SyncDue == mode = "sync" => Has(todo, "sync") \/ waiting > 0 \/ done > 0

(* A session that settled is a right to one backup, which is armed, or     *)
(* timed, or due, or used                                                  *)
One(b) == IF b THEN 1 ELSE 0

BackupsOwed ==
    /\ Once(todo, "backup")
    /\ Has(todo, "backup") => mode = "idle"
    /\ backups + One(armBackup) + One(backup # "off") + One(Has(todo, "backup")) <= session

IInv == TypeOK /\ Numbered /\ OneSave /\ GuardDue /\ SyncDue /\ BackupsOwed

-----------------------------------------------------------------------------
(* Actions and their sequences                                             *)

Fields(a) ==
    /\ a.do \in {"writes", "sync", "refresh", "backup", "publish", "save"}
    /\ a.do = "writes"  => a.on \in BOOLEAN
    /\ a.do = "sync"    => a = TriggerSync
    /\ a.do = "publish" => a.days \in Periods
    /\ a.do = "save"    => a.attempts \in Seq(Nat) /\ a.period \in Periods \cup {None}

(* An action has the fields its kind has                                   *)
LEMMA ActionFields == \A a \in Actions : Fields(a)
BY DEF Actions, Fields, TriggerSync

(* What the loop is asked to do are actions                                *)
LEMMA AreActions ==
    /\ \A on \in BOOLEAN : Writes(on) \in Actions
    /\ TriggerSync \in Actions /\ Refresh \in Actions /\ WriteBackup \in Actions
    /\ \A days \in Periods : [do |-> "publish", days |-> days] \in Actions
BY DEF Actions, Writes, TriggerSync, Refresh, WriteBackup

(* No, one and two actions                                                 *)
LEMMA FewActions ==
    /\ <<>> \in Seq(Actions) /\ ToSet(<<>>) = {} /\ \A k : Once(<<>>, k)
    /\ \A x \in Actions :
          /\ <<x>> \in Seq(Actions) /\ ToSet(<<x>>) = {x} /\ <<x>> # <<>>
          /\ \A k : Once(<<x>>, k)
    /\ \A x, y \in Actions :
          /\ <<x, y>> \in Seq(Actions) /\ ToSet(<<x, y>>) = {x, y} /\ <<x, y>> # <<>>
          /\ x.do # y.do => \A k : Once(<<x, y>>, k)
<1>1. <<>> \in Seq(Actions) /\ DOMAIN <<>> = {} /\ Len(<<>>) = 0
    BY EmptySeq, LenProperties
<1>2. ASSUME NEW x \in Actions
      PROVE  <<x>> \in Seq(Actions) /\ DOMAIN <<x>> = {1} /\ <<x>>[1] = x /\ Len(<<x>>) = 1
    OBVIOUS
<1>3. ASSUME NEW x \in Actions, NEW y \in Actions
      PROVE  /\ <<x, y>> \in Seq(Actions) /\ DOMAIN <<x, y>> = {1, 2} /\ Len(<<x, y>>) = 2
             /\ <<x, y>>[1] = x /\ <<x, y>>[2] = y
    OBVIOUS
<1>4. ToSet(<<>>) = {} /\ \A k : Once(<<>>, k)
    BY <1>1 DEF ToSet, Once
<1>5. ASSUME NEW x \in Actions
      PROVE  ToSet(<<x>>) = {x} /\ <<x>> # <<>> /\ \A k : Once(<<x>>, k)
    BY <1>1, <1>2 DEF ToSet, Once
<1>6. ASSUME NEW x \in Actions, NEW y \in Actions
      PROVE  /\ ToSet(<<x, y>>) = {x, y} /\ <<x, y>> # <<>>
             /\ x.do # y.do => \A k : Once(<<x, y>>, k)
    <2> DEFINE t == <<x, y>>
    <2>1. DOMAIN t = {1, 2} /\ t[1] = x /\ t[2] = y /\ Len(t) = 2
        BY <1>3
    <2> HIDE DEF t
    <2>2. ToSet(t) = {x, y} /\ t # <<>>
        BY <2>1, <1>1 DEF ToSet
    <2>3. x.do # y.do => \A k : Once(t, k)
        BY <2>1 DEF Once
    <2> QED
        BY <2>2, <2>3 DEF t
<1> QED
    BY <1>1, <1>2, <1>3, <1>4, <1>5, <1>6

(* Taking the first action leaves the others                               *)
LEMMA TakeFirst ==
    ASSUME NEW t \in Seq(Actions), t # <<>>
    PROVE  /\ Head(t) \in Actions /\ Tail(t) \in Seq(Actions)
           /\ ToSet(t) = {Head(t)} \cup ToSet(Tail(t))
           /\ \A k : Once(t, k) =>
                 Once(Tail(t), k) /\ (Head(t).do = k => ~Has(Tail(t), k))
<1>1. /\ Head(t) \in Actions /\ Tail(t) \in Seq(Actions) /\ Len(Tail(t)) = Len(t) - 1
      /\ \A i \in 1..Len(Tail(t)) : Tail(t)[i] = t[i + 1]
    BY HeadTailProperties
<1>2. /\ Len(t) \in Nat /\ DOMAIN t = 1..Len(t) /\ Len(t) # 0
      /\ DOMAIN Tail(t) = 1..Len(Tail(t))
    BY <1>1, LenProperties, EmptySeq
<1>3. Head(t) = t[1]
    BY <1>2
<1> DEFINE r == Tail(t)
<1>4. /\ \A i \in DOMAIN r : i + 1 \in DOMAIN t /\ r[i] = t[i + 1] /\ i + 1 # 1
      /\ \A i \in DOMAIN t : i = 1 \/ (i - 1 \in DOMAIN r /\ r[i - 1] = t[i])
      /\ 1 \in DOMAIN t
    BY <1>1, <1>2
<1>5. \A i, j \in DOMAIN r : i + 1 = j + 1 => i = j
    BY <1>1, <1>2
<1> HIDE DEF r
<1>6. ToSet(t) = {t[1]} \cup ToSet(r)
    BY <1>4 DEF ToSet
<1>7. ASSUME NEW k, Once(t, k)
      PROVE  Once(r, k) /\ (t[1].do = k => ~Has(r, k))
    BY <1>4, <1>5, <1>7 DEF Once, Has, ToSet
<1> QED
    BY <1>1, <1>3, <1>6, <1>7 DEF r

(* One sequence behind another                                             *)
LEMMA Behind ==
    ASSUME NEW x \in Seq(Actions), NEW y \in Seq(Actions)
    PROVE  /\ x \o y \in Seq(Actions)
           /\ ToSet(x \o y) = ToSet(x) \cup ToSet(y)
           /\ \A k : Has(x \o y, k) <=> Has(x, k) \/ Has(y, k)
           /\ \A k : Once(x, k) /\ Once(y, k) /\ ~(Has(x, k) /\ Has(y, k)) => Once(x \o y, k)
<1> DEFINE t == x \o y
<1>1. /\ t \in Seq(Actions) /\ Len(t) = Len(x) + Len(y)
      /\ \A i \in 1..(Len(x) + Len(y)) : t[i] = IF i <= Len(x) THEN x[i] ELSE y[i - Len(x)]
    BY ConcatProperties
<1>2. /\ Len(x) \in Nat /\ DOMAIN x = 1..Len(x) /\ Len(y) \in Nat /\ DOMAIN y = 1..Len(y)
      /\ DOMAIN t = 1..Len(t)
    BY <1>1, LenProperties
<1> HIDE DEF t
<1>3. \A i \in DOMAIN t : \/ i \in DOMAIN x /\ t[i] = x[i]
                          \/ i - Len(x) \in DOMAIN y /\ t[i] = y[i - Len(x)]
    BY <1>1, <1>2
<1>4. /\ \A i \in DOMAIN x : i \in DOMAIN t /\ t[i] = x[i]
      /\ \A i \in DOMAIN y : Len(x) + i \in DOMAIN t /\ t[Len(x) + i] = y[i]
    BY <1>1, <1>2
<1>5. \A i, j \in DOMAIN t : i - Len(x) = j - Len(x) => i = j
    BY <1>2
<1>6. ToSet(t) = ToSet(x) \cup ToSet(y)
    BY <1>3, <1>4 DEF ToSet
<1>7. ASSUME NEW k, Once(x, k), Once(y, k), ~(Has(x, k) /\ Has(y, k))
      PROVE  Once(t, k)
    BY <1>3, <1>5, <1>7 DEF Once, Has, ToSet
<1> QED
    BY <1>1, <1>6, <1>7 DEF t, Has

-----------------------------------------------------------------------------
(* What the operations do to the queues                                    *)

(* cap_unsaved keeps a tail of at most Cap                                 *)
LEMMA CappedTail ==
    ASSUME NEW s \in Seq(Nat)
    PROVE  /\ Capped(s) \in Seq(Nat) /\ Len(Capped(s)) <= Cap
           /\ Len(s) <= Cap => Capped(s) = s
           /\ \A p : (\A i \in 1..Len(s) : s[i] <= p) =>
                     \A i \in 1..Len(Capped(s)) : Capped(s)[i] <= p
<1>1. CASE Len(s) <= Cap
    BY <1>1, CapAssumption, LenProperties DEF Capped
<1>2. CASE Len(s) > Cap
    <2> DEFINE m == Len(s) - Cap + 1
    <2>1. /\ Len(s) \in Nat /\ m \in 1..(Len(s) + 1)
          /\ Capped(s) = SubSeq(s, m, Len(s)) /\ Len(s) - m + 1 = Cap
        BY <1>2, CapAssumption, LenProperties DEF Capped
    <2>2. \A i \in m..Len(s) : s[i] \in Nat
        BY <2>1, ElementOfSeq
    <2>3. /\ SubSeq(s, m, Len(s)) \in Seq(Nat) /\ Len(SubSeq(s, m, Len(s))) = Cap
          /\ \A i \in 1..Cap : SubSeq(s, m, Len(s))[i] = s[m + i - 1]
        <3> DEFINE n == Len(s)
        <3>1. m \in Int /\ n \in Int /\ m <= n /\ n - m + 1 = Cap
            BY <2>1, CapAssumption
        <3>2. \A i \in m..n : s[i] \in Nat
            BY <2>2
        <3> HIDE DEF m, n
        <3>3. /\ SubSeq(s, m, n) \in Seq(Nat) /\ Len(SubSeq(s, m, n)) = n - m + 1
              /\ \A i \in 1..(n - m + 1) : SubSeq(s, m, n)[i] = s[m + i - 1]
            BY <3>1, <3>2, SubSeqProperties
        <3> QED
            BY <3>1, <3>3 DEF n
    <2>4. \A i \in 1..Cap : m + i - 1 \in 1..Len(s)
        BY <2>1
    <2> HIDE DEF m
    <2> QED
        BY <1>2, <2>1, <2>3, <2>4, CapAssumption
<1> QED
    BY <1>1, <1>2, CapAssumption, LenProperties

(* An attempt that ends joins the queue, which stays in its bounds         *)
LEMMA QueuedLast ==
    ASSUME NEW s \in Seq(Nat), NEW a \in Nat, NEW p \in Nat,
           \A i \in 1..Len(s) : s[i] <= p, a <= p
    PROVE  /\ Capped(Append(s, a)) \in Seq(Nat) /\ Len(Capped(Append(s, a))) <= Cap
           /\ \A i \in 1..Len(Capped(Append(s, a))) : Capped(Append(s, a))[i] <= p
<1>1. /\ Append(s, a) \in Seq(Nat)
      /\ \A i \in 1..Len(Append(s, a)) : Append(s, a)[i] <= p
    BY AppendProperties, LenProperties
<1> QED
    BY <1>1, CappedTail

(* So do the ones put back before it, and the ones behind those saved      *)
LEMMA QueuedFirst ==
    ASSUME NEW s \in Seq(Nat), NEW t \in Seq(Nat), NEW p,
           \A i \in 1..Len(s) : s[i] <= p, \A i \in 1..Len(t) : t[i] <= p
    PROVE  /\ s \o t \in Seq(Nat) /\ \A i \in 1..Len(s \o t) : (s \o t)[i] <= p
           /\ Capped(s \o t) \in Seq(Nat) /\ Len(Capped(s \o t)) <= Cap
           /\ \A i \in 1..Len(Capped(s \o t)) : Capped(s \o t)[i] <= p
<1>1. /\ s \o t \in Seq(Nat) /\ Len(s \o t) = Len(s) + Len(t)
      /\ \A i \in 1..Len(s) + Len(t) :
            (s \o t)[i] = IF i <= Len(s) THEN s[i] ELSE t[i - Len(s)]
    BY ConcatProperties
<1>2. Len(s) \in Nat /\ Len(t) \in Nat
    BY LenProperties
<1>3. \A i \in 1..Len(s \o t) : (s \o t)[i] <= p
    BY <1>1, <1>2
<1> QED
    BY <1>1, <1>3, CappedTail

(* What is in flight is what the one save carries                          *)
LEMMA OnItsWay ==
    ASSUME NEW acts \in Seq(Actions), Once(acts, "save")
    PROVE  /\ ~Has(acts, "save") => AttemptsIn(acts) = <<>>
           /\ \A a \in ToSet(acts) : a.do = "save" => AttemptsIn(acts) = a.attempts
<1> DEFINE saves == {i \in DOMAIN acts : acts[i].do = "save"}
<1>1. CASE ~Has(acts, "save")
    BY <1>1 DEF Has, ToSet, AttemptsIn
<1>2. ASSUME NEW a \in ToSet(acts), a.do = "save"
      PROVE  AttemptsIn(acts) = a.attempts
    <2>1. PICK i \in DOMAIN acts : acts[i] = a
        BY <1>2 DEF ToSet
    <2>2. saves = {i}
        BY <1>2, <2>1 DEF Once
    <2>3. (CHOOSE j \in saves : TRUE) = i
        BY <2>2
    <2> QED
        BY <2>1, <2>2, <2>3 DEF AttemptsIn
<1> QED
    BY <1>1, <1>2 DEF Has, ToSet

(* The loop takes its first action                                         *)
LEMMA Loop ==
    ASSUME todo \in Seq(Actions), todo # <<>>, todo' = Tail(todo)
    PROVE  /\ Head(todo) \in Todo /\ Fields(Head(todo))
           /\ todo' \in Seq(Actions) /\ Todo' \subseteq Todo
           /\ \A k : Has(todo, k) <=> Head(todo).do = k \/ Has(todo', k)
           /\ \A k : Once(todo, k) =>
                 Once(todo', k) /\ (Head(todo).do = k => ~Has(todo', k))
BY TakeFirst, ActionFields DEF Todo, Has

(* refresh_history puts what it read before the actions left               *)
LEMMA LoopReads ==
    ASSUME todo \in Seq(Actions), period \in Periods, RefreshRead
    PROVE  /\ todo' \in Seq(Actions)
           /\ \A a \in Todo' : a \in Todo \/ a.do = "publish"
           /\ \A k : k \notin {"refresh", "publish"} => (Has(todo, k) <=> Has(todo', k))
           /\ \A k : k # "publish" /\ Once(todo, k) => Once(todo', k)
<1> DEFINE p == [do |-> "publish", days |-> period]
           x == IF db.open THEN <<p>> ELSE <<>>
<1>1. p \in Actions /\ p.do = "publish"
    BY AreActions
<1>2. todo # <<>> /\ Head(todo).do = "refresh" /\ todo' = x \o Tail(todo)
    BY DEF RefreshRead, Doing
<1>3. Tail(todo) \in Seq(Actions) /\ ToSet(todo) = {Head(todo)} \cup ToSet(Tail(todo))
      /\ \A k : Once(todo, k) => Once(Tail(todo), k)
    BY <1>2, TakeFirst
<1> HIDE DEF p
<1>4. x \in Seq(Actions) /\ ToSet(x) \subseteq {p} /\ \A k : Once(x, k)
    BY <1>1, FewActions
<1> HIDE DEF x
<1>5. todo' \in Seq(Actions) /\ Todo' = ToSet(x) \cup ToSet(Tail(todo))
    BY <1>2, <1>3, <1>4, Behind DEF Todo
<1>6. \A k : k # "publish" /\ Once(todo, k) => Once(todo', k)
    <2>1. \A k : k # "publish" => ~Has(x, k)
        BY <1>1, <1>4 DEF Has
    <2> QED
        BY <2>1, <1>2, <1>3, <1>4, Behind
<1>7. \A k : k \notin {"refresh", "publish"} => (Has(todo, k) <=> Has(todo', k))
    BY <1>1, <1>2, <1>3, <1>4, <1>5 DEF Has, Todo
<1> QED
    BY <1>1, <1>3, <1>4, <1>5, <1>6, <1>7 DEF Todo

(* A tick asks for the end of COOLDOWN, a sync, a save and a backup        *)
LEMMA TickMakes ==
    ASSUME TypeOK, NEW periodic \in BOOLEAN, NEW due \in BOOLEAN, Tick(periodic, due)
    PROVE  /\ todo' \in Seq(Actions) /\ Save \in Actions
           /\ Once(todo', "save") /\ Once(todo', "backup")
           /\ Has(todo', "save") <=> SaveDue
           /\ Has(todo', "backup") <=> BackupDue
           /\ Has(todo', "writes") <=> CooldownOver.acts # <<>>
           /\ TriggerSync \in ToSet(CooldownOver.acts) => Has(todo', "sync")
           /\ \A a \in Todo' : a.do = "save" => a = Save
           /\ \A a \in Todo' : a.do = "writes" => a = Writes(TRUE)
<1> DEFINE w == CooldownOver.acts
           x == IF PeriodicSync(periodic) THEN <<TriggerSync>> ELSE <<>>
           y == IF SaveDue THEN <<Save, Refresh>> ELSE <<>>
           z == IF BackupDue THEN <<WriteBackup>> ELSE <<>>
<1>1. todo' = w \o x \o y \o z
    BY DEF Tick
<1>2. Save \in Actions /\ Save.do = "save"
    BY DEF TypeOK, Save, Actions
<1>3. /\ TriggerSync \in Actions /\ Refresh \in Actions /\ WriteBackup \in Actions
      /\ Writes(TRUE) \in Actions
    BY AreActions
<1>4. /\ TriggerSync.do = "sync" /\ Refresh.do = "refresh" /\ WriteBackup.do = "backup"
      /\ Writes(TRUE).do = "writes"
    BY DEF TriggerSync, Refresh, WriteBackup, Writes
<1>5. /\ w \in Seq(Actions) /\ \A k : Once(w, k)
      /\ ToSet(w) \subseteq {Writes(TRUE), TriggerSync}
      /\ w # <<>> => Writes(TRUE) \in ToSet(w)
      /\ w = <<>> => ToSet(w) = {}
    <2>1. \/ w = <<>>
          \/ w = <<Writes(TRUE)>>
          \/ w = <<Writes(TRUE), TriggerSync>>
        BY DEF CooldownOver
    <2> HIDE DEF w
    <2>2. CASE w = <<>>
        BY <2>2, FewActions
    <2>3. CASE w = <<Writes(TRUE)>>
        <3>1. /\ <<Writes(TRUE)>> \in Seq(Actions) /\ <<Writes(TRUE)>> # <<>>
              /\ ToSet(<<Writes(TRUE)>>) = {Writes(TRUE)} /\ \A k : Once(<<Writes(TRUE)>>, k)
            BY <1>3, FewActions
        <3> QED
            BY <2>3, <3>1
    <2>4. CASE w = <<Writes(TRUE), TriggerSync>>
        <3>1. Writes(TRUE).do # TriggerSync.do
            BY <1>4
        <3>2. w \in Seq(Actions) /\ w # <<>> /\ ToSet(w) = {Writes(TRUE), TriggerSync}
            BY <2>4, <1>3, FewActions
        <3>3. \A k : Once(w, k)
            BY <2>4, <3>1, <1>3, FewActions
        <3> QED
            BY <3>2, <3>3
    <2> QED
        BY <2>1, <2>2, <2>3, <2>4
<1>6. /\ x \in Seq(Actions) /\ \A k : Once(x, k) /\ ToSet(x) \subseteq {TriggerSync}
    BY <1>3, FewActions
<1>7. /\ y \in Seq(Actions) /\ \A k : Once(y, k)
      /\ ToSet(y) = IF SaveDue THEN {Save, Refresh} ELSE {}
    BY <1>2, <1>3, <1>4, FewActions
<1>8. /\ z \in Seq(Actions) /\ \A k : Once(z, k)
      /\ ToSet(z) = IF BackupDue THEN {WriteBackup} ELSE {}
    BY <1>3, FewActions
<1> HIDE DEF w, x, y, z
<1>a. /\ ~Has(w, "save") /\ ~Has(w, "backup")
      /\ Has(w, "writes") <=> w # <<>>
      /\ TriggerSync \in ToSet(w) => Has(w, "sync")
    BY <1>4, <1>5 DEF Has
<1>b. ~Has(x, "save") /\ ~Has(x, "backup") /\ ~Has(x, "writes")
    BY <1>4, <1>6 DEF Has
<1>c. (Has(y, "save") <=> SaveDue) /\ ~Has(y, "backup") /\ ~Has(y, "writes")
    BY <1>2, <1>4, <1>7 DEF Has
<1>d. (Has(z, "backup") <=> BackupDue) /\ ~Has(z, "save") /\ ~Has(z, "writes")
    BY <1>4, <1>8 DEF Has
<1>9. /\ w \o x \in Seq(Actions) /\ ToSet(w \o x) = ToSet(w) \cup ToSet(x)
      /\ Once(w \o x, "save") /\ Once(w \o x, "backup")
      /\ \A k : Has(w \o x, k) <=> Has(w, k) \/ Has(x, k)
    BY <1>5, <1>6, <1>a, Behind
<1>10. /\ (w \o x) \o y \in Seq(Actions)
       /\ ToSet((w \o x) \o y) = ToSet(w) \cup ToSet(x) \cup ToSet(y)
       /\ Once((w \o x) \o y, "save") /\ Once((w \o x) \o y, "backup")
       /\ \A k : Has((w \o x) \o y, k) <=> Has(w, k) \/ Has(x, k) \/ Has(y, k)
    BY <1>7, <1>9, <1>a, <1>b, <1>c, Behind
<1>11. /\ todo' \in Seq(Actions)
       /\ ToSet(todo') = ToSet(w) \cup ToSet(x) \cup ToSet(y) \cup ToSet(z)
       /\ Once(todo', "save") /\ Once(todo', "backup")
       /\ \A k : Has(todo', k) <=> Has(w, k) \/ Has(x, k) \/ Has(y, k) \/ Has(z, k)
    BY <1>1, <1>8, <1>10, <1>a, <1>b, <1>c, <1>d, Behind
<1>12. /\ Has(todo', "save") <=> SaveDue
       /\ Has(todo', "backup") <=> BackupDue
       /\ Has(todo', "writes") <=> w # <<>>
       /\ TriggerSync \in ToSet(w) => Has(todo', "sync")
    BY <1>11, <1>a, <1>b, <1>c, <1>d
<1>13. \A a \in Todo' : /\ a.do = "save" => a = Save
                        /\ a.do = "writes" => a = Writes(TRUE)
    BY <1>2, <1>4, <1>5, <1>6, <1>7, <1>8, <1>11 DEF Todo
<1> QED
    BY <1>2, <1>11, <1>12, <1>13 DEF w

-----------------------------------------------------------------------------
(* The invariant: one lemma for each conjunct, one step for each action    *)

(* What an attempt that ends makes of the queue                            *)
LEMMA Finished ==
    ASSUME TypeOK, Numbered, NEW r \in BOOLEAN, Finish(r)
    PROVE  /\ Started \in 0..MaxAttempts
           /\ unsaved' \in Seq(Nat) /\ Len(unsaved') <= Cap
           /\ \A i \in 1..Len(unsaved') : unsaved'[i] <= Started
           /\ \A i \in 1..Len(saved) : saved[i] <= Started
<1>1. /\ Started \in 0..MaxAttempts /\ Played <= Started /\ attempt <= Started
      /\ unsaved \in Seq(Nat) /\ saved \in Seq(Nat) /\ attempt \in Nat /\ Len(unsaved) <= Cap
      /\ Played \in Int /\ Started \in Nat
    BY BoundsAssumption DEF TypeOK, Numbered, Started, Played
<1>2. /\ \A i \in 1..Len(unsaved) : unsaved[i] <= Started
      /\ \A i \in 1..Len(saved) : saved[i] <= Started
    <2>1. \A i \in 1..Len(unsaved) : unsaved[i] \in Nat /\ unsaved[i] <= Played
        BY <1>1, ElementOfSeq DEF Numbered, Older
    <2>2. \A i \in 1..Len(saved) : saved[i] \in Nat /\ saved[i] <= Played
        BY <1>1, ElementOfSeq DEF Numbered, Older
    <2> QED
        BY <1>1, <2>1, <2>2
<1>3. CASE attempt # 0 /\ r
    <2>1. unsaved' = Capped(Append(unsaved, attempt))
        BY <1>3 DEF Finish
    <2> QED
        BY <1>1, <1>2, <2>1, QueuedLast
<1>4. CASE ~(attempt # 0 /\ r)
    BY <1>1, <1>2, <1>4 DEF Finish
<1> QED
    BY <1>3, <1>4

(* TypeOK in the parts that change together                                *)
ModeOK ==
    /\ mode \in {"idle", "playing", "cooldown", "sync"}
    /\ cooldown \in {"off", "running", "over"} /\ backup \in {"off", "running", "over"}
    /\ armBackup \in BOOLEAN
PadOK == connected \in BOOLEAN /\ guarded \in BOOLEAN /\ told \in BOOLEAN
DbOK == db \in [open : BOOLEAN, writes : BOOLEAN] /\ dbError \in BOOLEAN /\ lateOpen \in BOOLEAN
QueueOK == attempt \in Nat /\ unsaved \in Seq(Nat) /\ Len(unsaved) <= Cap /\ saved \in Seq(Nat)
PeriodOK ==
    /\ period \in Periods /\ history \in Periods \cup {None}
    /\ periodUnsaved \in BOOLEAN /\ dbPeriod \in Periods
    /\ setting \in {None} \cup [days : Periods, saved : BOOLEAN, read : BOOLEAN]
SyncsOK == waiting \in Nat /\ done \in Nat
BoundsOK == bounds \in [attempts : 0..MaxAttempts, syncs : Nat, faults : Nat, sets : Nat]
CountsOK == session \in Nat /\ backups \in Nat

(* TypeOK is those parts, before a step and after it                       *)
LEMMA TypeParts ==
    /\ TypeOK <=> /\ todo \in Seq(Actions)
                   /\ ModeOK /\ PadOK /\ DbOK /\ QueueOK
                   /\ PeriodOK /\ SyncsOK /\ BoundsOK /\ CountsOK
    /\ todo' \in Seq(Actions) /\ ModeOK' /\ PadOK' /\ DbOK' /\ QueueOK'
       /\ PeriodOK' /\ SyncsOK' /\ BoundsOK' /\ CountsOK'
       => TypeOK'
<1>1. TypeOK <=> /\ todo \in Seq(Actions)
                 /\ ModeOK /\ PadOK /\ DbOK /\ QueueOK
                 /\ PeriodOK /\ SyncsOK /\ BoundsOK /\ CountsOK
    BY DEF TypeOK, ModeOK, PadOK, DbOK, QueueOK, PeriodOK, SyncsOK, BoundsOK, CountsOK
<1>2. /\ todo' \in Seq(Actions) /\ ModeOK' /\ PadOK' /\ DbOK' /\ QueueOK'
      /\ PeriodOK' /\ SyncsOK' /\ BoundsOK' /\ CountsOK'
      => TypeOK'
    BY DEF TypeOK, ModeOK, PadOK, DbOK, QueueOK, PeriodOK, SyncsOK, BoundsOK, CountsOK
<1> QED
    BY <1>1, <1>2

(* Init starts with the invariant                                          *)
LEMMA InitIInv == Init => IInv
<1> SUFFICES ASSUME Init PROVE IInv
    OBVIOUS
<1>1. /\ <<>> \in Seq(Nat) /\ Len(<<>>) = 0
      /\ todo = <<>> /\ todo \in Seq(Actions) /\ Todo = {} /\ \A k : Once(todo, k) /\ ~Has(todo, k)
    BY FewActions, EmptySeq DEF Init, Todo, Has
<1>2. bounds \in [attempts : 0..MaxAttempts, syncs : Nat, faults : Nat, sets : Nat]
    BY BoundsAssumption DEF Init
<1>3. TypeOK
    <2>1. ModeOK /\ PadOK /\ SyncsOK /\ CountsOK /\ BoundsOK
        BY <1>2 DEF Init, ModeOK, PadOK, SyncsOK, CountsOK, BoundsOK
    <2>2. QueueOK
        BY <1>1, CapAssumption DEF Init, QueueOK
    <2>3. PICK open \in StartOpen : db = [open |-> open, writes |-> open] /\ dbError = ~open
        BY DEF Init
    <2>4. DbOK
        BY <2>3, CapAssumption DEF Init, DbOK
    <2>5. PeriodOK
        BY <2>3, PeriodsAssumption DEF Init, PeriodOK
    <2> QED
        BY <1>1, <2>1, <2>2, <2>4, <2>5, TypeParts
<1>4. Numbered
    BY <1>1, <1>2, BoundsAssumption DEF Init, Numbered, Older
<1>5. OneSave /\ SyncDue
    BY <1>1 DEF Init, OneSave, SyncDue
<1>6. GuardDue
    BY <1>1, CapAssumption DEF Init, GuardDue, InMap
<1>7. BackupsOwed
    BY <1>1 DEF Init, BackupsOwed, One
<1> QED
    BY <1>3, <1>4, <1>5, <1>6, <1>7 DEF IInv

(* A part whose variables stay stays                                       *)
LEMMA PartsStay ==
    /\ ModeOK /\ UNCHANGED <<mode, timers>> => ModeOK'
    /\ PadOK /\ UNCHANGED pad => PadOK'
    /\ DbOK /\ UNCHANGED <<db, dbError, lateOpen>> => DbOK'
    /\ QueueOK /\ UNCHANGED play => QueueOK'
    /\ PeriodOK /\ UNCHANGED <<tap, setting>> => PeriodOK'
    /\ SyncsOK /\ UNCHANGED <<waiting, done>> => SyncsOK'
    /\ BoundsOK /\ UNCHANGED bounds => BoundsOK'
    /\ CountsOK /\ UNCHANGED <<session, backups>> => CountsOK'
<1>1. ModeOK /\ UNCHANGED <<mode, timers>> => ModeOK'
    BY DEF ModeOK, timers
<1>2. PadOK /\ UNCHANGED pad => PadOK'
    BY DEF PadOK, pad
<1>3. DbOK /\ UNCHANGED <<db, dbError, lateOpen>> => DbOK'
    BY DEF DbOK
<1>4. QueueOK /\ UNCHANGED play => QueueOK'
    BY DEF QueueOK, play
<1>5. PeriodOK /\ UNCHANGED <<tap, setting>> => PeriodOK'
    BY DEF PeriodOK, tap
<1>6. SyncsOK /\ UNCHANGED <<waiting, done>> => SyncsOK'
    BY DEF SyncsOK
<1>7. BoundsOK /\ UNCHANGED bounds => BoundsOK'
    BY DEF BoundsOK
<1>8. CountsOK /\ UNCHANGED <<session, backups>> => CountsOK'
    BY DEF CountsOK
<1> QED
    BY <1>1, <1>2, <1>3, <1>4, <1>5, <1>6, <1>7, <1>8

(* A count that is used up by one                                          *)
LEMMA CountDown == ASSUME NEW what \in {"attempts", "syncs", "faults", "sets"}, BoundsOK, Count(what)
                   PROVE  BoundsOK'
BY BoundsAssumption DEF BoundsOK, Count

(* Every variable stays in its range                                       *)
LEMMA TypeStep == TypeOK /\ Numbered /\ [Next]_vars => TypeOK'
<1> SUFFICES ASSUME TypeOK, Numbered, [Next]_vars PROVE TypeOK'
    OBVIOUS
<1>0. /\ todo \in Seq(Actions)
      /\ ModeOK /\ PadOK /\ DbOK /\ QueueOK
      /\ PeriodOK /\ SyncsOK /\ BoundsOK /\ CountsOK
    BY TypeParts
<1>1. ASSUME NEW r \in BOOLEAN, Playing(r)
      PROVE  TypeOK'
    <2>1. todo' \in Seq(Actions)
        BY <1>0, <1>1, AreActions, FewActions DEF Playing
    <2>2. /\ UNCHANGED <<db, dbError, lateOpen>> /\ UNCHANGED <<tap, setting>> /\ UNCHANGED <<waiting, done>>
          /\ UNCHANGED <<session, backups>>
        BY <1>0, <1>1 DEF Playing, tap
    <2>3. DbOK' /\ PeriodOK' /\ SyncsOK' /\ CountsOK'
        BY <1>0, <2>2, PartsStay
    <2>4. ModeOK'
        BY <1>0, <1>1 DEF Playing, ModeOK
    <2>5. PadOK'
        BY <1>0, <1>1 DEF Playing, PadOK
    <2>6. unsaved' \in Seq(Nat) /\ Len(unsaved') <= Cap /\ Started \in Nat
        BY <1>0, <1>1, Finished DEF Playing, Start
    <2>7. attempt' \in Nat
        BY <1>0, <1>1, BoundsAssumption DEF Playing, Start, Count, BoundsOK
    <2>8. QueueOK'
        BY <1>0, <1>1, <2>6, <2>7 DEF Playing, QueueOK
    <2>9. BoundsOK'
        BY <1>0, <1>1, CountDown DEF Playing, Start
    <2> QED
        BY <2>1, <2>3, <2>4, <2>5, <2>8, <2>9, TypeParts
<1>2. ASSUME NEW r \in BOOLEAN, Failed(r)
      PROVE  TypeOK'
    <2>1. todo' \in Seq(Actions)
        BY <1>0, <1>2 DEF Failed
    <2>2. /\ UNCHANGED <<mode, timers>> /\ UNCHANGED pad /\ UNCHANGED <<db, dbError, lateOpen>>
          /\ UNCHANGED <<tap, setting>> /\ UNCHANGED <<waiting, done>> /\ UNCHANGED bounds
          /\ UNCHANGED <<session, backups>>
        BY <1>0, <1>2 DEF Failed, timers, pad, tap
    <2>3. ModeOK' /\ PadOK' /\ DbOK' /\ PeriodOK' /\ SyncsOK' /\ BoundsOK' /\ CountsOK'
        BY <1>0, <2>2, PartsStay
    <2>4. unsaved' \in Seq(Nat) /\ Len(unsaved') <= Cap
        BY <1>0, <1>2, Finished DEF Failed
    <2>5. QueueOK'
        BY <1>0, <1>2, <2>4 DEF Failed, QueueOK
    <2> QED
        BY <2>1, <2>3, <2>5, TypeParts
<1>3. ASSUME NEW r \in BOOLEAN, NotPlaying(r)
      PROVE  TypeOK'
    <2>1. todo' \in Seq(Actions)
        BY <1>0, <1>3, AreActions, FewActions DEF NotPlaying
    <2>2. /\ UNCHANGED <<db, dbError, lateOpen>> /\ UNCHANGED <<tap, setting>> /\ UNCHANGED <<waiting, done>>
          /\ UNCHANGED bounds /\ UNCHANGED <<session, backups>>
        BY <1>0, <1>3 DEF NotPlaying, tap
    <2>3. DbOK' /\ PeriodOK' /\ SyncsOK' /\ BoundsOK' /\ CountsOK'
        BY <1>0, <2>2, PartsStay
    <2>4. ModeOK'
        BY <1>0, <1>3 DEF NotPlaying, timers, ModeOK
    <2>5. PadOK'
        BY <1>0, <1>3 DEF NotPlaying, PadOK
    <2>6. unsaved' \in Seq(Nat) /\ Len(unsaved') <= Cap
        BY <1>0, <1>3, Finished DEF NotPlaying
    <2>7. QueueOK'
        BY <1>0, <1>3, <2>6 DEF NotPlaying, QueueOK
    <2> QED
        BY <2>1, <2>3, <2>4, <2>5, <2>7, TypeParts
<1>4. ASSUME NEW up \in BOOLEAN, NEW r \in BOOLEAN, TosuConnectionChanged(up, r)
      PROVE  TypeOK'
    <2>1. todo' \in Seq(Actions)
        BY <1>0, <1>4, AreActions, FewActions DEF TosuConnectionChanged
    <2>2. /\ UNCHANGED <<db, dbError, lateOpen>> /\ UNCHANGED <<tap, setting>> /\ UNCHANGED <<waiting, done>>
          /\ UNCHANGED <<session, backups>>
        BY <1>0, <1>4 DEF TosuConnectionChanged, tap
    <2>3. DbOK' /\ PeriodOK' /\ SyncsOK' /\ CountsOK'
        BY <1>0, <2>2, PartsStay
    <2>4. ModeOK'
        BY <1>0, <1>4 DEF TosuConnectionChanged, ModeOK
    <2>5. PadOK'
        BY <1>0, <1>4 DEF TosuConnectionChanged, PadOK
    <2>6. up => UNCHANGED <<attempt, unsaved, saved>>
        BY <1>0, <1>4 DEF TosuConnectionChanged, play
    <2>7. ~up => unsaved' \in Seq(Nat) /\ Len(unsaved') <= Cap
        BY <1>0, <1>4, Finished DEF TosuConnectionChanged
    <2>8. saved' = saved /\ (~up => attempt' = 0)
        BY <1>0, <1>4 DEF TosuConnectionChanged, play
    <2>9. unsaved' \in Seq(Nat) /\ Len(unsaved') <= Cap /\ attempt' \in Nat /\ saved' = saved
        BY <1>0, <2>6, <2>7, <2>8 DEF QueueOK
    <2>10. QueueOK'
        BY <1>0, <2>9 DEF QueueOK
    <2>11. BoundsOK'
        BY <1>0, <1>4, CountDown DEF TosuConnectionChanged
    <2> QED
        BY <2>1, <2>3, <2>4, <2>5, <2>10, <2>11, TypeParts
<1>5. ASSUME NEW prompt \in BOOLEAN, DeviceConnected(prompt)
      PROVE  TypeOK'
    <2>1. todo' \in Seq(Actions)
        BY <1>0, <1>5, AreActions, FewActions DEF DeviceConnected
    <2>2. /\ UNCHANGED <<mode, timers>> /\ UNCHANGED <<db, dbError, lateOpen>> /\ UNCHANGED play
          /\ UNCHANGED <<tap, setting>> /\ UNCHANGED <<waiting, done>> /\ UNCHANGED bounds
          /\ UNCHANGED <<session, backups>>
        BY <1>0, <1>5 DEF DeviceConnected, timers, play, tap
    <2>3. ModeOK' /\ DbOK' /\ QueueOK' /\ PeriodOK' /\ SyncsOK' /\ BoundsOK' /\ CountsOK'
        BY <1>0, <2>2, PartsStay
    <2>4. PadOK'
        BY <1>0, <1>5 DEF DeviceConnected, PadOK
    <2> QED
        BY <2>1, <2>3, <2>4, TypeParts
<1>6. ASSUME NEW replacement \in BOOLEAN, DeviceDisconnected(replacement)
      PROVE  TypeOK'
    <2>1. todo' \in Seq(Actions)
        BY <1>0, <1>6 DEF DeviceDisconnected
    <2>2. /\ UNCHANGED <<mode, timers>> /\ UNCHANGED <<db, dbError, lateOpen>> /\ UNCHANGED play
          /\ UNCHANGED <<tap, setting>> /\ UNCHANGED <<waiting, done>> /\ UNCHANGED <<session, backups>>
        BY <1>0, <1>6 DEF DeviceDisconnected, timers, play, tap
    <2>3. ModeOK' /\ DbOK' /\ QueueOK' /\ PeriodOK' /\ SyncsOK' /\ CountsOK'
        BY <1>0, <2>2, PartsStay
    <2>4. PadOK'
        BY <1>0, <1>6 DEF DeviceDisconnected, PadOK
    <2>5. BoundsOK'
        BY <1>0, <1>6, CountDown DEF DeviceDisconnected
    <2> QED
        BY <2>1, <2>3, <2>4, <2>5, TypeParts
<1>7. CASE PromptAnswered
    <2>1. todo' \in Seq(Actions)
        BY <1>0, <1>7 DEF PromptAnswered
    <2>2. /\ UNCHANGED <<mode, timers>> /\ UNCHANGED <<db, dbError, lateOpen>> /\ UNCHANGED play
          /\ UNCHANGED <<tap, setting>> /\ UNCHANGED <<waiting, done>> /\ UNCHANGED bounds
          /\ UNCHANGED <<session, backups>>
        BY <1>0, <1>7 DEF PromptAnswered, timers, play, tap
    <2>3. ModeOK' /\ DbOK' /\ QueueOK' /\ PeriodOK' /\ SyncsOK' /\ BoundsOK' /\ CountsOK'
        BY <1>0, <2>2, PartsStay
    <2>4. PadOK'
        BY <1>0, <1>7 DEF PromptAnswered, PadOK
    <2> QED
        BY <2>1, <2>3, <2>4, TypeParts
<1>8. ASSUME NEW periodic \in BOOLEAN, NEW due \in BOOLEAN, Tick(periodic, due)
      PROVE  TypeOK'
    <2>1. todo' \in Seq(Actions)
        BY <1>0, <1>8, TickMakes
    <2>2. UNCHANGED <<waiting, done>>
        BY <1>0, <1>8 DEF Tick
    <2>3. SyncsOK'
        BY <1>0, <2>2, PartsStay
    <2>4. mode' \in {"idle", "playing", "cooldown", "sync"}
        BY <1>0, <1>8 DEF Tick, CooldownOver, ModeOK
    <2>5. ModeOK'
        BY <1>0, <1>8, <2>4 DEF Tick, ModeOK
    <2>6. PadOK'
        BY <1>0, <1>8 DEF Tick, Heartbeat, PadOK
    <2>7. DbOK'
        BY <1>0, <1>8 DEF Tick, DbOK
    <2>8. QueueOK'
        BY <1>0, <1>8, EmptySeq, CapAssumption DEF Tick, TakeUnsaved, QueueOK
    <2>9. PeriodOK'
        BY <1>0, <1>8 DEF Tick, PeriodOK
    <2>10. BoundsOK'
        BY <1>0, <1>8, CountDown DEF Tick, BoundsOK
    <2>11. CountsOK'
        BY <1>0, <1>8 DEF Tick, CountsOK
    <2> QED
        BY <2>1, <2>3, <2>5, <2>6, <2>7, <2>8, <2>9, <2>10, <2>11, TypeParts
<1>9. CASE SyncCompleted
    <2>1. todo' \in Seq(Actions)
        BY <1>0, <1>9, AreActions, FewActions DEF SyncCompleted, SyncAllows
    <2>2. /\ UNCHANGED pad /\ UNCHANGED <<db, dbError, lateOpen>> /\ UNCHANGED play
          /\ UNCHANGED <<tap, setting>> /\ UNCHANGED bounds /\ UNCHANGED <<session, backups>>
        BY <1>0, <1>9 DEF SyncCompleted, pad, play, tap
    <2>3. PadOK' /\ DbOK' /\ QueueOK' /\ PeriodOK' /\ BoundsOK' /\ CountsOK'
        BY <1>0, <2>2, PartsStay
    <2>4. ModeOK'
        BY <1>0, <1>9 DEF SyncCompleted, SyncArms, ModeOK
    <2>5. SyncsOK'
        BY <1>0, <1>9 DEF SyncCompleted, SyncsOK
    <2> QED
        BY <2>1, <2>3, <2>4, <2>5, TypeParts
<1>10. ASSUME NEW ok \in BOOLEAN, ReopenDatabase(ok)
      PROVE  TypeOK'
    <2>1. todo' \in Seq(Actions)
        BY <1>0, <1>10 DEF ReopenDatabase
    <2>2. /\ UNCHANGED <<mode, timers>> /\ UNCHANGED pad /\ UNCHANGED play
          /\ UNCHANGED <<tap, setting>> /\ UNCHANGED <<waiting, done>> /\ UNCHANGED bounds
          /\ UNCHANGED <<session, backups>>
        BY <1>0, <1>10 DEF ReopenDatabase, timers, pad, play, tap
    <2>3. ModeOK' /\ PadOK' /\ QueueOK' /\ PeriodOK' /\ SyncsOK' /\ BoundsOK' /\ CountsOK'
        BY <1>0, <2>2, PartsStay
    <2>4. InMap \in BOOLEAN
        BY DEF InMap
    <2>5. ok => db' = [open |-> TRUE, writes |-> TRUE] /\ dbError' = FALSE
        BY <1>0, <1>10 DEF ReopenDatabase
    <2>6. ok => lateOpen' = InMap
        BY <1>0, <1>10 DEF ReopenDatabase
    <2>7. [open |-> TRUE, writes |-> TRUE] \in [open : BOOLEAN, writes : BOOLEAN]
        OBVIOUS
    <2>8. ok => DbOK'
        BY <2>4, <2>5, <2>6, <2>7, Zenon DEF DbOK
    <2>9. ~ok => DbOK'
        BY <1>0, <1>10 DEF ReopenDatabase, DbOK
    <2>10. DbOK'
        BY <2>8, <2>9
    <2> QED
        BY <2>1, <2>3, <2>10, TypeParts
<1>11. CASE SetStorageWritesAllowed
    <2>1. todo' \in Seq(Actions)
        BY <1>0, <1>11, Loop DEF SetStorageWritesAllowed, Doing
    <2>2. /\ UNCHANGED <<mode, timers>> /\ UNCHANGED pad /\ UNCHANGED play
          /\ UNCHANGED <<tap, setting>> /\ UNCHANGED <<waiting, done>> /\ UNCHANGED bounds
          /\ UNCHANGED <<session, backups>>
        BY <1>0, <1>11 DEF SetStorageWritesAllowed, timers, pad, play, tap
    <2>3. ModeOK' /\ PadOK' /\ QueueOK' /\ PeriodOK' /\ SyncsOK' /\ BoundsOK' /\ CountsOK'
        BY <1>0, <2>2, PartsStay
    <2>4. Head(todo).on \in BOOLEAN
        BY <1>0, <1>11, Loop DEF SetStorageWritesAllowed, Doing, Fields
    <2>5. DbOK'
        BY <1>0, <1>11, <2>4 DEF SetStorageWritesAllowed, DbOK
    <2> QED
        BY <2>1, <2>3, <2>5, TypeParts
<1>12. CASE StartSync
    <2>1. todo' \in Seq(Actions)
        BY <1>0, <1>12, Loop DEF StartSync, Doing
    <2>2. /\ UNCHANGED <<mode, timers>> /\ UNCHANGED pad /\ UNCHANGED <<db, dbError, lateOpen>>
          /\ UNCHANGED play /\ UNCHANGED <<tap, setting>> /\ UNCHANGED bounds
          /\ UNCHANGED <<session, backups>>
        BY <1>0, <1>12 DEF StartSync, timers, pad, play, tap
    <2>3. ModeOK' /\ PadOK' /\ DbOK' /\ QueueOK' /\ PeriodOK' /\ BoundsOK' /\ CountsOK'
        BY <1>0, <2>2, PartsStay
    <2>4. SyncsOK'
        BY <1>0, <1>12 DEF StartSync, SyncsOK
    <2> QED
        BY <2>1, <2>3, <2>4, TypeParts
<1>13. ASSUME NEW ok \in BOOLEAN, NEW okPeriod \in BOOLEAN, SaveTapStats(ok, okPeriod)
      PROVE  TypeOK'
    <2>1. todo' \in Seq(Actions)
        BY <1>0, <1>13, Loop DEF SaveTapStats, Doing
    <2>2. /\ UNCHANGED <<mode, timers>> /\ UNCHANGED pad /\ UNCHANGED <<db, dbError, lateOpen>>
          /\ UNCHANGED <<waiting, done>> /\ UNCHANGED <<session, backups>>
        BY <1>0, <1>13 DEF SaveTapStats, timers, pad
    <2>3. ModeOK' /\ PadOK' /\ DbOK' /\ SyncsOK' /\ CountsOK'
        BY <1>0, <2>2, PartsStay
    <2>4. Head(todo).attempts \in Seq(Nat)
        BY <1>0, <1>13, Loop DEF SaveTapStats, Doing, Fields
    <2>5. /\ Head(todo).attempts \o unsaved \in Seq(Nat)
          /\ saved \o Head(todo).attempts \in Seq(Nat)
        BY <1>0, <2>4, ConcatProperties DEF QueueOK
    <2>6. ok => unsaved' = unsaved /\ saved' = saved \o Head(todo).attempts
        BY <1>0, <1>13 DEF SaveTapStats
    <2>7. ~ok => unsaved' = Capped(Head(todo).attempts \o unsaved) /\ saved' = saved
        BY <1>0, <1>13 DEF SaveTapStats, Requeue
    <2>8. unsaved' \in Seq(Nat) /\ Len(unsaved') <= Cap /\ saved' \in Seq(Nat)
        <3>1. CASE ok
            BY <1>0, <2>5, <2>6, <3>1 DEF QueueOK
        <3>2. CASE ~ok
            <4>1. /\ Capped(Head(todo).attempts \o unsaved) \in Seq(Nat)
                  /\ Len(Capped(Head(todo).attempts \o unsaved)) <= Cap
                BY <2>5, CappedTail
            <4> QED
                BY <1>0, <2>7, <3>2, <4>1 DEF QueueOK
        <3> QED
            BY <3>1, <3>2
    <2>9. QueueOK'
        BY <1>0, <1>13, <2>8 DEF SaveTapStats, QueueOK
    <2>10. Head(todo).period \in Periods \cup {None}
        BY <1>0, <1>13, Loop DEF SaveTapStats, Doing, Fields
    <2>11. dbPeriod' \in Periods /\ periodUnsaved' \in BOOLEAN
        BY <1>0, <1>13, <2>10 DEF SaveTapStats, PeriodOK
    <2>12. PeriodOK'
        BY <1>0, <1>13, <2>11 DEF SaveTapStats, PeriodOK
    <2>13. BoundsOK'
        BY <1>0, <1>13, CountDown, PartsStay DEF SaveTapStats
    <2> QED
        BY <2>1, <2>3, <2>9, <2>12, <2>13, TypeParts
<1>14. CASE RefreshRead
    <2>1. todo' \in Seq(Actions)
        BY <1>0, <1>14, LoopReads DEF PeriodOK
    <2>2. /\ UNCHANGED <<mode, timers>> /\ UNCHANGED pad /\ UNCHANGED <<db, dbError, lateOpen>>
          /\ UNCHANGED play /\ UNCHANGED <<tap, setting>> /\ UNCHANGED <<waiting, done>>
          /\ UNCHANGED bounds /\ UNCHANGED <<session, backups>>
        BY <1>0, <1>14 DEF RefreshRead, timers, pad, play, tap
    <2>3. ModeOK' /\ PadOK' /\ DbOK' /\ QueueOK' /\ PeriodOK' /\ SyncsOK' /\ BoundsOK' /\ CountsOK'
        BY <1>0, <2>2, PartsStay
    <2> QED
        BY <2>1, <2>3, TypeParts
<1>15. CASE RefreshPublish
    <2>1. todo' \in Seq(Actions)
        BY <1>0, <1>15, Loop DEF RefreshPublish, Doing
    <2>2. /\ UNCHANGED <<mode, timers>> /\ UNCHANGED pad /\ UNCHANGED <<db, dbError, lateOpen>>
          /\ UNCHANGED play /\ UNCHANGED <<waiting, done>> /\ UNCHANGED bounds
          /\ UNCHANGED <<session, backups>>
        BY <1>0, <1>15 DEF RefreshPublish, timers, pad, play
    <2>3. ModeOK' /\ PadOK' /\ DbOK' /\ QueueOK' /\ SyncsOK' /\ BoundsOK' /\ CountsOK'
        BY <1>0, <2>2, PartsStay
    <2>4. Head(todo).days \in Periods
        BY <1>0, <1>15, Loop DEF RefreshPublish, Doing, Fields
    <2>5. PeriodOK'
        BY <1>0, <1>15, <2>4 DEF RefreshPublish, Published, PeriodOK
    <2> QED
        BY <2>1, <2>3, <2>5, TypeParts
<1>16. CASE WriteAutoBackup
    <2>1. todo' \in Seq(Actions)
        BY <1>0, <1>16, Loop DEF WriteAutoBackup, Doing
    <2>2. /\ UNCHANGED <<mode, timers>> /\ UNCHANGED pad /\ UNCHANGED <<db, dbError, lateOpen>>
          /\ UNCHANGED play /\ UNCHANGED <<tap, setting>> /\ UNCHANGED <<waiting, done>>
          /\ UNCHANGED bounds
        BY <1>0, <1>16 DEF WriteAutoBackup, timers, pad, play, tap
    <2>3. ModeOK' /\ PadOK' /\ DbOK' /\ QueueOK' /\ PeriodOK' /\ SyncsOK' /\ BoundsOK'
        BY <1>0, <2>2, PartsStay
    <2>4. CountsOK'
        BY <1>0, <1>16 DEF WriteAutoBackup, CountsOK
    <2> QED
        BY <2>1, <2>3, <2>4, TypeParts
<1>17. CASE SyncEnds
    <2>1. todo' \in Seq(Actions)
        BY <1>0, <1>17 DEF SyncEnds
    <2>2. /\ UNCHANGED <<mode, timers>> /\ UNCHANGED pad /\ UNCHANGED <<db, dbError, lateOpen>>
          /\ UNCHANGED play /\ UNCHANGED <<tap, setting>> /\ UNCHANGED bounds
          /\ UNCHANGED <<session, backups>>
        BY <1>0, <1>17 DEF SyncEnds, timers, pad, play, tap
    <2>3. ModeOK' /\ PadOK' /\ DbOK' /\ QueueOK' /\ PeriodOK' /\ BoundsOK' /\ CountsOK'
        BY <1>0, <2>2, PartsStay
    <2>4. SyncsOK'
        BY <1>0, <1>17 DEF SyncEnds, SyncsOK
    <2> QED
        BY <2>1, <2>3, <2>4, TypeParts
<1>18. ASSUME NEW days \in Periods, SetPeriodStore(days)
      PROVE  TypeOK'
    <2>1. todo' \in Seq(Actions)
        BY <1>0, <1>18 DEF SetPeriodStore
    <2>2. /\ UNCHANGED <<mode, timers>> /\ UNCHANGED pad /\ UNCHANGED <<db, dbError, lateOpen>>
          /\ UNCHANGED play /\ UNCHANGED <<waiting, done>> /\ UNCHANGED <<session, backups>>
        BY <1>0, <1>18 DEF SetPeriodStore, timers, pad, play
    <2>3. ModeOK' /\ PadOK' /\ DbOK' /\ QueueOK' /\ SyncsOK' /\ CountsOK'
        BY <1>0, <2>2, PartsStay
    <2>4. PeriodOK'
        BY <1>0, <1>18 DEF SetPeriodStore, CanWrite, DbOK, PeriodOK
    <2>5. BoundsOK'
        BY <1>0, <1>18, CountDown DEF SetPeriodStore
    <2> QED
        BY <2>1, <2>3, <2>4, <2>5, TypeParts
<1>19. CASE SetPeriodPublish
    <2>1. todo' \in Seq(Actions)
        BY <1>0, <1>19 DEF SetPeriodPublish
    <2>2. /\ UNCHANGED <<mode, timers>> /\ UNCHANGED pad /\ UNCHANGED <<db, dbError, lateOpen>>
          /\ UNCHANGED play /\ UNCHANGED <<waiting, done>> /\ UNCHANGED bounds
          /\ UNCHANGED <<session, backups>>
        BY <1>0, <1>19 DEF SetPeriodPublish, timers, pad, play
    <2>3. ModeOK' /\ PadOK' /\ DbOK' /\ QueueOK' /\ SyncsOK' /\ BoundsOK' /\ CountsOK'
        BY <1>0, <2>2, PartsStay
    <2>4. setting \in [days : Periods, saved : BOOLEAN, read : BOOLEAN]
        BY <1>0, <1>19 DEF SetPeriodPublish, PeriodOK
    <2>5. PeriodOK'
        BY <1>0, <1>19, <2>4 DEF SetPeriodPublish, PeriodOK
    <2> QED
        BY <2>1, <2>3, <2>5, TypeParts
<1>20. CASE CooldownTime
    <2>1. todo' \in Seq(Actions)
        BY <1>0, <1>20 DEF CooldownTime
    <2>2. /\ UNCHANGED pad /\ UNCHANGED <<db, dbError, lateOpen>> /\ UNCHANGED play
          /\ UNCHANGED <<tap, setting>> /\ UNCHANGED <<waiting, done>> /\ UNCHANGED bounds
          /\ UNCHANGED <<session, backups>>
        BY <1>0, <1>20 DEF CooldownTime, pad, play, tap
    <2>3. PadOK' /\ DbOK' /\ QueueOK' /\ PeriodOK' /\ SyncsOK' /\ BoundsOK' /\ CountsOK'
        BY <1>0, <2>2, PartsStay
    <2>4. ModeOK'
        BY <1>0, <1>20 DEF CooldownTime, ModeOK
    <2> QED
        BY <2>1, <2>3, <2>4, TypeParts
<1>21. CASE BackupTime
    <2>1. todo' \in Seq(Actions)
        BY <1>0, <1>21 DEF BackupTime
    <2>2. /\ UNCHANGED pad /\ UNCHANGED <<db, dbError, lateOpen>> /\ UNCHANGED play
          /\ UNCHANGED <<tap, setting>> /\ UNCHANGED <<waiting, done>> /\ UNCHANGED bounds
          /\ UNCHANGED <<session, backups>>
        BY <1>0, <1>21 DEF BackupTime, pad, play, tap
    <2>3. PadOK' /\ DbOK' /\ QueueOK' /\ PeriodOK' /\ SyncsOK' /\ BoundsOK' /\ CountsOK'
        BY <1>0, <2>2, PartsStay
    <2>4. ModeOK'
        BY <1>0, <1>21 DEF BackupTime, ModeOK
    <2> QED
        BY <2>1, <2>3, <2>4, TypeParts
<1>22. CASE UNCHANGED vars
    BY <1>22 DEF vars, timers, pad, play, tap, TypeOK
<1> QED
    BY <1>1, <1>2, <1>3, <1>4, <1>5, <1>6, <1>7, <1>8, <1>9, <1>10, <1>11, <1>12,
       <1>13, <1>14, <1>15, <1>16, <1>17, <1>18, <1>19, <1>20, <1>21, <1>22 DEF Next, Action

(* What is asked for is nothing, a change of the guard or a sync           *)
LEMMA AsksFor ==
    /\ Ready => Todo = {} /\ \A k : ~Has(todo, k)
    /\ todo' = <<>> => Todo' = {} /\ \A k : Once(todo', k) /\ ~Has(todo', k)
    /\ \A on \in BOOLEAN :
          todo' = <<Writes(on)>> =>
             Todo' = {Writes(on)} /\ \A k : Once(todo', k) /\ (Has(todo', k) <=> k = "writes")
    /\ todo' = <<TriggerSync>> =>
          Todo' = {TriggerSync} /\ \A k : Once(todo', k) /\ (Has(todo', k) <=> k = "sync")
<1>1. /\ Ready => Todo = {} /\ \A k : ~Has(todo, k)
      /\ todo' = <<>> => Todo' = {} /\ \A k : Once(todo', k) /\ ~Has(todo', k)
    BY FewActions DEF Ready, Todo, Has
<1>2. ASSUME NEW x \in Actions, todo' = <<x>>
      PROVE  Todo' = {x} /\ \A k : Once(todo', k) /\ (Has(todo', k) <=> k = x.do)
    BY <1>2, FewActions DEF Todo, Has
<1>3. (\A on \in BOOLEAN : Writes(on).do = "writes") /\ TriggerSync.do = "sync"
    BY DEF Writes, TriggerSync
<1> QED
    BY <1>1, <1>2, <1>3, AreActions

(* Attempts are numbered in order                                          *)
LEMMA NumberedStep == TypeOK /\ Numbered /\ [Next]_vars => Numbered'
<1> SUFFICES ASSUME TypeOK, Numbered, [Next]_vars PROVE Numbered'
    OBVIOUS
<1>a. /\ todo \in Seq(Actions) /\ bounds \in [attempts : 0..MaxAttempts, syncs : Nat, faults : Nat, sets : Nat]
      /\ unsaved \in Seq(Nat) /\ saved \in Seq(Nat) /\ Len(unsaved) <= Cap /\ period \in Periods
      /\ attempt \in Nat /\ Started \in Nat /\ Played \in Int
    BY BoundsAssumption DEF TypeOK, Started, Played
<1>b. ASSUME UNCHANGED <<attempt, unsaved, saved>>, bounds'.attempts = bounds.attempts,
             \A a \in Todo' : a \in Todo \/ a.do # "save"
      PROVE  Numbered'
    BY <1>b DEF Numbered, Older, Started, Played
<1>c. ASSUME attempt' = 0, bounds'.attempts = bounds.attempts, UNCHANGED saved, \A a \in Todo' : a.do # "save",
             NEW r \in BOOLEAN, Finish(r)
      PROVE  Numbered'
    <2>1. Started' = Started /\ Played' = Started
        BY <1>c DEF Started, Played
    <2> QED
        BY <1>c, <2>1, Finished DEF Numbered, Older
<1>d. \A on \in BOOLEAN : Writes(on).do # "save"
    BY DEF Writes
<1>e. TriggerSync.do # "save"
    BY DEF TriggerSync
<1>f. \A what \in {"syncs", "faults", "sets"} : Count(what) => bounds'.attempts = bounds.attempts
    BY <1>a DEF Count
<1>1. ASSUME NEW r \in BOOLEAN, Playing(r)
      PROVE  Numbered'
    <2>1. \A a \in Todo' : a.do # "save"
        BY <1>1, <1>d, AsksFor DEF Playing, Ready
    <2>2. Started' = Started + 1 /\ attempt' = Started + 1 /\ Played' = Started
        BY <1>1, <1>a, BoundsAssumption DEF Playing, Start, Count, Started, Played
    <2> QED
        BY <1>1, <2>1, <2>2, Finished DEF Playing, Start, Numbered, Older
<1>2. ASSUME NEW r \in BOOLEAN, Failed(r)
      PROVE  Numbered'
    BY <1>2, <1>c, AsksFor DEF Failed, Ready
<1>3. ASSUME NEW r \in BOOLEAN, NotPlaying(r)
      PROVE  Numbered'
    BY <1>3, <1>c, <1>d, AsksFor DEF NotPlaying
<1>4. ASSUME NEW up \in BOOLEAN, NEW r \in BOOLEAN, TosuConnectionChanged(up, r)
      PROVE  Numbered'
    <2>1. /\ \A a \in Todo' : a.do # "save"
          /\ bounds'.attempts = bounds.attempts /\ UNCHANGED saved
        BY <1>4, <1>d, <1>f, AsksFor DEF TosuConnectionChanged, Ready
    <2>2. CASE up
        BY <1>4, <2>1, <2>2, <1>b DEF TosuConnectionChanged
    <2>3. CASE ~up
        BY <1>4, <2>1, <2>3, <1>c DEF TosuConnectionChanged
    <2> QED
        BY <2>2, <2>3
<1>5. ASSUME NEW prompt \in BOOLEAN, DeviceConnected(prompt)
      PROVE  Numbered'
    BY <1>5, <1>b, <1>e, AsksFor DEF DeviceConnected, play
<1>6. ASSUME NEW periodic \in BOOLEAN, NEW due \in BOOLEAN, Tick(periodic, due)
      PROVE  Numbered'
    <2>0. Count("syncs") \/ UNCHANGED bounds
        BY <1>6 DEF Tick
    <2>1. bounds'.attempts = bounds.attempts /\ UNCHANGED <<attempt, saved>>
        BY <1>6, <1>f, <2>0 DEF Tick
    <2>2. Started' = Started /\ Played' = Played
        BY <2>1 DEF Started, Played
    <2>a. Save.attempts = unsaved
        BY DEF Save
    <2>3. \A a \in Todo' : a.do = "save" => a.attempts = unsaved
        BY <1>6, <2>a, TickMakes
    <2>4. Older(unsaved')
        BY <1>6, <1>a, EmptySeq DEF Tick, TakeUnsaved, Numbered, Older
    <2> QED
        BY <1>a, <2>1, <2>2, <2>3, <2>4 DEF Numbered, Older
<1>7. ASSUME NEW ok \in BOOLEAN, NEW okPeriod \in BOOLEAN, SaveTapStats(ok, okPeriod)
      PROVE  Numbered'
    <2>1. Head(todo) \in Todo /\ Head(todo).do = "save" /\ Todo' \subseteq Todo
        BY <1>7, <1>a, Loop DEF SaveTapStats, Doing
    <2>2. Older(Head(todo).attempts) /\ Head(todo).attempts \in Seq(Nat)
        BY <1>7, <1>a, <2>1, Loop DEF SaveTapStats, Doing, Numbered, Fields
    <2>3. /\ Older(saved \o Head(todo).attempts)
          /\ Older(Capped(Head(todo).attempts \o unsaved))
        BY <1>a, <2>2, QueuedFirst DEF Older, Numbered
    <2>4. UNCHANGED attempt /\ Started' = Started /\ Played' = Played
        BY <1>7, <1>f DEF SaveTapStats, Started, Played
    <2>5. Older(unsaved') /\ Older(saved')
        BY <1>7, <2>3 DEF SaveTapStats, Requeue, Numbered
    <2> QED
        BY <2>1, <2>4, <2>5 DEF Numbered, Older
<1>8. CASE SetStorageWritesAllowed \/ StartSync \/ RefreshPublish \/ WriteAutoBackup
    BY <1>8, <1>a, <1>b, Loop
       DEF SetStorageWritesAllowed, StartSync, RefreshPublish, WriteAutoBackup, Doing, play
<1>9. CASE RefreshRead
    BY <1>9, <1>a, <1>b, LoopReads DEF RefreshRead, play
<1>10. CASE SyncCompleted
    BY <1>10, <1>b, <1>d, AsksFor DEF SyncCompleted, SyncAllows, play
<1>11. CASE \/ \E replacement \in BOOLEAN : DeviceDisconnected(replacement)
            \/ PromptAnswered
            \/ \E ok \in BOOLEAN : ReopenDatabase(ok)
            \/ SyncEnds
            \/ \E days \in Periods : SetPeriodStore(days)
            \/ SetPeriodPublish \/ CooldownTime \/ BackupTime \/ UNCHANGED vars
    <2>1. UNCHANGED <<attempt, unsaved, saved, todo>> /\ bounds'.attempts = bounds.attempts
        BY <1>11, <1>f
           DEF DeviceDisconnected, PromptAnswered, ReopenDatabase, SyncEnds, SetPeriodStore,
               SetPeriodPublish, CooldownTime, BackupTime, vars, play
    <2> QED
        BY <2>1, <1>b DEF Todo
<1> QED
    BY <1>1, <1>2, <1>3, <1>4, <1>5, <1>6, <1>7, <1>8, <1>9, <1>10, <1>11 DEF Next, Action

(* Nothing is queued behind a save                                         *)
LEMMA OneSaveStep == TypeOK /\ OneSave /\ [Next]_vars => OneSave'
<1> SUFFICES ASSUME TypeOK, OneSave, [Next]_vars PROVE OneSave'
    OBVIOUS
<1>a. todo \in Seq(Actions) /\ period \in Periods /\ unsaved \in Seq(Nat)
    BY DEF TypeOK
<1>b. ASSUME Once(todo', "save"), ~Has(todo', "save")
      PROVE  OneSave'
    BY <1>b DEF OneSave
<1>c. ASSUME Once(todo', "save"), Has(todo', "save") => Has(todo, "save"), UNCHANGED unsaved
      PROVE  OneSave'
    BY <1>c DEF OneSave
<1>1. ASSUME NEW r \in BOOLEAN, Playing(r) \/ Failed(r) \/ NotPlaying(r)
      PROVE  OneSave'
    <2>1. \/ todo' = <<>>
          \/ todo' = <<Writes(FALSE)>>
        BY <1>1 DEF Playing, Failed, NotPlaying, Ready
    <2> QED
        BY <2>1, <1>b, AsksFor
<1>2. ASSUME NEW up \in BOOLEAN, NEW r \in BOOLEAN, TosuConnectionChanged(up, r)
      PROVE  OneSave'
    <2>1. \/ todo' = <<>>
          \/ todo' = <<Writes(FALSE)>>
        BY <1>2 DEF TosuConnectionChanged, Ready
    <2> QED
        BY <2>1, <1>b, AsksFor
<1>3. ASSUME NEW prompt \in BOOLEAN, DeviceConnected(prompt)
      PROVE  OneSave'
    BY <1>3, <1>b, AsksFor DEF DeviceConnected
<1>4. ASSUME NEW periodic \in BOOLEAN, NEW due \in BOOLEAN, Tick(periodic, due)
      PROVE  OneSave'
    BY <1>4, TickMakes DEF Tick, TakeUnsaved, OneSave
<1>5. CASE SyncCompleted
    <2>1. \/ todo' = <<>>
          \/ todo' = <<Writes(TRUE)>>
        BY <1>5 DEF SyncCompleted, SyncAllows
    <2> QED
        BY <2>1, <1>b, AsksFor
<1>6. ASSUME NEW ok \in BOOLEAN, NEW okPeriod \in BOOLEAN, SaveTapStats(ok, okPeriod)
      PROVE  OneSave'
    BY <1>6, <1>a, <1>b, Loop DEF SaveTapStats, Doing, OneSave
<1>7. CASE SetStorageWritesAllowed \/ StartSync \/ RefreshPublish \/ WriteAutoBackup
    <2>1. todo # <<>> /\ todo' = Tail(todo) /\ UNCHANGED unsaved
        BY <1>7 DEF SetStorageWritesAllowed, StartSync, RefreshPublish, WriteAutoBackup, Doing, play
    <2> QED
        BY <2>1, <1>a, <1>c, Loop DEF OneSave
<1>8. CASE RefreshRead
    BY <1>8, <1>a, <1>c, LoopReads DEF RefreshRead, play, OneSave
<1>9. CASE \/ \E replacement \in BOOLEAN : DeviceDisconnected(replacement)
           \/ PromptAnswered
           \/ \E ok \in BOOLEAN : ReopenDatabase(ok)
           \/ SyncEnds
           \/ \E days \in Periods : SetPeriodStore(days)
           \/ SetPeriodPublish \/ CooldownTime \/ BackupTime \/ UNCHANGED vars
    <2>1. UNCHANGED <<unsaved, todo>>
        BY <1>9
           DEF DeviceDisconnected, PromptAnswered, ReopenDatabase, SyncEnds, SetPeriodStore,
               SetPeriodPublish, CooldownTime, BackupTime, vars, play
    <2> QED
        BY <2>1, <1>c DEF OneSave
<1> QED
    BY <1>1, <1>2, <1>3, <1>4, <1>5, <1>6, <1>7, <1>8, <1>9 DEF Next, Action

(* The guard follows the mode or is about to                               *)
LEMMA GuardStep == TypeOK /\ GuardDue /\ [Next]_vars => GuardDue'
<1> SUFFICES ASSUME TypeOK, GuardDue, [Next]_vars PROVE GuardDue'
    OBVIOUS
<1>a. /\ todo \in Seq(Actions) /\ period \in Periods
      /\ mode \in {"idle", "playing", "cooldown", "sync"}
      /\ db \in [open : BOOLEAN, writes : BOOLEAN] /\ lateOpen \in BOOLEAN
    BY DEF TypeOK
<1>b. \A on \in BOOLEAN : Writes(on).on = on
    BY DEF Writes
<1>c. ASSUME InMap' <=> InMap, UNCHANGED <<db, lateOpen>>,
             \A a \in Todo' : a \in Todo \/ a.do # "writes",
             Has(todo, "writes") => Has(todo', "writes")
      PROVE  GuardDue'
    BY <1>c DEF GuardDue
<1>d. ASSUME NEW on \in BOOLEAN, on <=> ~InMap', todo' = <<Writes(on)>>
      PROVE  GuardDue'
    <2>1. Todo' = {Writes(on)} /\ Has(todo', "writes")
        BY <1>d, AsksFor
    <2> QED
        BY <1>b, <1>d, <2>1 DEF GuardDue
<1>e. ASSUME todo' = <<>>, Ready, UNCHANGED <<mode, db, lateOpen>>
      PROVE  GuardDue'
    BY <1>c, <1>e, AsksFor DEF InMap
<1>1. ASSUME NEW r \in BOOLEAN, Playing(r)
      PROVE  GuardDue'
    <2>1. CASE mode = "playing"
        BY <1>1, <1>e, <2>1 DEF Playing, Ready
    <2>2. CASE mode # "playing"
        BY <1>1, <1>d, <2>2 DEF Playing, InMap
    <2> QED
        BY <2>1, <2>2
<1>2. ASSUME NEW r \in BOOLEAN, Failed(r)
      PROVE  GuardDue'
    BY <1>2, <1>e DEF Failed, Ready
<1>3. ASSUME NEW r \in BOOLEAN, NotPlaying(r)
      PROVE  GuardDue'
    BY <1>3, <1>d DEF NotPlaying, InMap
<1>4. ASSUME NEW up \in BOOLEAN, NEW r \in BOOLEAN, TosuConnectionChanged(up, r)
      PROVE  GuardDue'
    <2>1. \/ mode' = "cooldown" /\ todo' = <<Writes(FALSE)>>
          \/ UNCHANGED <<mode, todo, db, lateOpen>> /\ Ready
        BY <1>4 DEF TosuConnectionChanged
    <2> QED
        BY <2>1, <1>d, <1>e DEF InMap, Ready
<1>5. ASSUME NEW prompt \in BOOLEAN, DeviceConnected(prompt)
      PROVE  GuardDue'
    <2>1. todo' = <<>> \/ todo' = <<TriggerSync>>
        BY <1>5 DEF DeviceConnected
    <2>2. \A a \in Todo' : a.do # "writes"
        BY <2>1, AsksFor DEF TriggerSync
    <2>3. ~Has(todo, "writes")
        BY <1>5, AsksFor DEF DeviceConnected
    <2> QED
        BY <1>5, <1>c, <2>2, <2>3 DEF DeviceConnected, InMap
<1>6. ASSUME NEW periodic \in BOOLEAN, NEW due \in BOOLEAN, Tick(periodic, due)
      PROVE  GuardDue'
    <2>1. /\ \A a \in Todo' : a.do = "writes" => a.on
          /\ Has(todo', "writes") <=> CooldownOver.acts # <<>>
        BY <1>6, <1>b, TickMakes
    <2>2. ~Has(todo, "writes")
        BY <1>6, AsksFor DEF Tick
    <2>3. CASE CooldownOver.acts # <<>>
        <3>1. ~InMap'
            BY <1>6, <2>3 DEF Tick, CooldownOver, InMap
        <3> QED
            BY <2>1, <2>3, <3>1 DEF GuardDue
    <2>4. CASE CooldownOver.acts = <<>>
        <3>1. CooldownOver.mode = mode
            BY <2>4, FewActions, AreActions DEF CooldownOver
        <3>2. UNCHANGED <<mode, db, lateOpen>>
            BY <1>6, <2>4, <3>1, <1>a DEF Tick
        <3>3. \A a \in Todo' : a.do # "writes"
            BY <2>1, <2>4 DEF Has, Todo
        <3> QED
            BY <1>c, <2>2, <3>2, <3>3 DEF InMap
    <2> QED
        BY <2>3, <2>4
<1>7. CASE SyncCompleted
    <2>1. InMap' <=> InMap
        BY <1>7, <1>a DEF SyncCompleted, InMap
    <2>2. CASE mode' = "idle"
        BY <1>7, <1>d, <2>2 DEF SyncCompleted, SyncAllows, InMap
    <2>3. CASE mode' # "idle"
        BY <1>7, <1>c, <2>1, <2>3, AsksFor DEF SyncCompleted, SyncAllows
    <2> QED
        BY <2>2, <2>3
<1>8. ASSUME NEW ok \in BOOLEAN, ReopenDatabase(ok)
      PROVE  GuardDue'
    <2>1. Ready /\ UNCHANGED <<mode, todo>> /\ todo' = <<>>
        BY <1>8 DEF ReopenDatabase, Ready
    <2>2. ok => db'.writes /\ (lateOpen' <=> InMap)
        BY <1>8 DEF ReopenDatabase
    <2>3. CASE ok
        BY <2>1, <2>2, <2>3, AsksFor DEF GuardDue, InMap
    <2>4. CASE ~ok
        BY <1>8, <1>e, <2>1, <2>4 DEF ReopenDatabase
    <2> QED
        BY <2>3, <2>4
<1>9. CASE SetStorageWritesAllowed
    <2>1. Head(todo) \in Todo /\ Head(todo).do = "writes" /\ Todo' \subseteq Todo
        BY <1>9, <1>a, Loop DEF SetStorageWritesAllowed, Doing
    <2>2. (Head(todo).on <=> ~InMap) /\ UNCHANGED mode
        BY <1>9, <2>1 DEF GuardDue, SetStorageWritesAllowed
    <2>3. db'.open => db'.writes = Head(todo).on
        BY <1>9, <1>a DEF SetStorageWritesAllowed
    <2> QED
        BY <2>1, <2>2, <2>3 DEF GuardDue, InMap
<1>10. CASE \/ StartSync \/ RefreshPublish \/ WriteAutoBackup
            \/ \E ok, okPeriod \in BOOLEAN : SaveTapStats(ok, okPeriod)
    <2>1. /\ todo # <<>> /\ todo' = Tail(todo) /\ Head(todo).do # "writes"
          /\ UNCHANGED <<mode, db, lateOpen>>
        BY <1>10 DEF StartSync, RefreshPublish, WriteAutoBackup, SaveTapStats, Doing
    <2> QED
        BY <2>1, <1>a, <1>c, Loop DEF InMap
<1>11. CASE RefreshRead
    <2>1. UNCHANGED <<mode, db, lateOpen>>
        BY <1>11 DEF RefreshRead
    <2> QED
        BY <1>11, <1>a, <1>c, <2>1, LoopReads DEF InMap
<1>12. CASE \/ \E replacement \in BOOLEAN : DeviceDisconnected(replacement)
            \/ PromptAnswered
            \/ SyncEnds
            \/ \E days \in Periods : SetPeriodStore(days)
            \/ SetPeriodPublish \/ CooldownTime \/ BackupTime \/ UNCHANGED vars
    <2>1. UNCHANGED <<mode, db, lateOpen, todo>>
        BY <1>12
           DEF DeviceDisconnected, PromptAnswered, SyncEnds, SetPeriodStore,
               SetPeriodPublish, CooldownTime, BackupTime, vars, timers
    <2> QED
        BY <2>1, <1>c DEF InMap, Todo
<1> QED
    BY <1>1, <1>2, <1>3, <1>4, <1>5, <1>6, <1>7, <1>8, <1>9, <1>10, <1>11, <1>12
       DEF Next, Action

(* SYNC waits for a sync that will come                                    *)
LEMMA SyncStep == TypeOK /\ SyncDue /\ [Next]_vars => SyncDue'
<1> SUFFICES ASSUME TypeOK, SyncDue, [Next]_vars PROVE SyncDue'
    OBVIOUS
<1>a. /\ todo \in Seq(Actions) /\ period \in Periods /\ waiting \in Nat /\ done \in Nat
      /\ mode \in {"idle", "playing", "cooldown", "sync"}
    BY DEF TypeOK
<1>b. ASSUME mode' = "sync" => mode = "sync", UNCHANGED <<waiting, done>>,
             Has(todo, "sync") => Has(todo', "sync")
      PROVE  SyncDue'
    BY <1>b DEF SyncDue
<1>c. ASSUME Ready, mode' = "sync" => mode = "sync", UNCHANGED <<waiting, done>>
      PROVE  SyncDue'
    BY <1>b, <1>c, AsksFor
<1>1. ASSUME NEW r \in BOOLEAN, Playing(r) \/ Failed(r) \/ NotPlaying(r)
      PROVE  SyncDue'
    BY <1>1, <1>c DEF Playing, Failed, NotPlaying
<1>2. ASSUME NEW up \in BOOLEAN, NEW r \in BOOLEAN, TosuConnectionChanged(up, r)
      PROVE  SyncDue'
    BY <1>2, <1>c DEF TosuConnectionChanged
<1>3. ASSUME NEW prompt \in BOOLEAN, DeviceConnected(prompt)
      PROVE  SyncDue'
    BY <1>3, <1>c DEF DeviceConnected
<1>4. ASSUME NEW periodic \in BOOLEAN, NEW due \in BOOLEAN, Tick(periodic, due)
      PROVE  SyncDue'
    <2>1. Ready /\ mode' = CooldownOver.mode /\ UNCHANGED <<waiting, done>>
        BY <1>4 DEF Tick
    <2>2. CASE CooldownOver.mode = mode
        BY <2>1, <2>2, <1>c
    <2>3. CASE CooldownOver.mode # mode
        <3>1. CooldownOver.mode = "sync" => CooldownOver.acts = <<Writes(TRUE), TriggerSync>>
            BY <2>3 DEF CooldownOver
        <3>a. Writes(TRUE) \in Actions /\ TriggerSync \in Actions
            BY AreActions
        <3>b. ToSet(<<Writes(TRUE), TriggerSync>>) = {Writes(TRUE), TriggerSync}
            BY <3>a, FewActions
        <3>2. CooldownOver.mode = "sync" => TriggerSync \in ToSet(CooldownOver.acts)
            BY <3>1, <3>b
        <3> QED
            BY <1>4, <2>1, <3>2, TickMakes DEF SyncDue
    <2> QED
        BY <2>2, <2>3
<1>5. CASE SyncCompleted
    <2>1. mode' # "sync"
        BY <1>5 DEF SyncCompleted
    <2> QED
        BY <2>1 DEF SyncDue
<1>6. ASSUME NEW ok \in BOOLEAN, ReopenDatabase(ok)
      PROVE  SyncDue'
    BY <1>6, <1>c DEF ReopenDatabase
<1>7. CASE StartSync
    <2>1. waiting' > 0
        BY <1>7, <1>a DEF StartSync
    <2> QED
        BY <2>1 DEF SyncDue
<1>8. CASE \/ SetStorageWritesAllowed \/ RefreshPublish \/ WriteAutoBackup
           \/ \E ok, okPeriod \in BOOLEAN : SaveTapStats(ok, okPeriod)
    <2>1. /\ todo # <<>> /\ todo' = Tail(todo) /\ Head(todo).do # "sync"
          /\ UNCHANGED <<mode, waiting, done>>
        BY <1>8 DEF SetStorageWritesAllowed, RefreshPublish, WriteAutoBackup, SaveTapStats, Doing
    <2> QED
        BY <2>1, <1>a, <1>b, Loop
<1>9. CASE RefreshRead
    <2>1. UNCHANGED <<mode, waiting, done>>
        BY <1>9 DEF RefreshRead
    <2> QED
        BY <1>9, <1>a, <1>b, <2>1, LoopReads
<1>10. CASE SyncEnds
    <2>1. done' > 0
        BY <1>10, <1>a DEF SyncEnds
    <2> QED
        BY <2>1 DEF SyncDue
<1>11. CASE \/ \E replacement \in BOOLEAN : DeviceDisconnected(replacement)
            \/ PromptAnswered
            \/ \E days \in Periods : SetPeriodStore(days)
            \/ SetPeriodPublish \/ CooldownTime \/ BackupTime \/ UNCHANGED vars
    <2>1. UNCHANGED <<mode, waiting, done, todo>>
        BY <1>11
           DEF DeviceDisconnected, PromptAnswered, SetPeriodStore,
               SetPeriodPublish, CooldownTime, BackupTime, vars, timers
    <2> QED
        BY <2>1, <1>b DEF Has
<1> QED
    BY <1>1, <1>2, <1>3, <1>4, <1>5, <1>6, <1>7, <1>8, <1>9, <1>10, <1>11 DEF Next, Action

(* No step uses up more backups than it earns                              *)
LEMMA BackupStep == TypeOK /\ BackupsOwed /\ [Next]_vars => BackupsOwed'
<1> SUFFICES ASSUME TypeOK, BackupsOwed, [Next]_vars PROVE BackupsOwed'
    OBVIOUS
<1>a. /\ todo \in Seq(Actions) /\ period \in Periods /\ session \in Nat /\ backups \in Nat
      /\ armBackup \in BOOLEAN
    BY DEF TypeOK
<1>b. (\A p : One(p) \in {0, 1} /\ (One(p) = 1 <=> p))
    BY DEF One
<1>c. ASSUME Once(todo', "backup"), Has(todo', "backup") => Has(todo, "backup") /\ UNCHANGED mode,
             armBackup' => armBackup, backup' # "off" => backup # "off", UNCHANGED <<session, backups>>
      PROVE  BackupsOwed'
    BY <1>a, <1>c DEF BackupsOwed, One
<1>d. ASSUME Once(todo', "backup"), ~Has(todo', "backup"),
             armBackup' => armBackup, backup' # "off" => backup # "off", UNCHANGED <<session, backups>>
      PROVE  BackupsOwed'
    BY <1>c, <1>d
<1>1. ASSUME NEW r \in BOOLEAN, Playing(r) \/ Failed(r) \/ NotPlaying(r)
      PROVE  BackupsOwed'
    <2>1. todo' = <<>> \/ todo' = <<Writes(FALSE)>>
        BY <1>1 DEF Playing, Failed, NotPlaying, Ready
    <2>2. armBackup' => armBackup
        BY <1>1 DEF Playing, Failed, NotPlaying, timers
    <2>3. (backup' # "off" => backup # "off") /\ UNCHANGED <<session, backups>>
        BY <1>1 DEF Playing, Failed, NotPlaying, timers
    <2> QED
        BY <2>1, <2>2, <2>3, <1>d, AsksFor
<1>2. ASSUME NEW up \in BOOLEAN, NEW r \in BOOLEAN, TosuConnectionChanged(up, r)
      PROVE  BackupsOwed'
    <2>1. todo' = <<>> \/ todo' = <<Writes(FALSE)>>
        BY <1>2 DEF TosuConnectionChanged, Ready
    <2> QED
        BY <1>2, <2>1, <1>d, AsksFor DEF TosuConnectionChanged
<1>3. ASSUME NEW prompt \in BOOLEAN, DeviceConnected(prompt)
      PROVE  BackupsOwed'
    BY <1>3, <1>d, AsksFor DEF DeviceConnected, timers
<1>4. ASSUME NEW periodic \in BOOLEAN, NEW due \in BOOLEAN, Tick(periodic, due)
      PROVE  BackupsOwed'
    <2>1. Once(todo', "backup") /\ (Has(todo', "backup") <=> BackupDue)
        BY <1>4, TickMakes
    <2>2. /\ BackupDue => backup = "over" /\ backup' = "off" /\ mode' = "idle"
          /\ backup' # "off" => backup # "off"
          /\ UNCHANGED backups /\ session' \in {session, session + 1}
        BY <1>4, <1>a DEF Tick, BackupDue
    <2>3. armBackup' => armBackup \/ session' = session + 1
        BY <1>4, AreActions, FewActions DEF Tick, CooldownOver
    <2>4. ~Has(todo, "backup")
        BY <1>4, AsksFor DEF Tick
    <2> QED
        BY <1>a, <2>1, <2>2, <2>3, <2>4 DEF BackupsOwed, One
<1>5. CASE SyncCompleted
    <2>1. todo' = <<>> \/ todo' = <<Writes(TRUE)>>
        BY <1>5 DEF SyncCompleted, SyncAllows
    <2>2. /\ ~armBackup'
          /\ backup' # "off" => backup # "off" \/ armBackup
          /\ UNCHANGED <<session, backups>>
        BY <1>5 DEF SyncCompleted, SyncArms
    <2>3. Once(todo', "backup") /\ ~Has(todo', "backup") /\ ~Has(todo, "backup")
        BY <1>5, <2>1, AsksFor DEF SyncCompleted
    <2>4. One(armBackup') + One(backup' # "off") <= One(armBackup) + One(backup # "off")
        BY <2>2 DEF One
    <2>5. One(armBackup') \in Nat /\ One(backup' # "off") \in Nat
          /\ One(armBackup) \in Nat /\ One(backup # "off") \in Nat
        BY DEF One
    <2>6. One(Has(todo, "backup")) = 0 /\ One(Has(todo', "backup")) = 0
        BY <2>3 DEF One
    <2> QED
        BY <1>a, <2>2, <2>3, <2>4, <2>5, <2>6 DEF BackupsOwed
<1>6. ASSUME NEW ok \in BOOLEAN, NEW okPeriod \in BOOLEAN, SaveTapStats(ok, okPeriod)
      PROVE  BackupsOwed'
    BY <1>6, <1>a, <1>c, Loop DEF SaveTapStats, Doing, timers, BackupsOwed
<1>7. CASE SetStorageWritesAllowed \/ StartSync \/ RefreshPublish
    <2>1. /\ todo # <<>> /\ todo' = Tail(todo)
          /\ UNCHANGED <<mode, armBackup, backup, session, backups>>
        BY <1>7 DEF SetStorageWritesAllowed, StartSync, RefreshPublish, Doing, timers
    <2> QED
        BY <2>1, <1>a, <1>c, Loop DEF BackupsOwed
<1>8. CASE RefreshRead
    <2>1. UNCHANGED <<mode, armBackup, backup, session, backups>>
        BY <1>8 DEF RefreshRead, timers
    <2> QED
        BY <1>8, <1>a, <1>c, <2>1, LoopReads DEF BackupsOwed
<1>9. CASE WriteAutoBackup
    <2>1. /\ Has(todo, "backup") /\ Once(todo', "backup") /\ ~Has(todo', "backup")
        BY <1>9, <1>a, Loop DEF WriteAutoBackup, Doing, BackupsOwed
    <2>2. backups' = backups + 1 /\ UNCHANGED <<armBackup, backup, session>>
        BY <1>9 DEF WriteAutoBackup, timers
    <2> QED
        BY <1>a, <2>1, <2>2 DEF BackupsOwed, One
<1>10. CASE BackupTime
    <2>1. backup # "off" /\ UNCHANGED <<mode, armBackup, todo, session, backups>>
        BY <1>10 DEF BackupTime
    <2> QED
        BY <2>1, <1>c DEF BackupsOwed, Has, Once
<1>11. CASE \/ \E replacement \in BOOLEAN : DeviceDisconnected(replacement)
            \/ PromptAnswered \/ SyncEnds
            \/ \E ok \in BOOLEAN : ReopenDatabase(ok)
            \/ \E days \in Periods : SetPeriodStore(days)
            \/ SetPeriodPublish \/ CooldownTime \/ UNCHANGED vars
    <2>1. UNCHANGED <<mode, armBackup, backup, todo, session, backups>>
        BY <1>11
           DEF DeviceDisconnected, PromptAnswered, SyncEnds, ReopenDatabase, SetPeriodStore,
               SetPeriodPublish, CooldownTime, vars, timers
    <2> QED
        BY <2>1, <1>c DEF BackupsOwed, Has, Once
<1> QED
    BY <1>1, <1>2, <1>3, <1>4, <1>5, <1>6, <1>7, <1>8, <1>9, <1>10, <1>11 DEF Next, Action

-----------------------------------------------------------------------------
(* Theorems                                                                *)

(* The invariant holds in every behaviour                                  *)
THEOREM Invariant == Spec => []IInv
<1>1. Init => IInv
    BY InitIInv
<1>2. IInv /\ [Next]_vars => IInv'
    BY TypeStep, NumberedStep, OneSaveStep, GuardStep, SyncStep, BackupStep DEF IInv
<1> QED
    BY <1>1, <1>2, PTL DEF Spec

(* Every variable stays in its range, whatever maps, disconnects, failed   *)
(* saves and syncs do                                                      *)
THEOREM TypeCorrect == Spec => []TypeOK
BY Invariant, PTL DEF IInv

(* SQLite refuses writes exactly in PLAYING and COOLDOWN once the event    *)
(* that moved the mode is handled                                          *)
THEOREM GuardFollows == Spec => []GuardFollowsMode
<1>1. IInv => GuardFollowsMode
    BY AsksFor DEF IInv, GuardDue, GuardFollowsMode
<1> QED
    BY <1>1, Invariant, PTL

(* SYNC mode always has the sync that will end it                          *)
THEOREM SyncIsDue == Spec => []SyncModeHasSync
<1>1. IInv => SyncModeHasSync
    <2> SUFFICES ASSUME IInv PROVE SyncModeHasSync
        OBVIOUS
    <2>1. todo \in Seq(Actions)
        BY DEF IInv, TypeOK
    <2>2. \A a \in ToSet(todo) : a \in Actions
        BY <2>1, ElementOfSeq, LenProperties DEF ToSet
    <2>3. \A a \in ToSet(todo) : a.do = "sync" => a = TriggerSync
        BY <2>2, ActionFields DEF Fields
    <2> QED
        BY <2>3 DEF IInv, SyncDue, SyncModeHasSync, Has
<1> QED
    BY <1>1, Invariant, PTL

(* An automatic backup is written in IDLE, and at most one for each play   *)
(* session that settled                                                    *)
THEOREM BackupsArePaid == Spec => []BackupsFollowPlays
<1>1. IInv => BackupsFollowPlays
    <2> SUFFICES ASSUME IInv PROVE BackupsFollowPlays
        OBVIOUS
    <2>1. todo \in Seq(Actions) /\ session \in Nat /\ backups \in Nat
        BY DEF IInv, TypeOK
    <2>2. Doing("backup") => Has(todo, "backup")
        BY <2>1, TakeFirst DEF Doing, Has
    <2> QED
        BY <2>1, <2>2 DEF IInv, BackupsOwed, BackupsFollowPlays, One
<1> QED
    BY <1>1, Invariant, PTL

-----------------------------------------------------------------------------
(* The queue of unsaved attempts implements AttemptLog                     *)

Kept == InFlight \o unsaved

(* The attempts kept are in the queue or in the one save, never in both    *)
InOnePlace ==
    /\ ~Has(todo, "save") => InFlight = <<>> /\ Kept = unsaved
    /\ \A a \in Todo : a.do = "save" =>
          /\ InFlight = a.attempts /\ Kept = a.attempts /\ unsaved = <<>>
          /\ a.attempts \in Seq(Nat) /\ Len(a.attempts) <= Cap

(* With one save at most, an attempt kept is in one place                  *)
LEMMA KeptIs == IInv => InOnePlace
<1> SUFFICES ASSUME IInv PROVE InOnePlace
    OBVIOUS
<1>1. /\ unsaved \in Seq(Nat) /\ saved \in Seq(Nat) /\ Len(unsaved) <= Cap
      /\ todo \in Seq(Actions) /\ Once(todo, "save")
      /\ Has(todo, "save") => unsaved = <<>>
    BY DEF IInv, TypeOK, OneSave
<1>2. ~Has(todo, "save") => InFlight = <<>>
    BY <1>1, OnItsWay DEF InFlight
<1>3. ~Has(todo, "save") => Kept = unsaved
    BY <1>1, <1>2, ConcatEmptySeq DEF Kept
<1>4. ASSUME NEW a \in Todo, a.do = "save"
      PROVE  /\ InFlight = a.attempts /\ Kept = a.attempts /\ unsaved = <<>>
             /\ a.attempts \in Seq(Nat) /\ Len(a.attempts) <= Cap
    <2>1. InFlight = a.attempts
        BY <1>1, <1>4, OnItsWay DEF InFlight, Todo
    <2>2. unsaved = <<>>
        BY <1>1, <1>4 DEF Has, Todo
    <2>3. a \in Actions
        BY <1>1, <1>4, ElementOfSeq, LenProperties DEF Todo, ToSet
    <2>4. a.attempts \in Seq(Nat) /\ Len(a.attempts) <= Cap
        BY <1>4, <2>3, ActionFields DEF Fields, IInv, Numbered
    <2> QED
        BY <2>1, <2>2, <2>4, ConcatEmptySeq DEF Kept
<1> QED
    BY <1>2, <1>3, <1>4 DEF InOnePlace

(* ... and so it is after a step                                           *)
LEMMA KeptIsNext == IInv' => InOnePlace'
BY KeptIs, PTL

(* cap_unsaved after one attempt drops the oldest of Cap                   *)
LEMMA CappedAppend ==
    ASSUME NEW s \in Seq(Nat), NEW a \in Nat, Len(s) <= Cap
    PROVE  Capped(Append(s, a)) = IF Len(s) < Cap THEN Append(s, a) ELSE Append(Tail(s), a)
<1>1. /\ Append(s, a) \in Seq(Nat) /\ Len(Append(s, a)) = Len(s) + 1 /\ Len(s) \in Nat
      /\ \A i \in 1..Len(s) : Append(s, a)[i] = s[i]
      /\ Append(s, a)[Len(s) + 1] = a
    BY AppendProperties, LenProperties
<1>2. CASE Len(s) < Cap
    BY <1>1, <1>2, CapAssumption DEF Capped
<1>3. CASE Len(s) = Cap
    <2>1. Capped(Append(s, a)) = SubSeq(Append(s, a), 2, Cap + 1)
        BY <1>1, <1>3, CapAssumption DEF Capped
    <2>2. s # <<>>
        BY <1>3, CapAssumption, EmptySeq
    <2>3. /\ Tail(s) \in Seq(Nat) /\ Len(Tail(s)) = Cap - 1
          /\ \A i \in 1..Len(Tail(s)) : Tail(s)[i] = s[i + 1]
        BY <1>3, <2>2, HeadTailProperties
    <2>4. /\ Append(Tail(s), a) \in Seq(Nat) /\ Len(Append(Tail(s), a)) = Cap
          /\ \A i \in 1..(Cap - 1) : Append(Tail(s), a)[i] = s[i + 1]
          /\ Append(Tail(s), a)[Cap] = a
        BY <2>3, AppendProperties, CapAssumption
    <2>5. /\ SubSeq(Append(s, a), 2, Cap + 1) \in Seq(Nat)
          /\ Len(SubSeq(Append(s, a), 2, Cap + 1)) = Cap
          /\ \A i \in 1..Cap : SubSeq(Append(s, a), 2, Cap + 1)[i] = Append(s, a)[i + 1]
        <3> DEFINE t == Append(s, a)
                   n == Cap + 1
        <3>1. n \in Int /\ 2 <= n /\ n - 2 + 1 = Cap /\ \A i \in 1..Cap : 2 + i - 1 = i + 1
            BY CapAssumption
        <3>2. \A i \in 2..n : t[i] \in Nat
            BY <1>1, <1>3, ElementOfSeq, CapAssumption
        <3> HIDE DEF t, n
        <3>3. /\ SubSeq(t, 2, n) \in Seq(Nat) /\ Len(SubSeq(t, 2, n)) = n - 2 + 1
              /\ \A i \in 1..(n - 2 + 1) : SubSeq(t, 2, n)[i] = t[2 + i - 1]
            BY <3>1, <3>2, SubSeqProperties
        <3> QED
            BY <3>1, <3>3 DEF t, n
    <2>6. \A i \in 1..Cap : Append(s, a)[i + 1] = Append(Tail(s), a)[i]
        BY <1>1, <1>3, <2>4, CapAssumption
    <2>7. SubSeq(Append(s, a), 2, Cap + 1) = Append(Tail(s), a)
        BY <2>4, <2>5, <2>6, SeqEqual
    <2> QED
        BY <1>3, <2>1, <2>7, CapAssumption
<1> QED
    BY <1>1, <1>2, <1>3, CapAssumption

(* An attempt that ends is End, or nothing                                 *)
LEMMA EndsOne ==
    ASSUME IInv, Ready, NEW r \in BOOLEAN, Finish(r), UNCHANGED saved, Kept' = unsaved'
    PROVE  (\E a \in 1..MaxAttempts : Log!End(a)) \/ UNCHANGED <<Kept, saved>>
<1>1. Kept = unsaved /\ unsaved \in Seq(Nat) /\ Len(unsaved) <= Cap /\ saved \in Seq(Nat)
    BY KeptIs, AsksFor DEF InOnePlace, IInv, TypeOK
<1>2. CASE attempt # 0 /\ r
    <2>1. /\ attempt = Started /\ Played = Started - 1 /\ Started \in 1..MaxAttempts
          /\ Older(unsaved) /\ Older(saved)
        BY <1>2, BoundsAssumption DEF IInv, TypeOK, Numbered, Started, Played
    <2>2. /\ \A i \in 1..Len(unsaved) : unsaved[i] < attempt
          /\ \A i \in 1..Len(saved) : saved[i] < attempt
        <3>1. /\ \A i \in 1..Len(unsaved) : unsaved[i] \in Nat /\ unsaved[i] <= Played
              /\ \A i \in 1..Len(saved) : saved[i] \in Nat /\ saved[i] <= Played
            BY <1>1, <2>1, ElementOfSeq DEF Older
        <3> QED
            BY <2>1, <3>1, BoundsAssumption
    <2>3. unsaved' = IF Len(unsaved) < Cap THEN Append(unsaved, attempt) ELSE Append(Tail(unsaved), attempt)
        BY <1>1, <1>2, <2>1, CappedAppend, BoundsAssumption DEF Finish
    <2>4. Log!End(attempt)
        BY <1>1, <2>2, <2>3 DEF Log!End, Kept
    <2> QED
        BY <2>1, <2>4
<1>3. CASE ~(attempt # 0 /\ r)
    BY <1>1, <1>3 DEF Finish
<1> QED
    BY <1>2, <1>3

(* A step of the daemon is a step of the log, or none                      *)
LEMMA LogStep == IInv /\ IInv' /\ [Next]_vars => Log!Next \/ UNCHANGED <<Kept, saved>>
<1> SUFFICES ASSUME IInv, IInv', [Next]_vars
             PROVE  Log!Next \/ UNCHANGED <<Kept, saved>>
    OBVIOUS
<1>a. /\ InOnePlace /\ InOnePlace' /\ TypeOK
      /\ todo \in Seq(Actions) /\ period \in Periods /\ Once(todo, "save")
      /\ unsaved \in Seq(Nat) /\ saved \in Seq(Nat) /\ Len(unsaved) <= Cap
    BY KeptIs, KeptIsNext DEF IInv, TypeOK, OneSave
<1>b. ASSUME ~Has(todo, "save"), ~Has(todo', "save"), UNCHANGED <<unsaved, saved>>
      PROVE  UNCHANGED <<Kept, saved>>
    BY <1>a, <1>b DEF InOnePlace
<1>c. ASSUME Ready, ~Has(todo', "save"), UNCHANGED <<unsaved, saved>>
      PROVE  UNCHANGED <<Kept, saved>>
    BY <1>b, <1>c, AsksFor
<1>d. ASSUME Ready, ~Has(todo', "save"), NEW r \in BOOLEAN, Finish(r), UNCHANGED saved
      PROVE  Log!Next \/ UNCHANGED <<Kept, saved>>
    <2>1. Kept' = unsaved'
        BY <1>a, <1>d DEF InOnePlace
    <2> QED
        BY <1>d, <2>1, EndsOne DEF Log!Next
<1>e. ASSUME \A a \in Todo' : a \in Todo \/ a.do # "save", Has(todo, "save") => Has(todo', "save"),
             UNCHANGED <<unsaved, saved>>
      PROVE  UNCHANGED <<Kept, saved>>
    <2>1. CASE Has(todo', "save")
        BY <1>a, <1>e, <2>1 DEF InOnePlace, Has, Todo
    <2>2. CASE ~Has(todo', "save")
        BY <1>b, <1>e, <2>2
    <2> QED
        BY <2>1, <2>2
<1>1. ASSUME NEW r \in BOOLEAN, Playing(r) \/ Failed(r) \/ NotPlaying(r)
      PROVE  Log!Next \/ UNCHANGED <<Kept, saved>>
    <2>1. /\ Ready /\ (todo' = <<>> \/ todo' = <<Writes(FALSE)>>)
          /\ Finish(r) /\ UNCHANGED saved
        BY <1>1 DEF Playing, Failed, NotPlaying, Ready, Start
    <2> QED
        BY <2>1, <1>d, AsksFor
<1>2. ASSUME NEW up \in BOOLEAN, NEW r \in BOOLEAN, TosuConnectionChanged(up, r)
      PROVE  Log!Next \/ UNCHANGED <<Kept, saved>>
    <2>1. /\ Ready /\ (todo' = <<>> \/ todo' = <<Writes(FALSE)>>)
          /\ Finish(r) \/ UNCHANGED unsaved
          /\ UNCHANGED saved
        BY <1>2 DEF TosuConnectionChanged, Ready
    <2>2. ~Has(todo', "save")
        BY <2>1, AsksFor
    <2> QED
        BY <2>1, <2>2, <1>c, <1>d
<1>3. ASSUME NEW prompt \in BOOLEAN, DeviceConnected(prompt)
      PROVE  UNCHANGED <<Kept, saved>>
    <2>1. ~Has(todo', "save")
        BY <1>3, AsksFor DEF DeviceConnected
    <2> QED
        BY <1>3, <1>c, <2>1 DEF DeviceConnected, play
<1>4. ASSUME NEW periodic \in BOOLEAN, NEW due \in BOOLEAN, Tick(periodic, due)
      PROVE  UNCHANGED <<Kept, saved>>
    <2>1. Ready /\ UNCHANGED saved /\ (~SaveDue => UNCHANGED unsaved)
        BY <1>4 DEF Tick, TakeUnsaved
    <2>2. CASE SaveDue
        <3>1. PICK a \in Todo' : a.do = "save"
            BY <1>4, <1>a, <2>2, TickMakes DEF Has, Todo
        <3>2. Save.attempts = unsaved
            BY DEF Save
        <3>3. a.attempts = unsaved
            BY <1>4, <1>a, <3>1, <3>2, TickMakes
        <3> QED
            BY <1>a, <2>1, <3>1, <3>3, AsksFor DEF InOnePlace
    <2>3. CASE ~SaveDue
        <3>1. ~Has(todo', "save")
            BY <1>4, <1>a, <2>3, TickMakes
        <3> QED
            BY <1>c, <2>1, <2>3, <3>1
    <2> QED
        BY <2>2, <2>3
<1>5. CASE SyncCompleted
    <2>1. ~Has(todo', "save") /\ Ready /\ UNCHANGED <<unsaved, saved>>
        BY <1>5, AsksFor DEF SyncCompleted, SyncAllows, play
    <2> QED
        BY <1>c, <2>1
<1>6. ASSUME NEW ok \in BOOLEAN, NEW okPeriod \in BOOLEAN, SaveTapStats(ok, okPeriod)
      PROVE  Log!Next \/ UNCHANGED <<Kept, saved>>
    <2> DEFINE s == Head(todo).attempts
    <2>1. Head(todo) \in Todo /\ Head(todo).do = "save" /\ ~Has(todo', "save")
        BY <1>6, <1>a, Loop DEF SaveTapStats, Doing
    <2>2. Kept = s /\ unsaved = <<>> /\ s \in Seq(Nat) /\ Len(s) <= Cap
        BY <1>a, <2>1 DEF InOnePlace
    <2>3. Kept' = unsaved'
        BY <1>a, <2>1 DEF InOnePlace
    <2>4. /\ ok => unsaved' = unsaved /\ saved' = saved \o s
          /\ ~ok => unsaved' = Capped(s \o unsaved) /\ saved' = saved
        BY <1>6 DEF SaveTapStats, Requeue
    <2> HIDE DEF s
    <2>5. s \o <<>> = s /\ Capped(s) = s /\ saved \o <<>> = saved
        BY <1>a, <2>2, ConcatEmptySeq, CappedTail
    <2>6. CASE ~ok
        BY <2>2, <2>3, <2>4, <2>5, <2>6
    <2>7. CASE ok /\ s = <<>>
        BY <2>2, <2>3, <2>4, <2>5, <2>7
    <2>8. CASE ok /\ s # <<>>
        <3>1. Len(s) \in Nat /\ Len(s) \in 1..Len(s)
            BY <2>2, <2>8, EmptySeq
        <3>2. SubSeq(s, 1, Len(s)) = s /\ SubSeq(s, Len(s) + 1, Len(s)) = <<>>
            BY <2>2, <3>1, SubSeqFull, SubSeqEmpty
        <3>3. saved' = saved \o SubSeq(Kept, 1, Len(s)) /\ Kept' = SubSeq(Kept, Len(s) + 1, Len(Kept))
            BY <2>2, <2>3, <2>4, <2>8, <3>2
        <3>4. Log!Save(Len(s))
            BY <3>3 DEF Log!Save, Kept
        <3> QED
            BY <2>2, <3>1, <3>4 DEF Log!Next, Kept
    <2> QED
        BY <2>6, <2>7, <2>8
<1>7. CASE SetStorageWritesAllowed \/ StartSync \/ RefreshPublish \/ WriteAutoBackup
    <2>1. /\ todo # <<>> /\ todo' = Tail(todo) /\ Head(todo).do # "save"
          /\ UNCHANGED <<unsaved, saved>>
        BY <1>7 DEF SetStorageWritesAllowed, StartSync, RefreshPublish, WriteAutoBackup, Doing, play
    <2> QED
        BY <2>1, <1>a, <1>e, Loop
<1>8. CASE RefreshRead
    <2>1. UNCHANGED <<unsaved, saved>>
        BY <1>8 DEF RefreshRead, play
    <2> QED
        BY <1>8, <1>a, <1>e, <2>1, LoopReads
<1>9. CASE \/ \E replacement \in BOOLEAN : DeviceDisconnected(replacement)
           \/ PromptAnswered
           \/ \E ok \in BOOLEAN : ReopenDatabase(ok)
           \/ SyncEnds
           \/ \E days \in Periods : SetPeriodStore(days)
           \/ SetPeriodPublish \/ CooldownTime \/ BackupTime \/ UNCHANGED vars
    <2>1. UNCHANGED <<unsaved, saved, todo>>
        BY <1>9
           DEF DeviceDisconnected, PromptAnswered, ReopenDatabase, SyncEnds, SetPeriodStore,
               SetPeriodPublish, CooldownTime, BackupTime, vars, play
    <2> QED
        BY <2>1 DEF Kept, InFlight
<1> QED
    BY <1>1, <1>2, <1>3, <1>4, <1>5, <1>6, <1>7, <1>8, <1>9 DEF Next, Action, Log!Next

(* What the loop does to the attempts AttemptLog allows: they reach        *)
(* SQLite in the order they were played, each once, and one is lost only   *)
(* when Cap newer ones wait                                                *)
THEOREM ImplementsLog == Spec => LogSpec
<1>1. Init => Log!Init
    <2> SUFFICES ASSUME Init PROVE Log!Init
        OBVIOUS
    <2>1. ~Has(todo, "save") /\ unsaved = <<>> /\ saved = <<>>
        BY FewActions DEF Init, Has
    <2>2. Kept = <<>>
        BY <2>1, InitIInv, KeptIs DEF InOnePlace
    <2> QED
        BY <2>1, <2>2 DEF Log!Init, Kept
<1>2. IInv /\ IInv' /\ [Next]_vars => [Log!Next]_<<InFlight \o unsaved, saved>>
    BY LogStep DEF Kept
<1> QED
    BY <1>1, <1>2, Invariant, PTL DEF Spec, LogSpec, Log!Spec
====
