-------------------------- MODULE ConfigStoreProofs --------------------------
(***************************************************************************)
(* Theorems about module ConfigStore: for any settings, any number of      *)
(* saves, restarts and power failures, whatever the flash holds at first.  *)
(***************************************************************************)
EXTENDS ConfigStore, SequenceTheorems, TLAPS

(* What the tasks can have to do, and where that is. *)
MainTodos ==
  {<<>>, <<"run">>, <<"rename", "run">>, <<"close", "rename", "run">>,
   <<"print", "close", "rename", "run">>, <<"open", "print", "close", "rename", "run">>,
   <<"retire", "open", "print", "close", "rename", "run">>,
   <<"oldpass", "retire", "open", "print", "close", "rename", "run">>}
HttpdTodos ==
  {<<>>, <<"ok">>, <<"rename", "ok">>, <<"close", "rename", "ok">>,
   <<"print", "close", "rename", "ok">>, <<"open", "print", "close", "rename", "ok">>,
   <<"pass", "open", "print", "close", "rename", "ok">>,
   <<"update", "pass", "open", "print", "close", "rename", "ok">>}
TimerTodos ==
  {<<>>, <<"rename">>, <<"close", "rename">>, <<"print", "close", "rename">>,
   <<"open", "print", "close", "rename">>, <<"pass", "open", "print", "close", "rename">>,
   <<"update", "pass", "open", "print", "close", "rename">>,
   <<"restart">>, <<"remove", "restart">>, <<"erase", "remove", "restart">>}
Todos(t) == IF t = "main" THEN MainTodos ELSE IF t = "httpd" THEN HttpdTodos ELSE TimerTodos

Where(x) == IF x = <<>> THEN "idle" ELSE Head(x)
At(steps) == [t \in Tasks |-> Where(steps[t])]
WhereSaving == {"oldpass", "retire", "update", "pass", "open", "print", "close", "rename"}

Sane(c) == c \in Configs /\ (c.section \/ EconetOf(c) = <<None, None>>)
Files == [kind : {"none", "empty", "text"}, cfg : Configs]

Typed ==
  /\ file \in Files /\ Sane(file.cfg) /\ tmp \in Files /\ Sane(tmp.cfg)
  /\ file.kind = "none" <=> file = NoFile
  /\ tmp.kind = "none" <=> tmp = NoFile
  /\ oldFile \in Members
  /\ nvs \in [pass : Members, old : [ssid : Members, pass : Members, clock : Members]]
  /\ Sane(g) /\ wifi \in [ssid : Values \cup {0}, pass : Values \cup {0}]
  /\ snap \in [Tasks -> Configs] /\ \A t \in Tasks : Sane(snap[t])
  /\ open \subseteq Tasks
  /\ wifiTimer \in BOOLEAN /\ resetTimer \in BOOLEAN /\ booted \in BOOLEAN
  /\ excused \in BOOLEAN /\ reset \in {"no", "going", "done"}
  /\ DOMAIN todo = Tasks /\ \A t \in Tasks : todo[t] \in Todos(t)

(* Who is at work: start-up alone, then the other two. *)
Turns ==
  /\ booted => At(todo)["main"] = "idle"
  /\ ~booted => At(todo)["httpd"] = "idle" /\ At(todo)["timer"] = "idle" /\ ~wifiTimer /\ ~resetTimer
  /\ \A t \in open : At(todo)[t] = "print" \/ At(todo)[t] = "close"

(* An empty temporary file is one that is being written, or was when the   *)
(* power failed.                                                            *)
Whole ==
  /\ file.kind # "empty"
  /\ tmp.kind = "empty" => \/ open # {}
                           \/ \A t \in Tasks : At(todo)[t] # "rename"

(* What the tasks at work have, as long as they save one at a time. *)
Running == booted \/ At(todo)["main"] # "idle"
Calm == ~excused \/ ~booted
Saved ==
  /\ Running /\ At(todo)["httpd"] = "idle" => asked = asking
  /\ Calm /\ Running =>
        /\ EconetOf(g) = asking
        /\ \A t \in Tasks : At(todo)[t] = "close" => EconetOf(snap[t]) = asking
        /\ \A t \in Tasks : At(todo)[t] = "rename" =>
              EconetOf(tmp.cfg) = asking /\ tmp # NoFile /\ open = {}
  /\ ~excused =>
        /\ EconetOf(file.cfg) \in {asked, asking}
        /\ At(todo)["httpd"] = "ok" => EconetOf(file.cfg) = asking
        /\ ~(At(todo)["httpd"] \in WhereSaving /\ At(todo)["timer"] \in WhereSaving)
  /\ At(todo)["main"] # "idle" =>
        /\ file = NoFile \/ EconetOf(file.cfg) = asking
        /\ At(todo)["main"] \in WhereSaving => file = NoFile /\ excused

(* The old format is gone once it was read ... *)
Retired ==
  /\ file # NoFile \/ booted => oldFile = None
  /\ At(todo)["main"] \in {"open", "print", "close", "rename", "run"} => oldFile = None

(* ... and nothing is left after a reset. *)
Blanked(c) == EconetOf(c) = <<None, None>> /\ c.ssid = None
Forgotten ==
  /\ reset # "no" => nvs = Nvs(None, NoBlobs) /\ oldFile = None /\ At(todo)["httpd"] = "idle"
  /\ reset = "going" => /\ booted
                        /\ At(todo)["timer"] = "remove" \/ At(todo)["timer"] = "restart"
                        /\ At(todo)["timer"] = "restart" => file = NoFile
  /\ reset = "done" => /\ Blanked(file.cfg) /\ Blanked(g) /\ wifi = Default /\ ~wifiTimer
                       /\ At(todo)["timer"] = "idle" \/ At(todo)["timer"] = "erase"
                       /\ At(todo)["main"] = "close" => Blanked(snap["main"])
                       /\ At(todo)["main"] = "rename" => Blanked(tmp.cfg)

ConfigInv == Typed /\ Turns /\ Whole /\ Saved /\ Retired /\ Forgotten

-----------------------------------------------------------------------------
(* Steps. *)

MainNext(w) ==
  CASE w = "oldpass" -> "retire" [] w = "retire" -> "open" [] w = "open" -> "print"
    [] w = "print" -> "close" [] w = "close" -> "rename" [] w = "rename" -> "run"
    [] OTHER -> "idle"
HttpdNext(w) ==
  CASE w = "update" -> "pass" [] w = "pass" -> "open" [] w = "open" -> "print"
    [] w = "print" -> "close" [] w = "close" -> "rename" [] w = "rename" -> "ok"
    [] OTHER -> "idle"
TimerNext(w) ==
  CASE w = "update" -> "pass" [] w = "pass" -> "open" [] w = "open" -> "print"
    [] w = "print" -> "close" [] w = "close" -> "rename"
    [] w = "erase" -> "remove" [] w = "remove" -> "restart"
    [] OTHER -> "idle"
NextWhere(t, w) ==
  IF t = "main" THEN MainNext(w) ELSE IF t = "httpd" THEN HttpdNext(w) ELSE TimerNext(w)

LEMMA MainSteps ==
  ASSUME NEW x \in MainTodos, x # <<>>
  PROVE  /\ Tail(x) \in MainTodos /\ Where(Tail(x)) = MainNext(Head(x))
         /\ Head(x) \in {"oldpass", "retire", "open", "print", "close", "rename", "run"}
         /\ Head(x) \in WhereSaving => \E i \in DOMAIN x : x[i] = "rename"
<1>1. CASE x = <<"oldpass", "retire", "open", "print", "close", "rename", "run">>
  <2>1. Tail(x) = <<"retire", "open", "print", "close", "rename", "run">> /\ Head(x) = "oldpass"
    BY <1>1
  <2>2. Where(<<"retire", "open", "print", "close", "rename", "run">>) = "retire"
    BY DEF Where
  <2>3. 6 \in DOMAIN x /\ x[6] = "rename"
    BY <1>1
  <2> QED
    BY <2>1, <2>2, <2>3 DEF MainTodos, MainNext
<1>2. CASE x = <<"retire", "open", "print", "close", "rename", "run">>
  <2>1. Tail(x) = <<"open", "print", "close", "rename", "run">> /\ Head(x) = "retire"
    BY <1>2
  <2>2. Where(<<"open", "print", "close", "rename", "run">>) = "open"
    BY DEF Where
  <2>3. 5 \in DOMAIN x /\ x[5] = "rename"
    BY <1>2
  <2> QED
    BY <2>1, <2>2, <2>3 DEF MainTodos, MainNext
<1>3. CASE x = <<"open", "print", "close", "rename", "run">>
  <2>1. Tail(x) = <<"print", "close", "rename", "run">> /\ Head(x) = "open"
    BY <1>3
  <2>2. Where(<<"print", "close", "rename", "run">>) = "print"
    BY DEF Where
  <2>3. 4 \in DOMAIN x /\ x[4] = "rename"
    BY <1>3
  <2> QED
    BY <2>1, <2>2, <2>3 DEF MainTodos, MainNext
<1>4. CASE x = <<"print", "close", "rename", "run">>
  <2>1. Tail(x) = <<"close", "rename", "run">> /\ Head(x) = "print"
    BY <1>4
  <2>2. Where(<<"close", "rename", "run">>) = "close"
    BY DEF Where
  <2>3. 3 \in DOMAIN x /\ x[3] = "rename"
    BY <1>4
  <2> QED
    BY <2>1, <2>2, <2>3 DEF MainTodos, MainNext
<1>5. CASE x = <<"close", "rename", "run">>
  <2>1. Tail(x) = <<"rename", "run">> /\ Head(x) = "close"
    BY <1>5
  <2>2. Where(<<"rename", "run">>) = "rename"
    BY DEF Where
  <2>3. 2 \in DOMAIN x /\ x[2] = "rename"
    BY <1>5
  <2> QED
    BY <2>1, <2>2, <2>3 DEF MainTodos, MainNext
<1>6. CASE x = <<"rename", "run">>
  <2>1. Tail(x) = <<"run">> /\ Head(x) = "rename"
    BY <1>6
  <2>2. Where(<<"run">>) = "run"
    BY DEF Where
  <2>3. 1 \in DOMAIN x /\ x[1] = "rename"
    BY <1>6
  <2> QED
    BY <2>1, <2>2, <2>3 DEF MainTodos, MainNext
<1>7. CASE x = <<"run">>
  <2>1. Tail(x) = <<>> /\ Head(x) = "run"
    BY <1>7
  <2>2. Where(<<>>) = "idle"
    BY DEF Where
  <2>3. Head(x) \notin WhereSaving
    BY <2>1 DEF WhereSaving
  <2> QED
    BY <2>1, <2>2, <2>3 DEF MainTodos, MainNext
<1> QED
  BY <1>1, <1>2, <1>3, <1>4, <1>5, <1>6, <1>7 DEF MainTodos

LEMMA HttpdSteps ==
  ASSUME NEW x \in HttpdTodos, x # <<>>
  PROVE  /\ Tail(x) \in HttpdTodos /\ Where(Tail(x)) = HttpdNext(Head(x))
         /\ Head(x) \in {"update", "pass", "open", "print", "close", "rename", "ok"}
         /\ Head(x) \in WhereSaving => \E i \in DOMAIN x : x[i] = "rename"
<1>1. CASE x = <<"update", "pass", "open", "print", "close", "rename", "ok">>
  <2>1. Tail(x) = <<"pass", "open", "print", "close", "rename", "ok">> /\ Head(x) = "update"
    BY <1>1
  <2>2. Where(<<"pass", "open", "print", "close", "rename", "ok">>) = "pass"
    BY DEF Where
  <2>3. 6 \in DOMAIN x /\ x[6] = "rename"
    BY <1>1
  <2> QED
    BY <2>1, <2>2, <2>3 DEF HttpdTodos, HttpdNext
<1>2. CASE x = <<"pass", "open", "print", "close", "rename", "ok">>
  <2>1. Tail(x) = <<"open", "print", "close", "rename", "ok">> /\ Head(x) = "pass"
    BY <1>2
  <2>2. Where(<<"open", "print", "close", "rename", "ok">>) = "open"
    BY DEF Where
  <2>3. 5 \in DOMAIN x /\ x[5] = "rename"
    BY <1>2
  <2> QED
    BY <2>1, <2>2, <2>3 DEF HttpdTodos, HttpdNext
<1>3. CASE x = <<"open", "print", "close", "rename", "ok">>
  <2>1. Tail(x) = <<"print", "close", "rename", "ok">> /\ Head(x) = "open"
    BY <1>3
  <2>2. Where(<<"print", "close", "rename", "ok">>) = "print"
    BY DEF Where
  <2>3. 4 \in DOMAIN x /\ x[4] = "rename"
    BY <1>3
  <2> QED
    BY <2>1, <2>2, <2>3 DEF HttpdTodos, HttpdNext
<1>4. CASE x = <<"print", "close", "rename", "ok">>
  <2>1. Tail(x) = <<"close", "rename", "ok">> /\ Head(x) = "print"
    BY <1>4
  <2>2. Where(<<"close", "rename", "ok">>) = "close"
    BY DEF Where
  <2>3. 3 \in DOMAIN x /\ x[3] = "rename"
    BY <1>4
  <2> QED
    BY <2>1, <2>2, <2>3 DEF HttpdTodos, HttpdNext
<1>5. CASE x = <<"close", "rename", "ok">>
  <2>1. Tail(x) = <<"rename", "ok">> /\ Head(x) = "close"
    BY <1>5
  <2>2. Where(<<"rename", "ok">>) = "rename"
    BY DEF Where
  <2>3. 2 \in DOMAIN x /\ x[2] = "rename"
    BY <1>5
  <2> QED
    BY <2>1, <2>2, <2>3 DEF HttpdTodos, HttpdNext
<1>6. CASE x = <<"rename", "ok">>
  <2>1. Tail(x) = <<"ok">> /\ Head(x) = "rename"
    BY <1>6
  <2>2. Where(<<"ok">>) = "ok"
    BY DEF Where
  <2>3. 1 \in DOMAIN x /\ x[1] = "rename"
    BY <1>6
  <2> QED
    BY <2>1, <2>2, <2>3 DEF HttpdTodos, HttpdNext
<1>7. CASE x = <<"ok">>
  <2>1. Tail(x) = <<>> /\ Head(x) = "ok"
    BY <1>7
  <2>2. Where(<<>>) = "idle"
    BY DEF Where
  <2>3. Head(x) \notin WhereSaving
    BY <2>1 DEF WhereSaving
  <2> QED
    BY <2>1, <2>2, <2>3 DEF HttpdTodos, HttpdNext
<1> QED
  BY <1>1, <1>2, <1>3, <1>4, <1>5, <1>6, <1>7 DEF HttpdTodos

LEMMA TimerSteps ==
  ASSUME NEW x \in TimerTodos, x # <<>>
  PROVE  /\ Tail(x) \in TimerTodos /\ Where(Tail(x)) = TimerNext(Head(x))
         /\ Head(x) \in {"update", "pass", "open", "print", "close", "rename", "erase", "remove", "restart"}
         /\ Head(x) \in WhereSaving => \E i \in DOMAIN x : x[i] = "rename"
<1>1. CASE x = <<"update", "pass", "open", "print", "close", "rename">>
  <2>1. Tail(x) = <<"pass", "open", "print", "close", "rename">> /\ Head(x) = "update"
    BY <1>1
  <2>2. Where(<<"pass", "open", "print", "close", "rename">>) = "pass"
    BY DEF Where
  <2>3. 6 \in DOMAIN x /\ x[6] = "rename"
    BY <1>1
  <2> QED
    BY <2>1, <2>2, <2>3 DEF TimerTodos, TimerNext
<1>2. CASE x = <<"pass", "open", "print", "close", "rename">>
  <2>1. Tail(x) = <<"open", "print", "close", "rename">> /\ Head(x) = "pass"
    BY <1>2
  <2>2. Where(<<"open", "print", "close", "rename">>) = "open"
    BY DEF Where
  <2>3. 5 \in DOMAIN x /\ x[5] = "rename"
    BY <1>2
  <2> QED
    BY <2>1, <2>2, <2>3 DEF TimerTodos, TimerNext
<1>3. CASE x = <<"open", "print", "close", "rename">>
  <2>1. Tail(x) = <<"print", "close", "rename">> /\ Head(x) = "open"
    BY <1>3
  <2>2. Where(<<"print", "close", "rename">>) = "print"
    BY DEF Where
  <2>3. 4 \in DOMAIN x /\ x[4] = "rename"
    BY <1>3
  <2> QED
    BY <2>1, <2>2, <2>3 DEF TimerTodos, TimerNext
<1>4. CASE x = <<"print", "close", "rename">>
  <2>1. Tail(x) = <<"close", "rename">> /\ Head(x) = "print"
    BY <1>4
  <2>2. Where(<<"close", "rename">>) = "close"
    BY DEF Where
  <2>3. 3 \in DOMAIN x /\ x[3] = "rename"
    BY <1>4
  <2> QED
    BY <2>1, <2>2, <2>3 DEF TimerTodos, TimerNext
<1>5. CASE x = <<"close", "rename">>
  <2>1. Tail(x) = <<"rename">> /\ Head(x) = "close"
    BY <1>5
  <2>2. Where(<<"rename">>) = "rename"
    BY DEF Where
  <2>3. 2 \in DOMAIN x /\ x[2] = "rename"
    BY <1>5
  <2> QED
    BY <2>1, <2>2, <2>3 DEF TimerTodos, TimerNext
<1>6. CASE x = <<"rename">>
  <2>1. Tail(x) = <<>> /\ Head(x) = "rename"
    BY <1>6
  <2>2. Where(<<>>) = "idle"
    BY DEF Where
  <2>3. 1 \in DOMAIN x /\ x[1] = "rename"
    BY <1>6
  <2> QED
    BY <2>1, <2>2, <2>3 DEF TimerTodos, TimerNext
<1>7. CASE x = <<"erase", "remove", "restart">>
  <2>1. Tail(x) = <<"remove", "restart">> /\ Head(x) = "erase"
    BY <1>7
  <2>2. Where(<<"remove", "restart">>) = "remove"
    BY DEF Where
  <2>3. Head(x) \notin WhereSaving
    BY <2>1 DEF WhereSaving
  <2> QED
    BY <2>1, <2>2, <2>3 DEF TimerTodos, TimerNext
<1>8. CASE x = <<"remove", "restart">>
  <2>1. Tail(x) = <<"restart">> /\ Head(x) = "remove"
    BY <1>8
  <2>2. Where(<<"restart">>) = "restart"
    BY DEF Where
  <2>3. Head(x) \notin WhereSaving
    BY <2>1 DEF WhereSaving
  <2> QED
    BY <2>1, <2>2, <2>3 DEF TimerTodos, TimerNext
<1>9. CASE x = <<"restart">>
  <2>1. Tail(x) = <<>> /\ Head(x) = "restart"
    BY <1>9
  <2>2. Where(<<>>) = "idle"
    BY DEF Where
  <2>3. Head(x) \notin WhereSaving
    BY <2>1 DEF WhereSaving
  <2> QED
    BY <2>1, <2>2, <2>3 DEF TimerTodos, TimerNext
<1> QED
  BY <1>1, <1>2, <1>3, <1>4, <1>5, <1>6, <1>7, <1>8, <1>9 DEF TimerTodos

LEMMA SaveAndAnswer ==
  SaveSteps \o <<"ok">> = <<"update", "pass", "open", "print", "close", "rename", "ok">>
<1> DEFINE S == {"update", "pass", "open", "print", "close", "rename", "ok"}
           s == <<"update", "pass", "open", "print", "close", "rename">>
           t == <<"ok">>
           r == <<"update", "pass", "open", "print", "close", "rename", "ok">>
<1>1. s \in Seq(S) /\ t \in Seq(S) /\ r \in Seq(S) /\ Len(s) = 6 /\ Len(t) = 1 /\ Len(r) = 7
  OBVIOUS
<1>2. /\ s \o t \in Seq(S) /\ Len(s \o t) = 7
      /\ \A i \in 1..7 : (s \o t)[i] = IF i <= 6 THEN s[i] ELSE t[i - 6]
  BY <1>1, ConcatProperties
<1>3. ASSUME NEW i \in 1..7 PROVE (s \o t)[i] = r[i]
  <2>1. i \in 1..6 \/ i = 7
    OBVIOUS
  <2>2. ASSUME i \in 1..6 PROVE (s \o t)[i] = r[i]
    <3>1. (s \o t)[i] = s[i]
      BY <1>2, <2>2
    <3>2. s[i] = r[i]
      BY <2>2
    <3> QED
      BY <3>1, <3>2, Zenon
  <2>3. ASSUME i = 7 PROVE (s \o t)[i] = r[i]
    <3>1. (s \o t)[i] = t[1]
      BY <1>2, <2>3
    <3>2. t[1] = r[i]
      BY <2>3
    <3> QED
      BY <3>1, <3>2, Zenon
  <2> QED
    BY <2>1, <2>2, <2>3
<1>4. s \o t = r
  BY <1>1, <1>2, <1>3, SeqEqual
<1> QED
  BY <1>4 DEF SaveSteps

LEMMA Starts ==
  /\ MigrateSteps \in MainTodos /\ Where(MigrateSteps) = "oldpass"
  /\ <<"run">> \in MainTodos /\ Where(<<"run">>) = "run"
  /\ SaveSteps \o <<"ok">> \in HttpdTodos /\ Where(SaveSteps \o <<"ok">>) = "update"
  /\ SaveSteps \in TimerTodos /\ Where(SaveSteps) = "update"
  /\ ResetSteps \in TimerTodos /\ Where(ResetSteps) = "erase"
  /\ <<>> \in MainTodos /\ <<>> \in HttpdTodos /\ <<>> \in TimerTodos /\ Where(<<>>) = "idle"
<1>1. MigrateSteps \in MainTodos /\ Where(MigrateSteps) = "oldpass"
  BY DEF MigrateSteps, MainTodos, Where
<1>2. <<"run">> \in MainTodos /\ Where(<<"run">>) = "run"
  BY DEF MainTodos, Where
<1>3. SaveSteps \o <<"ok">> \in HttpdTodos /\ Where(SaveSteps \o <<"ok">>) = "update"
  <2> DEFINE r == <<"update", "pass", "open", "print", "close", "rename", "ok">>
  <2>1. r \in HttpdTodos /\ Where(r) = "update"
    BY DEF HttpdTodos, Where
  <2> HIDE DEF r
  <2> QED
    BY <2>1, SaveAndAnswer DEF r
<1>4. SaveSteps \in TimerTodos /\ Where(SaveSteps) = "update"
  BY DEF SaveSteps, TimerTodos, Where
<1>5. ResetSteps \in TimerTodos /\ Where(ResetSteps) = "erase"
  BY DEF ResetSteps, TimerTodos, Where
<1>6. <<>> \in MainTodos /\ <<>> \in HttpdTodos /\ <<>> \in TimerTodos /\ Where(<<>>) = "idle"
  BY DEF MainTodos, HttpdTodos, TimerTodos, Where
<1> QED
  BY <1>1, <1>2, <1>3, <1>4, <1>5, <1>6

Places(t) ==
  IF t = "main" THEN {"oldpass", "retire", "open", "print", "close", "rename", "run"}
  ELSE IF t = "httpd" THEN {"update", "pass", "open", "print", "close", "rename", "ok"}
  ELSE {"update", "pass", "open", "print", "close", "rename", "erase", "remove", "restart"}

LEMMA TodoSteps ==
  ASSUME NEW t \in Tasks, NEW x \in Todos(t)
  PROVE  /\ x = <<>> <=> Where(x) = "idle"
         /\ x # <<>> => /\ Tail(x) \in Todos(t) /\ Where(Tail(x)) = NextWhere(t, Where(x))
                        /\ Where(x) = Head(x) /\ Where(x) \in Places(t)
         /\ Where(x) \in WhereSaving => \E i \in DOMAIN x : x[i] = "rename"
<1>1. x = <<>> => Where(x) = "idle"
  BY DEF Where
<1>2. x # <<>> => Where(x) = Head(x)
  BY DEF Where
<1>3. ASSUME x # <<>>
      PROVE  /\ Tail(x) \in Todos(t) /\ Where(Tail(x)) = NextWhere(t, Head(x))
             /\ Head(x) \in Places(t)
             /\ Head(x) \in WhereSaving => \E i \in DOMAIN x : x[i] = "rename"
  <2>1. CASE t = "main"
    BY <1>3, <2>1, MainSteps DEF Todos, NextWhere, Places
  <2>2. CASE t = "httpd"
    BY <1>3, <2>2, HttpdSteps DEF Todos, NextWhere, Places
  <2>3. CASE t = "timer"
    BY <1>3, <2>3, TimerSteps DEF Todos, NextWhere, Places
  <2> QED
    BY <2>1, <2>2, <2>3 DEF Tasks
<1>4. Head(x) \in Places(t) => Head(x) # "idle"
  BY DEF Places
<1>5. "idle" \notin WhereSaving
  BY DEF WhereSaving
<1> QED
  BY <1>1, <1>2, <1>3, <1>4, <1>5

LEMMA Stepped ==
  ASSUME Typed, NEW t \in Tasks, NEW name, Step(t, name)
  PROVE  /\ Where(todo[t]) = name /\ name \in Places(t) /\ ~Idle(t)
         /\ DOMAIN todo' = Tasks /\ \A u \in Tasks : todo'[u] \in Todos(u)
         /\ Where(todo'[t]) = NextWhere(t, name)
         /\ \A u \in Tasks : u # t => todo'[u] = todo[u]
<1>1. todo[t] # <<>> /\ Head(todo[t]) = name /\ todo' = [todo EXCEPT ![t] = Tail(@)]
  BY DEF Step, Idle
<1>2. todo[t] \in Todos(t) /\ DOMAIN todo = Tasks /\ \A u \in Tasks : todo[u] \in Todos(u)
  BY DEF Typed
<1>3. /\ Where(todo[t]) = name /\ name \in Places(t)
      /\ Tail(todo[t]) \in Todos(t) /\ Where(Tail(todo[t])) = NextWhere(t, name)
  BY <1>1, <1>2, TodoSteps
<1>4. DOMAIN todo' = Tasks /\ todo'[t] = Tail(todo[t]) /\ \A u \in Tasks : u # t => todo'[u] = todo[u]
  BY <1>1, <1>2
<1> QED
  BY <1>1, <1>2, <1>3, <1>4 DEF Idle

LEMMA Begun ==
  ASSUME Typed, NEW t \in Tasks, NEW x \in Todos(t), todo' = [todo EXCEPT ![t] = x]
  PROVE  /\ DOMAIN todo' = Tasks /\ \A u \in Tasks : todo'[u] \in Todos(u)
         /\ todo'[t] = x
         /\ \A u \in Tasks : u # t => todo'[u] = todo[u]
BY DEF Typed

LEMMA WhereIdle ==
  ASSUME Typed, NEW t \in Tasks
  PROVE  /\ Idle(t) <=> Where(todo[t]) = "idle"
         /\ Where(todo[t]) \in WhereSaving => Saving(t)
         /\ Where(todo[t]) \in Places(t) \cup {"idle"}
BY TodoSteps DEF Typed, Idle, Saving

(* Where a step leaves its task. *)
LEMMA StepMoves ==
  ASSUME Typed, NEW t \in Tasks, NEW name, Step(t, name)
  PROVE  /\ At(todo)[t] = name /\ name \in Places(t)
         /\ At(todo') = [At(todo) EXCEPT ![t] = NextWhere(t, name)]
BY Stepped DEF At

LEMMA BeginMoves ==
  ASSUME Typed, NEW t \in Tasks, NEW x \in Todos(t), todo' = [todo EXCEPT ![t] = x]
  PROVE  At(todo') = [At(todo) EXCEPT ![t] = Where(x)]
BY Begun DEF At

LEMMA AtIdle ==
  ASSUME Typed, NEW t \in Tasks
  PROVE  /\ Idle(t) <=> At(todo)[t] = "idle"
         /\ At(todo)[t] \in WhereSaving => Saving(t)
         /\ At(todo)[t] \in Places(t) \cup {"idle"}
BY WhereIdle DEF At

LEMMA Moves ==
  ASSUME Typed, NEW t \in Tasks
  PROVE  /\ Step(t, "update") => /\ t # "main" /\ At(todo)[t] = "update"
                                 /\ At(todo') = [At(todo) EXCEPT ![t] = "pass"]
         /\ Step(t, "pass") => /\ t # "main" /\ At(todo)[t] = "pass"
                               /\ At(todo') = [At(todo) EXCEPT ![t] = "open"]
         /\ Step(t, "open") => /\ At(todo)[t] = "open"
                               /\ At(todo') = [At(todo) EXCEPT ![t] = "print"]
         /\ Step(t, "print") => /\ At(todo)[t] = "print"
                                /\ At(todo') = [At(todo) EXCEPT ![t] = "close"]
         /\ Step(t, "close") => /\ At(todo)[t] = "close"
                                /\ At(todo') = [At(todo) EXCEPT ![t] = "rename"]
         /\ Step(t, "rename") => /\ At(todo)[t] = "rename"
                                 /\ At(todo') = [At(todo) EXCEPT ![t] =
                                      IF t = "main" THEN "run" ELSE IF t = "httpd" THEN "ok" ELSE "idle"]
         /\ Step("main", "oldpass") => /\ At(todo)["main"] = "oldpass"
                                       /\ At(todo') = [At(todo) EXCEPT !["main"] = "retire"]
         /\ Step("main", "retire") => /\ At(todo)["main"] = "retire"
                                      /\ At(todo') = [At(todo) EXCEPT !["main"] = "open"]
         /\ Step("main", "run") => /\ At(todo)["main"] = "run"
                                   /\ At(todo') = [At(todo) EXCEPT !["main"] = "idle"]
         /\ Step("httpd", "ok") => /\ At(todo)["httpd"] = "ok"
                                   /\ At(todo') = [At(todo) EXCEPT !["httpd"] = "idle"]
         /\ Step("timer", "erase") => /\ At(todo)["timer"] = "erase"
                                      /\ At(todo') = [At(todo) EXCEPT !["timer"] = "remove"]
         /\ Step("timer", "remove") => /\ At(todo)["timer"] = "remove"
                                       /\ At(todo') = [At(todo) EXCEPT !["timer"] = "restart"]
<1>0. "main" \in Tasks /\ "httpd" \in Tasks /\ "timer" \in Tasks /\ (t = "main" \/ t = "httpd" \/ t = "timer")
  BY DEF Tasks
<1>1. ASSUME Step(t, "update")
      PROVE  t # "main" /\ At(todo)[t] = "update" /\ NextWhere(t, "update") = "pass"
  BY <1>0, <1>1, StepMoves DEF NextWhere, HttpdNext, TimerNext, Places
<1>2. ASSUME Step(t, "pass")
      PROVE  t # "main" /\ At(todo)[t] = "pass" /\ NextWhere(t, "pass") = "open"
  BY <1>0, <1>2, StepMoves DEF NextWhere, HttpdNext, TimerNext, Places
<1>3. /\ NextWhere(t, "open") = "print" /\ NextWhere(t, "print") = "close"
      /\ NextWhere(t, "close") = "rename"
      /\ NextWhere(t, "rename") = IF t = "main" THEN "run" ELSE IF t = "httpd" THEN "ok" ELSE "idle"
  BY <1>0 DEF NextWhere, MainNext, HttpdNext, TimerNext
<1>4. /\ NextWhere("main", "oldpass") = "retire" /\ NextWhere("main", "retire") = "open"
      /\ NextWhere("main", "run") = "idle" /\ NextWhere("httpd", "ok") = "idle"
      /\ NextWhere("timer", "erase") = "remove" /\ NextWhere("timer", "remove") = "restart"
  BY DEF NextWhere, MainNext, HttpdNext, TimerNext
<1> QED
  BY <1>0, <1>1, <1>2, <1>3, <1>4, StepMoves

-----------------------------------------------------------------------------
(* Types. *)

LEMMA SaneConfigs ==
  /\ Sane(Blank) /\ NoFile \in Files /\ EmptyFile \in Files /\ NoFile # EmptyFile
  /\ NoFile.kind = "none" /\ NoFile.cfg = Blank /\ EmptyFile.kind = "empty" /\ EmptyFile.cfg = Blank
  /\ \A c : Sane(c) => /\ Text(c) \in Files /\ Text(c).kind = "text" /\ Text(c).cfg = c
                       /\ Text(c) # NoFile /\ Text(c) # EmptyFile
  /\ Default \in [ssid : Values \cup {0}, pass : Values \cup {0}]
BY DEF Sane, Blank, Config, EconetOf, Configs, Members, NoFile, EmptyFile, Text, Files, Default, Network

LEMMA OldSane ==
  ASSUME NEW a \in Members, NEW b \in Members, NEW c \in Members
  PROVE  Sane(Config(a # None \/ b # None, a, b, c))
<1>1. CASE a = None /\ b = None
  BY <1>1 DEF Sane, Config, Configs, EconetOf
<1>2. CASE a # None \/ b # None
  BY <1>2 DEF Sane, Config, Configs, EconetOf
<1> QED
  BY <1>1, <1>2

LEMMA InitTyped == Init => Typed
<1> SUFFICES ASSUME Init PROVE Typed
  OBVIOUS
<1>1. PICK first \in FirstBoots, v \in Values :
        /\ file = IF first = "set" THEN Text(Config(TRUE, v, v, v)) ELSE NoFile
        /\ oldFile = IF first = "old" THEN v ELSE None
        /\ nvs = IF first = "set" THEN Nvs(v, NoBlobs)
                 ELSE Nvs(None, IF first = "old" THEN OldBlobs(v, v, v) ELSE NoBlobs)
  BY DEF Init
<1>2. Sane(Config(TRUE, v, v, v))
  BY DEF Sane, Config, Configs, Members
<1>3. file \in Files /\ Sane(file.cfg) /\ (file.kind = "none" <=> file = NoFile)
  <2>1. CASE first = "set"
    <3> DEFINE c == Config(TRUE, v, v, v)
    <3>1. file = Text(c)
      BY <1>1, <2>1
    <3>2. Sane(c)
      BY <1>2
    <3> HIDE DEF c
    <3>3. /\ Text(c) \in Files /\ Text(c).kind = "text" /\ Text(c).cfg = c
          /\ Text(c) # NoFile
      BY <3>2, SaneConfigs
    <3> QED
      BY <3>1, <3>2, <3>3
  <2>2. CASE first # "set"
    <3>1. file = NoFile
      BY <1>1, <2>2
    <3> QED
      BY <3>1, SaneConfigs
  <2> QED
    BY <2>1, <2>2
<1>4. oldFile \in Members /\ v \in Members /\ None \in Members
  BY <1>1 DEF Members
<1>5. nvs \in [pass : Members, old : [ssid : Members, pass : Members, clock : Members]]
  BY <1>1, <1>4 DEF Nvs, NoBlobs, OldBlobs
<1>6. \A t \in Tasks : <<>> \in Todos(t)
  BY Starts DEF Todos
<1> QED
  BY <1>3, <1>4, <1>5, <1>6, SaneConfigs DEF Init, Typed, Sane

LEMMA TodoTyped ==
  ASSUME Typed, [Next]_vars
  PROVE  DOMAIN todo' = Tasks /\ \A u \in Tasks : todo'[u] \in Todos(u)
<1>0. "main" \in Tasks /\ "httpd" \in Tasks /\ "timer" \in Tasks
  BY DEF Tasks
<1>1. ASSUME NEW t \in Tasks, SaveFile(t)
      PROVE  DOMAIN todo' = Tasks /\ \A u \in Tasks : todo'[u] \in Todos(u)
  BY <1>1, Stepped DEF SaveFile, Update, Pass, Open, PrintUnformatted, Close, Rename
<1>2. CASE OldPass \/ Retire \/ Run \/ Ok \/ Erase \/ Remove
  BY <1>0, <1>2, Stepped DEF OldPass, Retire, Run, Ok, Erase, Remove
<1>3. CASE Restart \/ Crash
  BY <1>3, Starts DEF Restart, Crash, Restarted, Todos
<1>4. MigrateSteps \in Todos("main") /\ <<"run">> \in Todos("main")
  BY Starts DEF Todos
<1>5. SaveSteps \o <<"ok">> \in Todos("httpd")
  BY Starts DEF Todos
<1>6. SaveSteps \in Todos("timer") /\ ResetSteps \in Todos("timer")
  BY Starts DEF Todos
<1>7. CASE Boot
  BY <1>0, <1>4, <1>7, Begun DEF Boot
<1>8. CASE \/ \E s, c \in Values : SaveEconet(s, c)
           \/ \E c \in Values : SaveClock(c)
  BY <1>0, <1>5, <1>8, Begun DEF SaveEconet, SaveClock, Ask
<1>9. CASE WifiTimer \/ ResetTimer
  BY <1>0, <1>6, <1>9, Begun DEF WifiTimer, ResetTimer
<1>10. CASE (\E s \in Values, p \in Values \cup {0} : SaveWifi(s, p)) \/ FactoryReset \/ UNCHANGED vars
  BY <1>10 DEF SaveWifi, FactoryReset, vars, Typed
<1> QED
  BY <1>1, <1>2, <1>3, <1>7, <1>8, <1>9, <1>10 DEF Next, Request

LEMMA StepTyped ==
  ASSUME Typed, [Next]_vars
  PROVE  Typed'
<1>0. /\ file \in Files /\ Sane(file.cfg) /\ tmp \in Files /\ Sane(tmp.cfg)
      /\ (file.kind = "none" <=> file = NoFile) /\ (tmp.kind = "none" <=> tmp = NoFile)
      /\ oldFile \in Members
      /\ nvs \in [pass : Members, old : [ssid : Members, pass : Members, clock : Members]]
      /\ Sane(g) /\ wifi \in [ssid : Values \cup {0}, pass : Values \cup {0}]
      /\ snap \in [Tasks -> Configs] /\ (\A t \in Tasks : Sane(snap[t]))
      /\ open \subseteq Tasks
      /\ wifiTimer \in BOOLEAN /\ resetTimer \in BOOLEAN /\ booted \in BOOLEAN
      /\ excused \in BOOLEAN /\ reset \in {"no", "going", "done"}
  BY DEF Typed
<1>1. DOMAIN todo' = Tasks /\ \A u \in Tasks : todo'[u] \in Todos(u)
  BY TodoTyped
<1>2. None \in Members /\ Values \subseteq Members /\ 0 \notin Values
  BY ConfigAssumption DEF Members
<1>3. CASE Boot
  <2>1. file = NoFile => Sane(g') /\ wifi' = Default
    <3>1. SUFFICES ASSUME file = NoFile PROVE Sane(g') /\ wifi' = Default
      OBVIOUS
    <3>2. wifi' = Default /\ g' = Config(oldFile # None \/ nvs.old.clock # None, oldFile,
                                         nvs.old.clock, nvs.old.ssid)
      BY <1>3, <3>1 DEF Boot
    <3>3. nvs.old.clock \in Members /\ nvs.old.ssid \in Members
      BY <1>0
    <3> QED
      BY <1>0, <3>2, <3>3, OldSane
  <2>2. file # NoFile => Sane(g')
    BY <1>0, <1>3 DEF Boot
  <2>3. wifi' \in [ssid : Values \cup {0}, pass : Values \cup {0}]
    <3>1. CASE file = NoFile \/ file.cfg.ssid = None
      BY <1>3, <3>1, SaneConfigs DEF Boot
    <3>2. CASE file # NoFile /\ file.cfg.ssid # None
      BY <1>0, <1>3, <3>2 DEF Boot, Network, Sane, Configs, Members
    <3> QED
      BY <3>1, <3>2
  <2>4. excused' \in BOOLEAN
    BY <1>3, Zenon DEF Boot
  <2> QED
    BY <1>0, <1>1, <1>3, <2>1, <2>2, <2>3, <2>4 DEF Boot, Typed, flash, counts
<1>4. CASE OldPass
  <2>1. nvs' \in [pass : Members, old : [ssid : Members, pass : Members, clock : Members]]
    BY <1>0, <1>4 DEF OldPass
  <2> QED
    BY <1>0, <1>1, <1>4, <2>1 DEF OldPass, Typed, ghosts, counts
<1>5. CASE Retire
  BY <1>0, <1>1, <1>2, <1>5 DEF Retire, Typed, ghosts, counts
<1>6. CASE Run
  <2>1. excused' \in BOOLEAN
    BY <1>6, Zenon DEF Run
  <2> QED
    BY <1>0, <1>1, <1>6, <2>1 DEF Run, Typed, flash, counts
<1>7. ASSUME NEW s \in Values, NEW c \in Values, SaveEconet(s, c) PROVE Typed'
  <2>1. Sane(g')
    BY <1>0, <1>2, <1>7 DEF SaveEconet, Sane, Configs, EconetOf
  <2>2. excused' \in BOOLEAN
    BY <1>7, Zenon DEF SaveEconet, Ask
  <2> QED
    BY <1>0, <1>1, <1>7, <2>1, <2>2 DEF SaveEconet, Ask, Typed, flash
<1>8. ASSUME NEW c \in Values, SaveClock(c) PROVE Typed'
  <2>1. Sane(g')
    BY <1>0, <1>2, <1>8 DEF SaveClock, Sane, Configs, EconetOf, Replaced
  <2>2. excused' \in BOOLEAN
    BY <1>8, Zenon DEF SaveClock, Ask
  <2> QED
    BY <1>0, <1>1, <1>8, <2>1, <2>2 DEF SaveClock, Ask, Typed, flash
<1>9. ASSUME NEW s \in Values, NEW p \in Values \cup {0}, SaveWifi(s, p) PROVE Typed'
  <2>1. wifi' \in [ssid : Values \cup {0}, pass : Values \cup {0}]
    BY <1>9 DEF SaveWifi, Network
  <2> QED
    BY <1>0, <1>1, <1>9, <2>1 DEF SaveWifi, Typed, flash
<1>10. CASE FactoryReset \/ ResetTimer \/ UNCHANGED vars
  BY <1>0, <1>1, <1>10 DEF FactoryReset, ResetTimer, Typed, flash, ghosts, counts, vars
<1>11. CASE WifiTimer
  <2>1. excused' \in BOOLEAN
    BY <1>11, Zenon DEF WifiTimer
  <2> QED
    BY <1>0, <1>1, <1>11, <2>1 DEF WifiTimer, Typed, flash, counts
<1>12. ASSUME NEW t \in Tasks, SaveFile(t) PROVE Typed'
  <2>1. CASE Update(t)
    <3>1. Sane(g')
      BY <1>0, <1>2, <2>1 DEF Update, Sane, Configs, EconetOf, Replaced, Members
    <3> QED
      BY <1>0, <1>1, <2>1, <3>1 DEF Update, Typed, flash, ghosts, counts
  <2>2. CASE Pass(t)
    <3>1. nvs' \in [pass : Members, old : [ssid : Members, pass : Members, clock : Members]]
      BY <1>0, <1>2, <2>2 DEF Pass
    <3> QED
      BY <1>0, <1>1, <2>2, <3>1 DEF Pass, Typed, ghosts, counts
  <2>3. CASE Open(t)
    <3>1. tmp' = tmp \/ tmp' = EmptyFile
      BY <2>3 DEF Open
    <3>2. tmp' \in Files /\ Sane(tmp'.cfg) /\ (tmp'.kind = "none" <=> tmp' = NoFile)
      BY <1>0, <3>1, SaneConfigs
    <3> QED
      BY <1>0, <1>1, <2>3, <3>2 DEF Open, Typed, ghosts, counts
  <2>4. CASE PrintUnformatted(t)
    <3>1. snap' \in [Tasks -> Configs] /\ \A u \in Tasks : Sane(snap'[u])
      BY <1>0, <2>4 DEF PrintUnformatted, Sane
    <3> QED
      BY <1>0, <1>1, <2>4, <3>1 DEF PrintUnformatted, Typed, flash, ghosts, counts
  <2>5. CASE Close(t)
    <3>1. tmp' \in Files /\ Sane(tmp'.cfg) /\ (tmp'.kind = "none" <=> tmp' = NoFile)
      <4>1. tmp' = Text(snap[t]) /\ Sane(snap[t])
        BY <1>0, <2>5 DEF Close
      <4> QED
        BY <4>1, SaneConfigs
    <3> QED
      BY <1>0, <1>1, <2>5, <3>1 DEF Close, Typed, ghosts, counts
  <2>6. CASE Rename(t)
    <3>1. UNCHANGED <<file, tmp>> \/ (file' = tmp /\ tmp' = NoFile)
      BY <2>6 DEF Rename
    <3>2. /\ file' \in Files /\ Sane(file'.cfg) /\ (file'.kind = "none" <=> file' = NoFile)
          /\ tmp' \in Files /\ Sane(tmp'.cfg) /\ (tmp'.kind = "none" <=> tmp' = NoFile)
      BY <1>0, <3>1, SaneConfigs
    <3> QED
      BY <1>0, <1>1, <2>6, <3>2 DEF Rename, Typed, ghosts, counts
  <2> QED
    BY <1>12, <2>1, <2>2, <2>3, <2>4, <2>5, <2>6 DEF SaveFile
<1>13. CASE Ok
  BY <1>0, <1>1, <1>13 DEF Ok, Typed, flash, counts
<1>14. CASE Erase
  <2>1. nvs' \in [pass : Members, old : [ssid : Members, pass : Members, clock : Members]]
    BY <1>2, <1>14 DEF Erase, Nvs, NoBlobs, OldBlobs
  <2> QED
    BY <1>0, <1>1, <1>14, <2>1 DEF Erase, Typed, counts
<1>15. CASE Remove
  BY <1>0, <1>1, <1>15, SaneConfigs DEF Remove, Typed, counts
<1>16. CASE Restart \/ Crash
  <2>1. Sane(g') /\ wifi' = Default /\ open' = {}
    BY <1>16, SaneConfigs DEF Restart, Crash, Restarted
  <2>2. snap' \in [Tasks -> Configs] /\ \A u \in Tasks : Sane(snap'[u])
    BY <1>16, SaneConfigs DEF Restart, Crash, Restarted, Sane
  <2>3. reset' \in {"no", "going", "done"}
    BY <1>0, <1>16 DEF Restart, Crash
  <2>4. UNCHANGED <<flash, excused>> /\ wifiTimer' = FALSE /\ resetTimer' = FALSE /\ booted' = FALSE
    BY <1>16 DEF Restart, Crash, Restarted
  <2> QED
    BY <1>0, <1>1, <2>1, <2>2, <2>3, <2>4, SaneConfigs DEF Typed, flash
<1> QED
  BY <1>3, <1>4, <1>5, <1>6, <1>7, <1>8, <1>9, <1>10, <1>11, <1>12, <1>13, <1>14, <1>15, <1>16
     DEF Next, Request

-----------------------------------------------------------------------------
(* Who is at work. *)

LEMMA MoreMoves ==
  ASSUME Typed
  PROVE  /\ DOMAIN At(todo) = Tasks
         /\ Boot => /\ At(todo)["main"] = "idle"
                    /\ At(todo') = [At(todo) EXCEPT !["main"] = IF file = NoFile THEN "oldpass" ELSE "run"]
         /\ \A new, excuse : Ask(new, excuse) => /\ At(todo)["httpd"] = "idle"
                                                 /\ At(todo') = [At(todo) EXCEPT !["httpd"] = "update"]
         /\ WifiTimer => /\ At(todo)["timer"] = "idle"
                         /\ At(todo') = [At(todo) EXCEPT !["timer"] = "update"]
         /\ ResetTimer => /\ At(todo)["timer"] = "idle"
                          /\ At(todo') = [At(todo) EXCEPT !["timer"] = "erase"]
         /\ Restart => At(todo)["timer"] = "restart"
         /\ Restart \/ Crash => \A t \in Tasks : At(todo')[t] = "idle"
<1>0. "main" \in Tasks /\ "httpd" \in Tasks /\ "timer" \in Tasks
  BY DEF Tasks
<1>1. DOMAIN At(todo) = Tasks
  BY DEF At
<1>2. ASSUME Boot
      PROVE  /\ At(todo)["main"] = "idle"
             /\ At(todo') = [At(todo) EXCEPT !["main"] = IF file = NoFile THEN "oldpass" ELSE "run"]
  <2>1. MigrateSteps \in Todos("main") /\ <<"run">> \in Todos("main")
    BY Starts DEF Todos
  <2>2. At(todo)["main"] = "idle"
    BY <1>0, <1>2, AtIdle DEF Boot
  <2>3. CASE file = NoFile
    <3>1. todo' = [todo EXCEPT !["main"] = MigrateSteps]
      BY <1>2, <2>3 DEF Boot
    <3>2. At(todo') = [At(todo) EXCEPT !["main"] = Where(MigrateSteps)]
      BY <1>0, <2>1, <3>1, BeginMoves
    <3> QED
      BY <2>2, <2>3, <3>2, Starts
  <2>4. CASE file # NoFile
    <3>1. todo' = [todo EXCEPT !["main"] = <<"run">>]
      BY <1>2, <2>4 DEF Boot
    <3>2. At(todo') = [At(todo) EXCEPT !["main"] = Where(<<"run">>)]
      BY <1>0, <2>1, <3>1, BeginMoves
    <3> QED
      BY <2>2, <2>4, <3>2, Starts
  <2> QED
    BY <2>3, <2>4
<1>3. ASSUME NEW new, NEW excuse, Ask(new, excuse)
      PROVE  At(todo)["httpd"] = "idle" /\ At(todo') = [At(todo) EXCEPT !["httpd"] = "update"]
  <2>1. SaveSteps \o <<"ok">> \in Todos("httpd")
    BY Starts DEF Todos
  <2>2. At(todo)["httpd"] = "idle" /\ todo' = [todo EXCEPT !["httpd"] = SaveSteps \o <<"ok">>]
    BY <1>0, <1>3, AtIdle DEF Ask
  <2>3. At(todo') = [At(todo) EXCEPT !["httpd"] = Where(SaveSteps \o <<"ok">>)]
    BY <1>0, <2>1, <2>2, BeginMoves
  <2> QED
    BY <2>2, <2>3, Starts
<1>4. SaveSteps \in Todos("timer") /\ ResetSteps \in Todos("timer")
  BY Starts DEF Todos
<1>5. ASSUME WifiTimer
      PROVE  At(todo)["timer"] = "idle" /\ At(todo') = [At(todo) EXCEPT !["timer"] = "update"]
  <2>1. At(todo)["timer"] = "idle" /\ todo' = [todo EXCEPT !["timer"] = SaveSteps]
    BY <1>0, <1>5, AtIdle DEF WifiTimer
  <2>2. At(todo') = [At(todo) EXCEPT !["timer"] = Where(SaveSteps)]
    BY <1>0, <1>4, <2>1, BeginMoves
  <2> QED
    BY <2>1, <2>2, Starts
<1>6. ASSUME ResetTimer
      PROVE  At(todo)["timer"] = "idle" /\ At(todo') = [At(todo) EXCEPT !["timer"] = "erase"]
  <2>1. At(todo)["timer"] = "idle" /\ todo' = [todo EXCEPT !["timer"] = ResetSteps]
    BY <1>0, <1>6, AtIdle DEF ResetTimer
  <2>2. At(todo') = [At(todo) EXCEPT !["timer"] = Where(ResetSteps)]
    BY <1>0, <1>4, <2>1, BeginMoves
  <2> QED
    BY <2>1, <2>2, Starts
<1>7. Restart => At(todo)["timer"] = "restart"
  BY <1>0 DEF Restart, Idle, At, Where
<1>8. Restart \/ Crash => \A t \in Tasks : At(todo')[t] = "idle"
  BY Starts DEF Restart, Crash, Restarted, At
<1> QED
  BY <1>1, <1>2, <1>3, <1>5, <1>6, <1>7, <1>8

LEMMA StepTurns ==
  ASSUME Typed, Turns, [Next]_vars
  PROVE  Turns'
<1>0. /\ "main" \in Tasks /\ "httpd" \in Tasks /\ "timer" \in Tasks
      /\ \A t \in Tasks : t = "main" \/ t = "httpd" \/ t = "timer"
      /\ open \subseteq Tasks /\ booted \in BOOLEAN
  BY DEF Tasks, Typed
<1>1. CASE Boot
  BY <1>0, <1>1, MoreMoves DEF Boot, Turns
<1>2. CASE OldPass \/ Retire \/ Run
  BY <1>0, <1>2, Moves, MoreMoves DEF OldPass, Retire, Run, Turns
<1>3. ASSUME NEW new, NEW excuse, Ask(new, excuse) PROVE Turns'
  BY <1>0, <1>3, MoreMoves DEF Ask, Turns
<1>4. CASE (\E s \in Values, p \in Values \cup {0} : SaveWifi(s, p)) \/ FactoryReset \/ UNCHANGED vars
  BY <1>0, <1>4 DEF SaveWifi, FactoryReset, vars, Turns
<1>5. CASE WifiTimer \/ ResetTimer
  BY <1>0, <1>5, MoreMoves DEF WifiTimer, ResetTimer, Turns
<1>6. ASSUME NEW t \in Tasks, SaveFile(t) PROVE Turns'
  <2>1. CASE Update(t) \/ Pass(t)
    BY <1>0, <2>1, Moves, MoreMoves DEF Update, Pass, Turns
  <2>2. CASE Open(t)
    BY <1>0, <2>2, Moves, MoreMoves DEF Open, Turns
  <2>3. CASE PrintUnformatted(t)
    BY <1>0, <2>3, Moves, MoreMoves DEF PrintUnformatted, Turns
  <2>4. CASE Close(t)
    BY <1>0, <2>4, Moves, MoreMoves DEF Close, Turns
  <2>5. CASE Rename(t)
    BY <1>0, <2>5, Moves, MoreMoves DEF Rename, Turns
  <2> QED
    BY <1>6, <2>1, <2>2, <2>3, <2>4, <2>5 DEF SaveFile
<1>7. CASE Ok \/ Erase \/ Remove
  BY <1>0, <1>7, Moves, MoreMoves DEF Ok, Erase, Remove, Turns
<1>8. CASE Restart \/ Crash
  <2>1. open' = {} /\ booted' = FALSE /\ wifiTimer' = FALSE /\ resetTimer' = FALSE
    BY <1>8 DEF Restart, Crash, Restarted
  <2> QED
    BY <1>0, <1>8, <2>1, MoreMoves DEF Turns
<1> QED
  BY <1>1, <1>2, <1>3, <1>4, <1>5, <1>6, <1>7, <1>8 DEF Next, Request, SaveEconet, SaveClock

-----------------------------------------------------------------------------
(* The file is whole. *)

LEMMA StepWhole ==
  ASSUME Typed, Turns, Whole, [Next]_vars
  PROVE  Whole'
<1>0. /\ "main" \in Tasks /\ "httpd" \in Tasks /\ "timer" \in Tasks
      /\ \A t \in Tasks : t = "main" \/ t = "httpd" \/ t = "timer"
      /\ open \subseteq Tasks
  BY DEF Tasks, Typed
<1>1. CASE Boot
  BY <1>0, <1>1, MoreMoves DEF Boot, Turns, Whole, flash
<1>2. CASE OldPass \/ Retire \/ Run
  BY <1>0, <1>2, Moves, MoreMoves DEF OldPass, Retire, Run, Turns, Whole, flash
<1>3. ASSUME NEW new, NEW excuse, Ask(new, excuse) PROVE Whole'
  BY <1>0, <1>3, MoreMoves DEF Ask, Turns, Whole, flash
<1>4. CASE (\E s \in Values, p \in Values \cup {0} : SaveWifi(s, p)) \/ FactoryReset \/ UNCHANGED vars
  BY <1>0, <1>4 DEF SaveWifi, FactoryReset, vars, Whole, flash
<1>5. CASE WifiTimer \/ ResetTimer
  BY <1>0, <1>5, MoreMoves DEF WifiTimer, ResetTimer, Whole, flash
<1>6. ASSUME NEW t \in Tasks, SaveFile(t) PROVE Whole'
  <2>1. CASE Update(t) \/ Pass(t) \/ PrintUnformatted(t)
    BY <1>0, <2>1, Moves, MoreMoves DEF Update, Pass, PrintUnformatted, Whole, flash
  <2>2. CASE Open(t)
    BY <1>0, <2>2, Moves, MoreMoves DEF Open, Whole
  <2>3. CASE Close(t)
    <3>1. tmp'.kind = "text"
      BY <2>3 DEF Close, Text
    <3> QED
      BY <1>0, <2>3, <3>1, Moves, MoreMoves DEF Close, Whole
  <2>4. CASE Rename(t)
    <3>1. At(todo)[t] = "rename"
      BY <2>4, Moves DEF Rename
    <3>2. CASE Renamable
      <4>1. tmp.kind # "empty"
        BY <1>0, <3>1, <3>2 DEF Renamable, Whole
      <4>2. file' = tmp /\ tmp' = NoFile
        BY <2>4, <3>2 DEF Rename
      <4>3. tmp'.kind # "empty"
        BY <4>2, SaneConfigs
      <4> QED
        BY <4>1, <4>2, <4>3 DEF Whole
    <3>3. CASE ~Renamable
      BY <1>0, <2>4, <3>3, Moves, MoreMoves DEF Rename, Whole
    <3> QED
      BY <3>2, <3>3
  <2> QED
    BY <1>6, <2>1, <2>2, <2>3, <2>4 DEF SaveFile
<1>7. CASE Ok \/ Erase \/ Remove
  BY <1>0, <1>7, Moves, MoreMoves, SaneConfigs DEF Ok, Erase, Remove, Whole, flash
<1>8. CASE Restart \/ Crash
  <2>1. UNCHANGED flash
    BY <1>8 DEF Restart, Crash, Restarted
  <2> QED
    BY <1>0, <1>8, <2>1, MoreMoves DEF Whole, flash
<1> QED
  BY <1>1, <1>2, <1>3, <1>4, <1>5, <1>6, <1>7, <1>8 DEF Next, Request, SaveEconet, SaveClock

-----------------------------------------------------------------------------
(* The old format, and what a reset leaves. *)

LEMMA StepRetired ==
  ASSUME Typed, Turns, Retired, [Next]_vars
  PROVE  Retired'
<1>0. /\ "main" \in Tasks /\ "httpd" \in Tasks /\ "timer" \in Tasks
      /\ \A t \in Tasks : t = "main" \/ t = "httpd" \/ t = "timer"
  BY DEF Tasks
<1>1. CASE Boot
  BY <1>0, <1>1, MoreMoves DEF Boot, Retired, flash
<1>2. CASE OldPass
  BY <1>0, <1>2, Moves, MoreMoves DEF OldPass, Retired
<1>3. CASE Retire \/ Run
  BY <1>0, <1>3, Moves, MoreMoves DEF Retire, Run, Retired, flash
<1>4. ASSUME NEW new, NEW excuse, Ask(new, excuse) PROVE Retired'
  BY <1>0, <1>4, MoreMoves DEF Ask, Retired, flash
<1>5. CASE (\E s \in Values, p \in Values \cup {0} : SaveWifi(s, p)) \/ FactoryReset \/ UNCHANGED vars
  BY <1>0, <1>5 DEF SaveWifi, FactoryReset, vars, Retired, flash
<1>6. CASE WifiTimer \/ ResetTimer
  <2>1. At(todo')["main"] = At(todo)["main"]
    BY <1>0, <1>6, MoreMoves
  <2> QED
    BY <1>6, <2>1 DEF WifiTimer, ResetTimer, Retired, flash
<1>7. ASSUME NEW t \in Tasks, SaveFile(t) PROVE Retired'
  <2>1. CASE Update(t) \/ Pass(t) \/ PrintUnformatted(t)
    BY <1>0, <2>1, Moves, MoreMoves DEF Update, Pass, PrintUnformatted, Retired, flash
  <2>2. CASE Open(t) \/ Close(t)
    BY <1>0, <2>2, Moves, MoreMoves DEF Open, Close, Retired
  <2>3. CASE Rename(t)
    <3>1. oldFile = None
      BY <1>0, <2>3, Moves DEF Rename, Turns, Retired
    <3> QED
      BY <2>3, <3>1 DEF Rename, Retired
  <2> QED
    BY <1>7, <2>1, <2>2, <2>3 DEF SaveFile
<1>8. CASE Ok \/ Erase \/ Remove
  BY <1>0, <1>8, Moves, MoreMoves DEF Ok, Erase, Remove, Retired, flash
<1>9. CASE Restart \/ Crash
  <2>1. UNCHANGED flash /\ booted' = FALSE
    BY <1>9 DEF Restart, Crash, Restarted
  <2> QED
    BY <1>0, <1>9, <2>1, MoreMoves DEF Retired, flash
<1> QED
  BY <1>1, <1>2, <1>3, <1>4, <1>5, <1>6, <1>7, <1>8, <1>9 DEF Next, Request, SaveEconet, SaveClock

LEMMA BlankIsBlank ==
  /\ Blanked(Blank) /\ Blanked(NoFile.cfg)
  /\ Blanked(Config(FALSE, None, None, None))
BY DEF Blanked, Blank, Config, EconetOf, NoFile

LEMMA StepForgotten ==
  ASSUME Typed, Turns, Retired, Forgotten, [Next]_vars
  PROVE  Forgotten'
<1>0. /\ "main" \in Tasks /\ "httpd" \in Tasks /\ "timer" \in Tasks
      /\ \A t \in Tasks : t = "main" \/ t = "httpd" \/ t = "timer"
      /\ booted \in BOOLEAN /\ reset \in {"no", "going", "done"}
  BY DEF Tasks, Typed
<1>1. ASSUME reset = "no", UNCHANGED reset PROVE Forgotten'
  BY <1>1 DEF Forgotten
<1>2. CASE Boot
  <2>1. reset = "done" => Blanked(g') /\ wifi' = Default
    <3>1. SUFFICES ASSUME reset = "done" PROVE Blanked(g') /\ wifi' = Default
      OBVIOUS
    <3>2. /\ Blanked(file.cfg) /\ oldFile = None /\ nvs.old.clock = None /\ nvs.old.ssid = None
      BY <3>1 DEF Forgotten, Nvs, NoBlobs, OldBlobs
    <3>3. CASE file = NoFile
      <4>1. g' = Config(FALSE, None, None, None) /\ wifi' = Default
        BY <1>2, <3>2, <3>3 DEF Boot
      <4> QED
        BY <4>1, BlankIsBlank
    <3>4. CASE file # NoFile
      BY <1>2, <3>2, <3>4 DEF Boot, Blanked
    <3> QED
      BY <3>3, <3>4
  <2> QED
    BY <1>0, <1>2, <2>1, MoreMoves DEF Boot, Forgotten, flash
<1>3. CASE OldPass
  <2>1. reset # "no" => nvs' = nvs
    BY <1>3 DEF OldPass, Forgotten, Nvs, NoBlobs, OldBlobs
  <2> QED
    BY <1>0, <1>3, <2>1, Moves, MoreMoves DEF OldPass, Forgotten, Turns, ghosts
<1>4. CASE Retire \/ Run
  BY <1>0, <1>4, Moves, MoreMoves DEF Retire, Run, Forgotten, flash, Turns, ghosts
<1>5. ASSUME NEW new, NEW excuse, Ask(new, excuse) PROVE Forgotten'
  BY <1>5 DEF Ask, Forgotten
<1>6. CASE \E s \in Values, p \in Values \cup {0} : SaveWifi(s, p)
  BY <1>6 DEF SaveWifi, Forgotten
<1>7. CASE FactoryReset \/ UNCHANGED vars
  BY <1>7 DEF FactoryReset, vars, Forgotten, flash, ghosts
<1>8. CASE WifiTimer
  <2>1. reset = "no"
    BY <1>0, <1>8, MoreMoves DEF WifiTimer, Forgotten
  <2> QED
    BY <1>1, <1>8, <2>1 DEF WifiTimer
<1>9. CASE ResetTimer
  BY <1>0, <1>9, MoreMoves DEF ResetTimer, Forgotten, flash, ghosts
<1>10. ASSUME NEW t \in Tasks, SaveFile(t) PROVE Forgotten'
  <2>0. UNCHANGED <<reset, booted, oldFile, wifi, wifiTimer>>
    BY <1>10 DEF SaveFile, Update, Pass, Open, PrintUnformatted, Close, Rename, ghosts, flash
  <2>1. At(todo)[t] \in {"update", "pass", "open", "print", "close", "rename"}
    BY <1>10, Moves DEF SaveFile, Update, Pass, Open, PrintUnformatted, Close, Rename
  <2>2. reset # "no" => t = "main" /\ reset = "done"
    BY <1>0, <2>1 DEF Forgotten, Turns
  <2>3. CASE reset = "no"
    BY <1>1, <2>0, <2>3
  <2>4. CASE reset = "done" /\ t = "main"
    <3>1. CASE Update(t) \/ Pass(t)
      BY <2>4, <3>1, Moves DEF Update, Pass
    <3>2. CASE Open(t)
      BY <1>0, <2>0, <2>4, <3>2, Moves, MoreMoves DEF Open, Forgotten
    <3>3. CASE PrintUnformatted(t)
      <4>1. snap'["main"] = g
        BY <1>0, <2>4, <3>3 DEF PrintUnformatted, Typed
      <4> QED
        BY <1>0, <2>0, <2>4, <3>3, <4>1, Moves, MoreMoves DEF PrintUnformatted, Forgotten, flash
    <3>4. CASE Close(t)
      <4>1. At(todo)["main"] = "close" /\ tmp'.cfg = snap["main"]
        BY <2>4, <3>4, Moves DEF Close, Text
      <4> QED
        BY <1>0, <2>0, <2>4, <3>4, <4>1, Moves, MoreMoves DEF Close, Forgotten
    <3>5. CASE Rename(t)
      <4>1. At(todo)["main"] = "rename" /\ (file' = file \/ file' = tmp)
        BY <2>4, <3>5, Moves DEF Rename
      <4>2. Blanked(file'.cfg)
        BY <2>4, <4>1 DEF Forgotten
      <4> QED
        BY <1>0, <2>0, <2>4, <3>5, <4>2, Moves, MoreMoves DEF Rename, Forgotten
    <3> QED
      BY <1>10, <3>1, <3>2, <3>3, <3>4, <3>5 DEF SaveFile
  <2> QED
    BY <1>0, <2>2, <2>3, <2>4
<1>11. CASE Ok
  <2>1. reset = "no"
    BY <1>0, <1>11, Moves DEF Ok, Forgotten
  <2> QED
    BY <1>1, <1>11, <2>1 DEF Ok
<1>12. CASE Erase
  <2>1. At(todo)["timer"] = "erase" /\ At(todo') = [At(todo) EXCEPT !["timer"] = "remove"]
    BY <1>0, <1>12, Moves DEF Erase
  <2>2. booted /\ oldFile = None
    BY <1>0, <2>1 DEF Turns, Retired
  <2>3. Idle("httpd") => At(todo)["httpd"] = "idle"
    BY <1>0, AtIdle
  <2> QED
    BY <1>0, <1>12, <2>1, <2>2, <2>3, MoreMoves DEF Erase, Forgotten
<1>13. CASE Remove
  <2>1. At(todo)["timer"] = "remove" /\ At(todo') = [At(todo) EXCEPT !["timer"] = "restart"]
    BY <1>0, <1>13, Moves DEF Remove
  <2> QED
    BY <1>0, <1>13, <2>1, MoreMoves DEF Remove, Forgotten
<1>14. CASE Restart \/ Crash
  <2>1. UNCHANGED flash /\ g' = Blank /\ wifi' = Default /\ wifiTimer' = FALSE
    BY <1>14 DEF Restart, Crash, Restarted
  <2>2. reset' = "no" \/ (reset = "going" /\ reset' = "done" /\ Restart) \/ (reset = "done" /\ reset' = "done")
    BY <1>0, <1>14 DEF Restart, Crash
  <2>3. reset' = "done" => Blanked(file.cfg) /\ nvs = Nvs(None, NoBlobs) /\ oldFile = None
    BY <1>14, <2>2, MoreMoves, BlankIsBlank DEF Forgotten
  <2> QED
    BY <1>0, <1>14, <2>1, <2>2, <2>3, MoreMoves, BlankIsBlank DEF Forgotten, flash
<1> QED
  BY <1>2, <1>3, <1>4, <1>5, <1>6, <1>7, <1>8, <1>9, <1>10, <1>11, <1>12, <1>13, <1>14
     DEF Next, Request, SaveEconet, SaveClock

-----------------------------------------------------------------------------
(* What was answered "ok". *)

LEMMA OneSaver ==
  ASSUME Typed, Turns, Saved, Calm, NEW t \in Tasks, NEW u \in Tasks,
         At(todo)[t] \in WhereSaving, At(todo)[u] \in WhereSaving
  PROVE  t = u
BY DEF Typed, Tasks, Turns, Saved, Calm, WhereSaving

(* Steps that only move a task between places the invariant treats alike. *)
LEMMA SavedKept ==
  ASSUME Typed, Saved, UNCHANGED <<file, tmp, g, snap, open, booted, asked, asking>>,
         excused' = excused \/ excused' = TRUE,
         At(todo')["main"] = At(todo)["main"],
         (At(todo')["httpd"] = "idle") <=> (At(todo)["httpd"] = "idle"),
         At(todo')["httpd"] = "ok" => At(todo)["httpd"] = "ok",
         \A t \in Tasks : /\ At(todo')[t] = "close" => At(todo)[t] = "close"
                          /\ At(todo')[t] = "rename" => At(todo)[t] = "rename",
         ~excused' /\ At(todo')["httpd"] \in WhereSaving /\ At(todo')["timer"] \in WhereSaving
           => At(todo)["httpd"] \in WhereSaving /\ At(todo)["timer"] \in WhereSaving
  PROVE  Saved'
<1>1. Calm' => Calm
  BY DEF Calm, Typed
<1>2. Running' = Running
  BY DEF Running
<1>3. (Running /\ At(todo)["httpd"] = "idle" => asked = asking)'
  BY <1>2 DEF Saved
<1>4. (Calm /\ Running =>
         /\ EconetOf(g) = asking
         /\ \A t \in Tasks : At(todo)[t] = "close" => EconetOf(snap[t]) = asking
         /\ \A t \in Tasks : At(todo)[t] = "rename" =>
               EconetOf(tmp.cfg) = asking /\ tmp # NoFile /\ open = {})'
  BY <1>1, <1>2 DEF Saved
<1>5. ~excused' => ~excused
  BY DEF Typed
<1>6. (~excused =>
        /\ EconetOf(file.cfg) \in {asked, asking}
        /\ At(todo)["httpd"] = "ok" => EconetOf(file.cfg) = asking
        /\ ~(At(todo)["httpd"] \in WhereSaving /\ At(todo)["timer"] \in WhereSaving))'
  BY <1>5 DEF Saved
<1>7. (At(todo)["main"] # "idle" =>
        /\ file = NoFile \/ EconetOf(file.cfg) = asking
        /\ At(todo)["main"] \in WhereSaving => file = NoFile /\ excused)'
  BY DEF Saved
<1> QED
  BY <1>3, <1>4, <1>6, <1>7 DEF Saved

LEMMA BootSaved ==
  ASSUME Typed, Turns, Saved, Boot
  PROVE  Saved'
<1>0. /\ "main" \in Tasks /\ "httpd" \in Tasks /\ "timer" \in Tasks
      /\ \A t \in Tasks : t = "main" \/ t = "httpd" \/ t = "timer"
      /\ booted \in BOOLEAN
  BY DEF Tasks, Typed
<1>1. /\ ~booted /\ asked' = EconetOf(g') /\ asking' = EconetOf(g')
      /\ UNCHANGED <<file, tmp, snap, open, booted>>
      /\ excused' = (file = NoFile)
  BY DEF Boot, flash
<1>2. At(todo') = [At(todo) EXCEPT !["main"] = IF file = NoFile THEN "oldpass" ELSE "run"]
  BY MoreMoves
<1>3. /\ At(todo')["main"] = (IF file = NoFile THEN "oldpass" ELSE "run")
      /\ At(todo')["httpd"] = "idle" /\ At(todo')["timer"] = "idle"
  BY <1>0, <1>1, <1>2, MoreMoves DEF Turns
<1>4. file # NoFile => EconetOf(file.cfg) = asking'
  BY <1>1 DEF Boot
<1>5. \A t \in Tasks : At(todo')[t] # "close" /\ At(todo')[t] # "rename"
  BY <1>0, <1>3
<1>6. At(todo')["httpd"] \notin WhereSaving /\ At(todo')["httpd"] # "ok"
  BY <1>3 DEF WhereSaving
<1>7. At(todo')["main"] \in WhereSaving => file = NoFile
  BY <1>3 DEF WhereSaving
<1>8. file = NoFile => excused'
  BY <1>1
<1>9. ~excused' => EconetOf(file'.cfg) \in {asked', asking'}
  BY <1>1, <1>4
<1> QED
  BY <1>1, <1>4, <1>5, <1>6, <1>7, <1>8, <1>9 DEF Saved

LEMMA RunSaved ==
  ASSUME Typed, Turns, Saved, Run
  PROVE  Saved'
<1>0. /\ "main" \in Tasks /\ "httpd" \in Tasks /\ "timer" \in Tasks
      /\ \A t \in Tasks : t = "main" \/ t = "httpd" \/ t = "timer"
      /\ booted \in BOOLEAN /\ excused \in BOOLEAN
  BY DEF Tasks, Typed
<1>1. /\ At(todo)["main"] = "run" /\ At(todo') = [At(todo) EXCEPT !["main"] = "idle"]
      /\ UNCHANGED <<file, tmp, g, snap, open, asked, asking>>
  BY <1>0, Moves DEF Run, flash
<1>2. excused' = (excused /\ file = NoFile)
  BY DEF Run
<1>3. ~booted
  BY <1>0, <1>1 DEF Turns
<1>4. At(todo)["httpd"] = "idle" /\ At(todo)["timer"] = "idle"
  BY <1>3 DEF Turns
<1>5. \A t \in Tasks : At(todo')[t] = "idle"
  BY <1>0, <1>1, <1>4, MoreMoves
<1>6. Running /\ Calm
  BY <1>1, <1>3 DEF Running, Calm
<1>7. asked = asking /\ EconetOf(g) = asking /\ (file = NoFile \/ EconetOf(file.cfg) = asking)
  BY <1>1, <1>4, <1>6 DEF Saved
<1>8. ~excused' => EconetOf(file.cfg) \in {asked, asking}
  <2>1. CASE excused
    BY <1>2, <1>7, <2>1
  <2>2. CASE ~excused
    BY <2>2 DEF Saved
  <2> QED
    BY <2>1, <2>2
<1>9. "idle" \notin WhereSaving
  BY DEF WhereSaving
<1> QED
  BY <1>0, <1>1, <1>5, <1>7, <1>8, <1>9 DEF Saved

LEMMA AskSaved ==
  ASSUME Typed, Turns, Saved, NEW new, NEW excuse \in BOOLEAN, Ask(new, excuse),
         ~excuse => EconetOf(g') = new
  PROVE  Saved'
<1>0. /\ "main" \in Tasks /\ "httpd" \in Tasks /\ "timer" \in Tasks
      /\ \A t \in Tasks : t = "main" \/ t = "httpd" \/ t = "timer"
      /\ booted \in BOOLEAN /\ excused \in BOOLEAN
  BY DEF Tasks, Typed
<1>1. /\ At(todo)["httpd"] = "idle" /\ At(todo') = [At(todo) EXCEPT !["httpd"] = "update"]
  BY MoreMoves
<1>2. /\ booted /\ booted' /\ asking' = new
      /\ UNCHANGED <<file, tmp, snap, open, asked>>
  BY DEF Ask, flash
<1>3. excused' = (excused \/ excuse \/ Saving("timer"))
  BY DEF Ask
<1>4. ~excused' => ~excused /\ ~excuse /\ At(todo)["timer"] \notin WhereSaving
  BY <1>0, <1>3, AtIdle
<1>5. /\ At(todo')["main"] = "idle" /\ At(todo')["httpd"] = "update"
      /\ At(todo')["timer"] = At(todo)["timer"]
  BY <1>0, <1>1, <1>2, MoreMoves DEF Turns
<1>6. ~excused' => /\ At(todo')["timer"] \notin WhereSaving
                   /\ At(todo')["timer"] # "close" /\ At(todo')["timer"] # "rename"
  BY <1>4, <1>5 DEF WhereSaving
<1>7. ~excused' => EconetOf(file.cfg) = asked
  BY <1>1, <1>2, <1>4 DEF Saved, Running
<1>8. Calm' => ~excused' /\ EconetOf(g') = asking'
  BY <1>2, <1>4 DEF Calm
<1>9. Calm' => \A t \in Tasks : At(todo')[t] # "close" /\ At(todo')[t] # "rename"
  BY <1>0, <1>5, <1>6, <1>8
<1>10. ~excused' => EconetOf(file'.cfg) \in {asked', asking'}
  BY <1>2, <1>7
<1> QED
  BY <1>5, <1>6, <1>8, <1>9, <1>10 DEF Saved

(* A step of a saver, which has the flash to itself unless it is excused. *)
LEMMA SaveStepSaved ==
  ASSUME Typed, Turns, Saved, NEW t \in Tasks, SaveFile(t)
  PROVE  Saved'
<1>0. /\ "main" \in Tasks /\ "httpd" \in Tasks /\ "timer" \in Tasks
      /\ \A u \in Tasks : u = "main" \/ u = "httpd" \/ u = "timer"
      /\ booted \in BOOLEAN /\ excused \in BOOLEAN /\ DOMAIN At(todo) = Tasks
      /\ snap \in [Tasks -> Configs] /\ open \subseteq Tasks
  BY MoreMoves DEF Tasks, Typed
<1>1. UNCHANGED <<booted, asked, asking, excused, reset>>
  BY DEF SaveFile, Update, Pass, Open, PrintUnformatted, Close, Rename, ghosts
<1>2. At(todo)[t] \in WhereSaving
  BY Moves DEF SaveFile, Update, Pass, Open, PrintUnformatted, Close, Rename, WhereSaving
<1>3. Calm => \A u \in Tasks : u # t => At(todo)[u] \notin WhereSaving
  BY <1>2, OneSaver
<1>4. Calm => \A u \in Tasks : u # t => At(todo)[u] # "close" /\ At(todo)[u] # "rename"
  BY <1>3 DEF WhereSaving
<1>5. At(todo)[t] # "idle" /\ At(todo)[t] # "ok"
  BY <1>2 DEF WhereSaving
<1>6. Running
  BY <1>0, <1>5 DEF Running, Turns
<1>7. t # "main" => booted
  BY <1>0, <1>5 DEF Turns
<1>8. ~excused => EconetOf(file.cfg) \in {asked, asking}
  BY DEF Saved
<1>9. CASE Update(t) \/ Pass(t) \/ Open(t)
  <2>1. PICK w \in {"pass", "open", "print"} : At(todo') = [At(todo) EXCEPT ![t] = w]
    BY <1>9, Moves DEF Update, Pass, Open
  <2>2. UNCHANGED <<file, snap>> /\ EconetOf(g') = EconetOf(g)
    <3>1. UNCHANGED <<file, snap>> /\ (g' = g \/ g' = [g EXCEPT !.ssid = Replaced(@, wifi.ssid)])
      BY <1>9 DEF Update, Pass, Open, flash
    <3>2. g \in Configs
      BY DEF Typed, Sane
    <3> QED
      BY <3>1, <3>2 DEF Configs, EconetOf
  <2>3. w \in WhereSaving /\ w # "close" /\ w # "rename" /\ w # "ok" /\ w # "idle"
    BY <2>1 DEF WhereSaving
  <2>4. Calm => \A u \in Tasks : At(todo')[u] # "close" /\ At(todo')[u] # "rename"
    BY <1>0, <1>4, <2>1, <2>3
  <2>5. /\ At(todo')["httpd"] = "ok" => At(todo)["httpd"] = "ok"
        /\ At(todo')["httpd"] = "idle" => At(todo)["httpd"] = "idle"
        /\ At(todo')["main"] = "idle" <=> At(todo)["main"] = "idle"
        /\ At(todo')["main"] \in WhereSaving => At(todo)["main"] \in WhereSaving
        /\ At(todo')["httpd"] \in WhereSaving => At(todo)["httpd"] \in WhereSaving
        /\ At(todo')["timer"] \in WhereSaving => At(todo)["timer"] \in WhereSaving
    BY <1>0, <1>2, <1>5, <2>1, <2>3
  <2>6. Calm' = Calm
    BY <1>1 DEF Calm
  <2> QED
    BY <1>1, <1>6, <1>8, <2>2, <2>4, <2>5, <2>6 DEF Saved
<1>10. CASE PrintUnformatted(t)
  <2>1. At(todo') = [At(todo) EXCEPT ![t] = "close"]
    BY <1>10, Moves DEF PrintUnformatted
  <2>2. UNCHANGED <<file, tmp, g, open>> /\ snap'[t] = g
    BY <1>0, <1>10 DEF PrintUnformatted, flash
  <2>3. "close" \in WhereSaving
    BY DEF WhereSaving
  <2>4. Calm => \A u \in Tasks : /\ At(todo')[u] = "close" => u = t
                                 /\ At(todo')[u] # "rename"
    BY <1>0, <1>4, <2>1
  <2>5. /\ At(todo')["httpd"] = "ok" => At(todo)["httpd"] = "ok"
        /\ At(todo')["httpd"] = "idle" => At(todo)["httpd"] = "idle"
        /\ At(todo')["main"] = "idle" <=> At(todo)["main"] = "idle"
        /\ At(todo')["main"] \in WhereSaving => At(todo)["main"] \in WhereSaving
        /\ At(todo')["httpd"] \in WhereSaving => At(todo)["httpd"] \in WhereSaving
        /\ At(todo')["timer"] \in WhereSaving => At(todo)["timer"] \in WhereSaving
    BY <1>0, <1>2, <1>5, <2>1, <2>3
  <2>6. Calm' = Calm
    BY <1>1 DEF Calm
  <2>7. Calm => EconetOf(g) = asking
    BY <1>6 DEF Saved
  <2> QED
    BY <1>1, <1>6, <1>8, <2>2, <2>4, <2>5, <2>6, <2>7 DEF Saved
<1>11. CASE Close(t)
  <2>1. At(todo)[t] = "close" /\ At(todo') = [At(todo) EXCEPT ![t] = "rename"]
    BY <1>11, Moves DEF Close
  <2>2. UNCHANGED <<file, g, snap>> /\ tmp' = Text(snap[t]) /\ open' = open \ {t}
    BY <1>11 DEF Close
  <2>3. "rename" \in WhereSaving
    BY DEF WhereSaving
  <2>4. Calm => \A u \in Tasks : /\ At(todo')[u] = "rename" => u = t
                                 /\ At(todo')[u] # "close"
    BY <1>0, <1>4, <2>1
  <2>5. /\ At(todo')["httpd"] = "ok" => At(todo)["httpd"] = "ok"
        /\ At(todo')["httpd"] = "idle" => At(todo)["httpd"] = "idle"
        /\ At(todo')["main"] = "idle" <=> At(todo)["main"] = "idle"
        /\ At(todo')["main"] \in WhereSaving => At(todo)["main"] \in WhereSaving
        /\ At(todo')["httpd"] \in WhereSaving => At(todo)["httpd"] \in WhereSaving
        /\ At(todo')["timer"] \in WhereSaving => At(todo)["timer"] \in WhereSaving
    BY <1>0, <1>2, <1>5, <2>1, <2>3
  <2>6. Calm' = Calm
    BY <1>1 DEF Calm
  <2>7. tmp'.cfg = snap[t] /\ tmp' # NoFile
    BY <2>2 DEF Text, NoFile
  <2>8. Calm => EconetOf(snap[t]) = asking /\ EconetOf(g) = asking
    BY <1>6, <2>1 DEF Saved
  <2>9. Calm => open' = {}
    <3>1. Calm => \A u \in open : u = t
      BY <1>0, <1>3 DEF Turns, WhereSaving
    <3> QED
      BY <2>2, <3>1
  <2> QED
    BY <1>1, <1>6, <1>8, <2>2, <2>4, <2>5, <2>6, <2>7, <2>8, <2>9 DEF Saved
<1>12. CASE Rename(t)
  <2> DEFINE w == IF t = "main" THEN "run" ELSE IF t = "httpd" THEN "ok" ELSE "idle"
  <2>1. At(todo)[t] = "rename" /\ At(todo') = [At(todo) EXCEPT ![t] = w]
    BY <1>12, Moves DEF Rename
  <2>2. UNCHANGED <<g, snap, open>>
    BY <1>12 DEF Rename
  <2>3. /\ w \notin WhereSaving /\ w # "rename" /\ w # "close"
        /\ t = "main" => w # "idle"
        /\ t = "httpd" => w # "idle"
    BY DEF WhereSaving
  <2> HIDE DEF w
  <2>4. Calm' = Calm
    BY <1>1 DEF Calm
  <2>5. Calm => EconetOf(g) = asking /\ EconetOf(tmp.cfg) = asking /\ tmp # NoFile /\ open = {}
    BY <1>6, <2>1 DEF Saved
  <2>6. Calm => EconetOf(file'.cfg) = asking
    BY <1>12, <2>5 DEF Rename, Renamable
  <2>7. Calm => \A u \in Tasks : At(todo')[u] # "rename" /\ At(todo')[u] # "close"
    BY <1>0, <1>4, <2>1, <2>3
  <2>8. /\ At(todo')["httpd"] = "idle" => At(todo)["httpd"] = "idle"
        /\ At(todo')["main"] = "idle" <=> At(todo)["main"] = "idle"
        /\ At(todo')["httpd"] \in WhereSaving => At(todo)["httpd"] \in WhereSaving
        /\ At(todo')["timer"] \in WhereSaving => At(todo)["timer"] \in WhereSaving
    BY <1>0, <1>5, <2>1, <2>3
  <2>9. ~excused => Calm
    BY DEF Calm
  <2>10. At(todo')["main"] # "idle" => EconetOf(file'.cfg) = asking /\ At(todo')["main"] \notin WhereSaving
    <3>1. SUFFICES ASSUME At(todo')["main"] # "idle"
                   PROVE  EconetOf(file'.cfg) = asking /\ At(todo')["main"] \notin WhereSaving
      OBVIOUS
    <3>2. ~booted
      BY <1>0, <2>8, <3>1 DEF Turns
    <3>3. t = "main" /\ Calm
      BY <1>7, <3>2 DEF Calm
    <3> QED
      BY <1>0, <2>1, <2>3, <2>6, <3>3
  <2> QED
    BY <1>1, <1>6, <2>2, <2>4, <2>5, <2>6, <2>7, <2>8, <2>9, <2>10 DEF Saved
<1> QED
  BY <1>9, <1>10, <1>11, <1>12 DEF SaveFile

LEMMA StepSaved ==
  ASSUME Typed, Turns, Saved, [Next]_vars
  PROVE  Saved'
<1>0. /\ "main" \in Tasks /\ "httpd" \in Tasks /\ "timer" \in Tasks
      /\ \A t \in Tasks : t = "main" \/ t = "httpd" \/ t = "timer"
      /\ booted \in BOOLEAN /\ excused \in BOOLEAN /\ DOMAIN At(todo) = Tasks
      /\ Sane(g)
  BY MoreMoves DEF Tasks, Typed
<1>1. CASE OldPass \/ Retire
  <2>1. PICK w \in {"retire", "open"} : /\ At(todo') = [At(todo) EXCEPT !["main"] = w]
                                         /\ At(todo)["main"] \in {"oldpass", "retire"}
    BY <1>0, <1>1, Moves DEF OldPass, Retire
  <2>2. UNCHANGED <<file, tmp, g, snap, open, booted, asked, asking, excused>>
    BY <1>1 DEF OldPass, Retire, ghosts
  <2>3. \A t \in Tasks : t # "main" => At(todo')[t] = At(todo)[t]
    BY <1>0, <2>1
  <2>4. /\ At(todo')["main"] = w /\ w # "idle" /\ w # "close" /\ w # "rename"
        /\ At(todo)["main"] # "idle" /\ At(todo)["main"] \in WhereSaving
    BY <1>0, <2>1 DEF WhereSaving
  <2>5. Running' = Running /\ Calm' = Calm
    BY <2>2, <2>4 DEF Running, Calm
  <2> QED
    BY <1>0, <2>2, <2>3, <2>4, <2>5 DEF Saved
<1>2. ASSUME NEW s \in Values, NEW c \in Values, SaveEconet(s, c) PROVE Saved'
  <2>1. Ask(<<s, c>>, ~g.section) /\ (g.section => EconetOf(g') = <<s, c>>)
    BY <1>0, <1>2 DEF SaveEconet, EconetOf, Sane, Configs
  <2> QED
    BY <1>0, <2>1, AskSaved DEF Sane, Configs
<1>3. ASSUME NEW c \in Values, SaveClock(c) PROVE Saved'
  <2>1. Ask(<<g.stations, c>>, g.clock = None)
    BY <1>3 DEF SaveClock
  <2>2. g.clock # None => EconetOf(g') = <<g.stations, c>>
    BY <1>0, <1>3 DEF SaveClock, EconetOf, Sane, Configs, Replaced
  <2> QED
    BY <2>1, <2>2, AskSaved
<1>4. CASE (\E s \in Values, p \in Values \cup {0} : SaveWifi(s, p)) \/ FactoryReset \/ UNCHANGED vars
  <2>1. UNCHANGED <<file, tmp, g, snap, open, booted, asked, asking, excused, todo>>
    BY <1>4 DEF SaveWifi, FactoryReset, vars, flash, ghosts
  <2> QED
    BY <2>1, SavedKept
<1>5. CASE WifiTimer
  <2>1. At(todo)["timer"] = "idle" /\ At(todo') = [At(todo) EXCEPT !["timer"] = "update"]
    BY <1>5, MoreMoves
  <2>2. /\ UNCHANGED <<file, tmp, g, snap, open, booted, asked, asking>>
        /\ excused' = (excused \/ Saving("httpd"))
    BY <1>5 DEF WifiTimer, flash
  <2>3. \A t \in Tasks : /\ At(todo')[t] = "close" => At(todo)[t] = "close"
                         /\ At(todo')[t] = "rename" => At(todo)[t] = "rename"
    BY <1>0, <2>1
  <2>4. At(todo')["main"] = At(todo)["main"] /\ At(todo')["httpd"] = At(todo)["httpd"]
    BY <1>0, <2>1
  <2>5. ~excused' => At(todo)["httpd"] \notin WhereSaving
    BY <1>0, <2>2, AtIdle
  <2>6. excused' = excused \/ excused' = TRUE
    BY <1>0, <2>2
  <2> QED
    BY <2>2, <2>3, <2>4, <2>5, <2>6, SavedKept
<1>6. CASE ResetTimer
  <2>1. At(todo') = [At(todo) EXCEPT !["timer"] = "erase"]
    BY <1>6, MoreMoves
  <2>2. UNCHANGED <<file, tmp, g, snap, open, booted, asked, asking, excused>>
    BY <1>6 DEF ResetTimer, flash, ghosts
  <2>3. \A t \in Tasks : /\ At(todo')[t] = "close" => At(todo)[t] = "close"
                         /\ At(todo')[t] = "rename" => At(todo)[t] = "rename"
    BY <1>0, <2>1
  <2>4. /\ At(todo')["main"] = At(todo)["main"] /\ At(todo')["httpd"] = At(todo)["httpd"]
        /\ At(todo')["timer"] \notin WhereSaving
    BY <1>0, <2>1 DEF WhereSaving
  <2> QED
    BY <2>2, <2>3, <2>4, SavedKept
<1>7. CASE Ok
  <2>1. At(todo)["httpd"] = "ok" /\ At(todo') = [At(todo) EXCEPT !["httpd"] = "idle"]
    BY <1>0, <1>7, Moves DEF Ok
  <2>2. UNCHANGED <<file, tmp, g, snap, open, booted, asking, excused>> /\ asked' = asking
    BY <1>7 DEF Ok, flash
  <2>3. /\ At(todo')["httpd"] = "idle" /\ \A t \in Tasks : t # "httpd" => At(todo')[t] = At(todo)[t]
    BY <1>0, <2>1
  <2>4. "idle" \notin WhereSaving /\ "main" # "httpd"
    BY DEF WhereSaving
  <2>5. Running' = Running /\ Calm' = Calm
    BY <1>0, <2>2, <2>3, <2>4 DEF Running, Calm
  <2> QED
    BY <1>0, <2>1, <2>2, <2>3, <2>4, <2>5 DEF Saved
<1>8. CASE Erase
  <2>1. At(todo') = [At(todo) EXCEPT !["timer"] = "remove"]
    BY <1>0, <1>8, Moves DEF Erase
  <2>2. UNCHANGED <<file, tmp, g, snap, open, booted, asked, asking, excused>>
    BY <1>8 DEF Erase
  <2>3. \A t \in Tasks : /\ At(todo')[t] = "close" => At(todo)[t] = "close"
                         /\ At(todo')[t] = "rename" => At(todo)[t] = "rename"
    BY <1>0, <2>1
  <2>4. /\ At(todo')["main"] = At(todo)["main"] /\ At(todo')["httpd"] = At(todo)["httpd"]
        /\ At(todo')["timer"] \notin WhereSaving
    BY <1>0, <2>1 DEF WhereSaving
  <2> QED
    BY <2>2, <2>3, <2>4, SavedKept
<1>9. CASE Remove
  <2>1. At(todo)["timer"] = "remove" /\ At(todo') = [At(todo) EXCEPT !["timer"] = "restart"]
    BY <1>0, <1>9, Moves DEF Remove
  <2>2. UNCHANGED <<booted, asked, asking>> /\ excused' = TRUE
    BY <1>9 DEF Remove
  <2>3. booted
    BY <1>0, <2>1 DEF Turns
  <2>4. At(todo')["main"] = "idle" /\ At(todo')["httpd"] = At(todo)["httpd"]
    BY <1>0, <2>1, <2>3 DEF Turns
  <2> QED
    BY <2>2, <2>3, <2>4 DEF Saved, Calm, Running
<1>10. CASE Restart \/ Crash
  <2>1. UNCHANGED <<file, asked, asking, excused>> /\ booted' = FALSE
    BY <1>10 DEF Restart, Crash, Restarted, flash
  <2>2. \A t \in Tasks : At(todo')[t] = "idle"
    BY <1>10, MoreMoves
  <2>3. "idle" \notin WhereSaving
    BY DEF WhereSaving
  <2> QED
    BY <1>0, <2>1, <2>2, <2>3 DEF Saved, Running
<1> QED
  BY <1>1, <1>2, <1>3, <1>4, <1>5, <1>6, <1>7, <1>8, <1>9, <1>10, BootSaved, RunSaved, SaveStepSaved
     DEF Next, Request

-----------------------------------------------------------------------------
(* The theorems. *)

LEMMA InitConfigInv == Init => ConfigInv
<1> SUFFICES ASSUME Init PROVE ConfigInv
  OBVIOUS
<1>1. PICK first \in FirstBoots, v \in Values :
        /\ file = IF first = "set" THEN Text(Config(TRUE, v, v, v)) ELSE NoFile
        /\ oldFile = IF first = "old" THEN v ELSE None
  BY DEF Init
<1>2. \A t \in Tasks : At(todo)[t] = "idle"
  BY Starts DEF Init, At
<1>3. "main" \in Tasks /\ "httpd" \in Tasks /\ "timer" \in Tasks /\ "idle" \notin WhereSaving
  BY DEF Tasks, WhereSaving
<1>4. Turns
  BY <1>2, <1>3 DEF Init, Turns
<1>5. Whole
  BY <1>1, <1>2 DEF Init, Whole, Text, NoFile
<1>6. Saved
  BY <1>2, <1>3 DEF Init, Saved, Running
<1>7. Retired
  BY <1>1, <1>2, <1>3 DEF Init, Retired
<1>8. Forgotten
  BY DEF Init, Forgotten
<1> QED
  BY <1>4, <1>5, <1>6, <1>7, <1>8, InitTyped DEF ConfigInv

LEMMA StaysConfigInv == Spec => []ConfigInv
<1>1. ConfigInv /\ [Next]_vars => ConfigInv'
  BY StepTyped, StepTurns, StepWhole, StepSaved, StepRetired, StepForgotten DEF ConfigInv
<1> QED
  BY <1>1, InitConfigInv, PTL DEF Spec

(* The file is never the empty or half-written temporary one, whichever    *)
(* tasks save at a time and wherever the power fails.                       *)
THEOREM TheFileIsWhole == Spec => []FileWhole
<1>1. ConfigInv => FileWhole
  BY DEF ConfigInv, Typed, Whole, FileWhole, TypeOK, Sane, Files
<1> QED
  BY <1>1, StaysConfigInv, PTL

(* What was answered "ok" is in the file, or what is being saved is, as    *)
(* long as two tasks do not save at a time.                                 *)
THEOREM SavesSurvive == Spec => []SavedSurvives
<1>1. ConfigInv => SavedSurvives
  BY DEF ConfigInv, Saved, SavedSurvives
<1> QED
  BY <1>1, StaysConfigInv, PTL

(* After a factory reset nothing comes back, at no later start and however *)
(* often the power fails, until something is saved.                         *)
THEOREM ResetForgets == Spec => []ResetIsReset
<1>1. ConfigInv => ResetIsReset
  BY DEF ConfigInv, Forgotten, Blanked, ResetIsReset
<1> QED
  BY <1>1, StaysConfigInv, PTL
==============================================================================
