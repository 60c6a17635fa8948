----------------------------- MODULE ConfigStore -----------------------------
(***************************************************************************)
(* config.c and the handlers of http_ws.c that save: a JSON file replaced  *)
(* by rename, secrets in NVS, the migration of the format before, the      *)
(* factory reset, and power that may fail between any two writes.          *)
(*                                                                         *)
(* Three tasks write: start-up (config_init), esp_http_server's (requests) *)
(* and the timer service, which saves WiFi settings three seconds after    *)
(* the request (reconfig_wifi) and performs the factory reset.  "todo" is  *)
(* what each still has to do; a step writes the flash at most once, and a  *)
(* flash write is atomic: MetadataPair shows it of the rename.              *)
(*                                                                         *)
(* Of the settings the model keeps stations and clock, the two parts of    *)
(* the section "econet", and name and password of the network; the access  *)
(* point goes the way the network goes, "trunks" the way "econet" does.     *)
(***************************************************************************)
EXTENDS Integers, Sequences

CONSTANTS
  Values,         \* values of a setting; 0 is the default, or an empty password
  FirstBoots,     \* what the flash holds at first: "set", "old" or "fresh"
  MaxSaves,       \* saves the pages ask for in a run (a bound)
  MaxCrashes      \* power failures in a run (a bound)

ASSUME ConfigAssumption ==
  /\ Values \subseteq Nat \ {0}
  /\ FirstBoots \subseteq {"set", "old", "fresh"}
  /\ MaxSaves \in Nat /\ MaxCrashes \in Nat

VARIABLES
  file, tmp,      \* /user/config.json and /user/config.tmp
  oldFile,        \* the stations in /user/econet_cfg.bin
  nvs,            \* the saved password, and WiFi settings and clock in the old format
  g, wifi,        \* g_config and config_wifi
  todo,           \* the steps before each task
  snap,           \* the text a task has printed from g
  open,           \* the tasks that have config.tmp open
  wifiTimer, resetTimer,
  booted, saves, crashes,
  asked, asking,  \* ghosts: the econet section last answered "ok", and in hand
  excused,        \* ghost: two tasks saved at a time, or a member was missing
  reset           \* ghost: whether a factory reset is "going" on or "done"

flash == <<file, tmp, oldFile, nvs>>
ghosts == <<asked, asking, excused, reset>>
counts == <<saves, crashes>>
vars == <<flash, g, wifi, todo, snap, open, wifiTimer, resetTimer, booted,
          counts, ghosts>>

None == -1
Tasks == {"main", "httpd", "timer"}

(* A configuration: the members of "econet" and the network's name, each   *)
(* None when the object lacks it; "section" tells if there is an "econet". *)
Config(section, stations, clock, ssid) ==
  [section |-> section, stations |-> stations, clock |-> clock, ssid |-> ssid]
Blank == Config(FALSE, None, None, None)
EconetOf(c) == <<c.stations, c.clock>>
Members == Values \cup {None}

Text(c) == [kind |-> "text", cfg |-> c]
NoFile == [kind |-> "none", cfg |-> Blank]
EmptyFile == [kind |-> "empty", cfg |-> Blank]

Network(ssid, pass) == [ssid |-> ssid, pass |-> pass]
Default == Network(0, 0)
Nvs(pass, old) == [pass |-> pass, old |-> old]
OldBlobs(ssid, pass, clock) == [ssid |-> ssid, pass |-> pass, clock |-> clock]
NoBlobs == OldBlobs(None, None, None)

Idle(t) == todo[t] = <<>>
Saving(t) == \E i \in DOMAIN todo[t] : todo[t][i] = "rename"

-----------------------------------------------------------------------------
(* config_save, and save_json_file in it. *)
SaveStepsRenameFirst == <<"update", "pass", "open", "print", "rename", "close">>
SaveSteps == <<"update", "pass", "open", "print", "close", "rename">>

(* migrate_old_config: passwords, then the old file out of the way, then   *)
(* save_json_file; "run" is the end of config_init.                         *)
MigrateStepsKeepOld == <<"oldpass", "open", "print", "close", "rename", "run">>
MigrateSteps == <<"oldpass", "retire", "open", "print", "close", "rename", "run">>

(* factory_reset_cb *)
ResetSteps == <<"erase", "remove", "restart">>

Step(t, name) ==
  /\ ~Idle(t) /\ Head(todo[t]) = name
  /\ todo' = [todo EXCEPT ![t] = Tail(@)]

(* cJSON_ReplaceItemInObject replaces nothing where there is nothing. *)
Replaced(old, new) == IF old = None THEN None ELSE new

Update(t) ==
  /\ Step(t, "update")
  /\ g' = [g EXCEPT !.ssid = Replaced(@, wifi.ssid)]
  /\ UNCHANGED <<flash, wifi, snap, open, wifiTimer, resetTimer, booted, counts, ghosts>>

(* An empty password is not saved: the one in NVS stays (config.c:220). *)
Pass(t) ==
  /\ Step(t, "pass")
  /\ nvs' = [nvs EXCEPT !.pass = IF wifi.pass = 0 THEN @ ELSE wifi.pass]
  /\ UNCHANGED <<file, tmp, oldFile, g, wifi, snap, open, wifiTimer, resetTimer,
                 booted, counts, ghosts>>

(* fopen(config.tmp, "w"): the file is there from now on, what it held is  *)
(* replaced when the new contents are written.                              *)
OpenInPlace(t) ==
  /\ Step(t, "open")
  /\ open' = open \cup {t}
  /\ file' = EmptyFile
  /\ UNCHANGED <<tmp, oldFile, nvs, g, wifi, snap, wifiTimer, resetTimer, booted,
                 counts, ghosts>>

Open(t) ==
  /\ Step(t, "open")
  /\ open' = open \cup {t}
  /\ tmp' = IF tmp = NoFile THEN EmptyFile ELSE tmp
  /\ UNCHANGED <<file, oldFile, nvs, g, wifi, snap, wifiTimer, resetTimer, booted,
                 counts, ghosts>>

PrintUnformatted(t) ==
  /\ Step(t, "print")
  /\ snap' = [snap EXCEPT ![t] = g]
  /\ UNCHANGED <<flash, g, wifi, open, wifiTimer, resetTimer, booted, counts, ghosts>>

(* fputs and fclose *)
Close(t) ==
  /\ Step(t, "close")
  /\ open' = open \ {t}
  /\ tmp' = Text(snap[t])
  /\ UNCHANGED <<file, oldFile, nvs, g, wifi, snap, wifiTimer, resetTimer, booted,
                 counts, ghosts>>

(* rename fails when the file is open (esp_littlefs.c:2028) or gone, and   *)
(* config_save with it: its callers answer "ok" all the same.               *)
Renamable == tmp # NoFile /\ open = {}

Rename(t) ==
  /\ Step(t, "rename")
  /\ IF Renamable THEN file' = tmp /\ tmp' = NoFile ELSE UNCHANGED <<file, tmp>>
  /\ UNCHANGED <<oldFile, nvs, g, wifi, snap, open, wifiTimer, resetTimer, booted,
                 counts, ghosts>>

(* The response to save_econet and save_econet_clock. *)
Ok ==
  /\ Step("httpd", "ok")
  /\ asked' = asking
  /\ UNCHANGED <<flash, g, wifi, snap, open, wifiTimer, resetTimer, booted, counts,
                 asking, excused, reset>>

SaveFile(t) == Update(t) \/ Pass(t) \/ Open(t) \/ PrintUnformatted(t) \/ Close(t) \/ Rename(t)

-----------------------------------------------------------------------------
(* Start-up: config_init. *)

Boot ==
  /\ ~booted /\ Idle("main")
  /\ IF file = NoFile
     THEN (* migrate_old_config; nothing sets config_wifi from the result *)
          /\ g' = Config(oldFile # None \/ nvs.old.clock # None, oldFile, nvs.old.clock,
                         nvs.old.ssid)
          /\ wifi' = Default
          /\ todo' = [todo EXCEPT !["main"] = MigrateSteps]
     ELSE (* load_json_file, load_wifi_from_json *)
          /\ g' = file.cfg
          /\ wifi' = IF file.cfg.ssid = None THEN Default
                     ELSE Network(file.cfg.ssid, IF nvs.pass = None THEN 0 ELSE nvs.pass)
          /\ todo' = [todo EXCEPT !["main"] = <<"run">>]
  /\ asked' = EconetOf(g') /\ asking' = EconetOf(g')
  /\ excused' = (file = NoFile)
  /\ UNCHANGED <<flash, snap, open, wifiTimer, resetTimer, booted, counts, reset>>

OldPass ==
  /\ Step("main", "oldpass")
  /\ nvs' = [nvs EXCEPT !.pass = IF nvs.old.pass \in {None, 0} THEN @ ELSE nvs.old.pass]
  /\ UNCHANGED <<file, tmp, oldFile, g, wifi, snap, open, wifiTimer, resetTimer,
                 booted, counts, ghosts>>

(* rename(OLD_ECONET_FILE, "/user/econet_cfg.bin.old") *)
Retire ==
  /\ Step("main", "retire")
  /\ oldFile' = None
  /\ UNCHANGED <<file, tmp, nvs, g, wifi, snap, open, wifiTimer, resetTimer, booted,
                 counts, ghosts>>

Run ==
  /\ Step("main", "run")
  /\ booted' = TRUE
  /\ excused' = (excused /\ file = NoFile)
  /\ UNCHANGED <<flash, g, wifi, snap, open, wifiTimer, resetTimer, counts, asked,
                 asking, reset>>

-----------------------------------------------------------------------------
(* The requests. *)

Ask(new, excuse) ==
  /\ booted /\ Idle("httpd") /\ saves < MaxSaves
  /\ saves' = saves + 1
  /\ todo' = [todo EXCEPT !["httpd"] = SaveSteps \o <<"ok">>]
  /\ asking' = new
  /\ excused' = (excused \/ excuse \/ Saving("timer"))
  /\ reset' = "no"
  /\ UNCHANGED <<flash, wifi, snap, open, wifiTimer, resetTimer, booted, crashes, asked>>

(* save_econet, config_save_econet: the page sends the whole section, the  *)
(* clock as it was when the page read it.                                   *)
SaveEconet(stations, clock) ==
  /\ Ask(<<stations, clock>>, ~g.section)
  /\ g' = IF g.section THEN [g EXCEPT !.stations = stations, !.clock = clock] ELSE g

(* save_econet_clock, config_set_econet_clock *)
SaveClock(clock) ==
  /\ Ask(<<g.stations, clock>>, g.clock = None)
  /\ g' = [g EXCEPT !.section = TRUE, !.clock = Replaced(@, clock)]

(* save_wifi: in use at once, saved by the timer. *)
SaveWifi(ssid, pass) ==
  /\ booted /\ Idle("httpd") /\ saves < MaxSaves
  /\ saves' = saves + 1
  /\ wifi' = Network(ssid, pass)
  /\ wifiTimer' = TRUE
  /\ reset' = "no"
  /\ UNCHANGED <<flash, g, todo, snap, open, resetTimer, booted, crashes, asked,
                 asking, excused>>

(* reconfig_wifi *)
WifiTimer ==
  /\ wifiTimer /\ Idle("timer")
  /\ wifiTimer' = FALSE
  /\ todo' = [todo EXCEPT !["timer"] = SaveSteps]
  /\ excused' = (excused \/ Saving("httpd"))
  /\ UNCHANGED <<flash, g, wifi, snap, open, resetTimer, booted, counts, asked,
                 asking, reset>>

FactoryReset ==
  /\ booted /\ Idle("httpd") /\ ~resetTimer /\ saves < MaxSaves
  /\ saves' = saves + 1
  /\ resetTimer' = TRUE
  /\ UNCHANGED <<flash, g, wifi, todo, snap, open, wifiTimer, booted, crashes, ghosts>>

ResetTimer ==
  /\ resetTimer /\ Idle("timer")
  /\ resetTimer' = FALSE
  /\ todo' = [todo EXCEPT !["timer"] = ResetSteps]
  /\ UNCHANGED <<flash, g, wifi, snap, open, wifiTimer, booted, counts, ghosts>>

(* factory_reset_cb: nvs_flash_erase takes the old format's blobs as well. *)
Erase ==
  /\ Step("timer", "erase")
  /\ nvs' = Nvs(None, NoBlobs)
  /\ reset' = IF Idle("httpd") THEN "going" ELSE "no"
  /\ UNCHANGED <<file, tmp, oldFile, g, wifi, snap, open, wifiTimer, resetTimer,
                 booted, counts, asked, asking, excused>>

Remove ==
  /\ Step("timer", "remove")
  /\ file' = NoFile
  /\ excused' = TRUE
  /\ UNCHANGED <<tmp, oldFile, nvs, g, wifi, snap, open, wifiTimer, resetTimer,
                 booted, counts, asked, asking, reset>>

(* Everything in memory goes: esp_restart, or the power fails. *)
Restarted ==
  /\ todo' = [t \in Tasks |-> <<>>]
  /\ snap' = [t \in Tasks |-> Blank]
  /\ open' = {} /\ g' = Blank /\ wifi' = Default
  /\ wifiTimer' = FALSE /\ resetTimer' = FALSE /\ booted' = FALSE
  /\ UNCHANGED <<flash, saves, asked, asking, excused>>

Restart ==
  /\ ~Idle("timer") /\ Head(todo["timer"]) = "restart"
  /\ Restarted
  /\ reset' = IF reset = "going" THEN "done" ELSE reset
  /\ UNCHANGED crashes

Crash ==
  /\ crashes < MaxCrashes
  /\ crashes' = crashes + 1
  /\ Restarted
  /\ reset' = IF reset = "going" THEN "no" ELSE reset

-----------------------------------------------------------------------------
(* A device that has been set up, one that still has the old format, and   *)
(* one freshly flashed.                                                     *)
Init ==
  /\ \E first \in FirstBoots, v \in Values :
       /\ file = IF first = "set" THEN Text(Config(TRUE, v, v, v)) ELSE NoFile
       /\ oldFile = IF first = "old" THEN v ELSE None
       /\ nvs = IF first = "set" THEN Nvs(v, NoBlobs)
                ELSE Nvs(None, IF first = "old" THEN OldBlobs(v, v, v) ELSE NoBlobs)
       /\ asked = EconetOf(file.cfg) /\ asking = EconetOf(file.cfg)
  /\ tmp = NoFile
  /\ todo = [t \in Tasks |-> <<>>] /\ snap = [t \in Tasks |-> Blank]
  /\ open = {} /\ g = Blank /\ wifi = Default
  /\ wifiTimer = FALSE /\ resetTimer = FALSE /\ booted = FALSE
  /\ saves = 0 /\ crashes = 0 /\ excused = TRUE /\ reset = "no"

Request ==
  \/ \E s, c \in Values : SaveEconet(s, c)
  \/ \E c \in Values : SaveClock(c)
  \/ \E s \in Values, p \in Values \cup {0} : SaveWifi(s, p)
  \/ FactoryReset

Next ==
  \/ Boot \/ OldPass \/ Retire \/ Run
  \/ Request \/ WifiTimer \/ ResetTimer
  \/ \E t \in Tasks : SaveFile(t)
  \/ Ok \/ Erase \/ Remove \/ Restart \/ Crash

Spec == Init /\ [][Next]_vars

-----------------------------------------------------------------------------
Configs == [section : BOOLEAN, stations : Members, clock : Members,
            ssid : Members \cup {0}]

TypeOK ==
  /\ file.cfg \in Configs /\ tmp.cfg \in Configs /\ g \in Configs
  /\ file.kind \in {"none", "empty", "text"} /\ tmp.kind \in {"none", "empty", "text"}
  /\ oldFile \in Members
  /\ nvs.pass \in Members
  /\ wifi \in [ssid : Values \cup {0}, pass : Values \cup {0}]
  /\ snap \in [Tasks -> Configs]
  /\ open \subseteq Tasks
  /\ wifiTimer \in BOOLEAN /\ resetTimer \in BOOLEAN /\ booted \in BOOLEAN
  /\ g.section \/ EconetOf(g) = <<None, None>>

(* config.json is a whole configuration, wherever the power fails and      *)
(* whichever tasks save: never the empty or half-written temporary file    *)
(* (config.c:152-183).                                                      *)
FileWhole == TypeOK /\ file.kind # "empty"

(* What a page was told is saved is what the next start loads, or else     *)
(* what is being saved; excused are two saves at a time, and saves into a  *)
(* section that was missing (http_ws.c:119-132, config.c:783-832).          *)
SavedSurvives == excused \/ EconetOf(file.cfg) \in {asked, asking}

(* After a factory reset nothing set before comes back: neither from the   *)
(* file, nor from NVS, nor by the migration of the format before            *)
(* (http_ws.c:313-340, config.c:468).                                       *)
ResetIsReset ==
  reset = "done" /\ booted =>
    /\ EconetOf(g) = <<None, None>> /\ g.ssid = None
    /\ wifi = Default /\ nvs = Nvs(None, NoBlobs)

(* "After connecting WiFi and verifying you have access, you can configure *)
(* the Econet/AUN settings" (README.md:96): settings answered "ok" are in   *)
(* the file.                                                                *)
SavedIsKept == booted /\ Idle("httpd") => EconetOf(file.cfg) = asked
==============================================================================
