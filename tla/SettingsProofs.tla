--------------------------- MODULE SettingsProofs ---------------------------
(***************************************************************************)
(* What is in force, and what a task works with, when commands run at the   *)
(* same time: for every number of commands, providers and crashes, and      *)
(* steps in any order.                                                      *)
(***************************************************************************)
EXTENDS Settings, TLAPS

Saved == LoadAppSettings.save

(* The fields of a start and of a save.                                     *)
StartFields(step) ==
    {"kind", "step", "provider", "since"}
      \cup (IF step = "load" THEN {} ELSE {"connection"})
      \cup (IF step \in {"load", "copy"} THEN {} ELSE {"client"})
      \cup (IF step \in {"run", "entitle"} THEN {"compacts"} ELSE {})
      \cup (IF step = "entitle" THEN {"runs"} ELSE {})

SaveFields(step) ==
    {"kind", "step", "settings"}
      \cup (IF step \in {"agent", "slot", "config", "title"} THEN {"client"} ELSE {})

Starting(x) ==
    /\ x.kind = "start" /\ DOMAIN x = StartFields(x.step)
    /\ x.step \in {"load", "copy", "agent", "slot", "config", "prepare", "run", "entitle"}

Saving(x) ==
    /\ x.kind = "save" /\ DOMAIN x = SaveFields(x.step)
    /\ x.step \in {"truncate", "write", "tray", "copy", "agent", "slot", "config", "title"}

Shape ==
    /\ DOMAIN calls = Calls /\ DOMAIN config = {"client", "title"}
    /\ \A c \in Calls : calls[c].step = "none" \/ Starting(calls[c]) \/ Saving(calls[c])

(* A start no other command has come into: it has what it wrote.            *)
Undisturbed(x) ==
    /\ x.step = "load" => x.since = Saved
    /\ x.step # "load" => x.connection = Connection(x.provider, x.since)
    /\ x.step \notin {"load", "copy"} => x.client.connection = x.connection
    /\ x.step \in {"slot", "config", "prepare", "run"} => agent = x.client
    /\ x.step \in {"config", "prepare", "run", "entitle"} => slot = x.client
    /\ x.step \in {"run", "entitle"} => x.compacts = x.client
    /\ x.step = "entitle" => x.runs = x.client

Own ==
    /\ \A c \in Calls : Starting(calls[c]) /\ c \notin disturbed => Undisturbed(calls[c])
    /\ OwnProvider

(* What is in force, as far as it is not in doubt.                          *)
OneClient == agent = slot /\ config.client = slot /\ agent.window = config.title
FileInForce == config.title = Saved /\ closing.tray = LoadAppSettings.tray
InForce == doubt # "all" => OneClient /\ (doubt = "none" => FileInForce)

(* A command that updates the copies alone: what it has replaced is its own *)
(* and the rest is as it was.                                               *)
StartsAlone(x) == doubt # "all" =>
    /\ x.client.window = config.title
    /\ doubt = "none" => FileInForce
    /\ x.step = "agent" => OneClient
    /\ x.step # "agent" => agent = x.client
    /\ x.step = "config" => slot = x.client

SavesAlone(x) ==
    /\ x.step \in {"write", "tray", "copy", "agent"} => (doubt # "all" => OneClient)
    /\ x.step # "write" => LoadAppSettings = x.settings
    /\ x.step \notin {"write", "tray"} => closing.tray = x.settings.tray
    /\ x.step \in {"agent", "slot", "config", "title"} => x.client.window = x.settings.save
    /\ x.step \in {"slot", "config", "title"} => agent = x.client
    /\ x.step \in {"config", "title"} => slot = x.client
    /\ x.step = "title" => config.client = x.client

Alone(x) == IF x.kind = "start" THEN StartsAlone(x) ELSE SavesAlone(x)

ForceInv ==
    /\ Updating = {} => InForce
    /\ \A c \in Updating : c \in overlapped => doubt = "all"
    /\ \A c, d \in Updating : c # d => c \in overlapped
    /\ \A c \in Updating : c \notin overlapped => Alone(calls[c])

SettingsInv == Shape /\ Own /\ ForceInv

-----------------------------------------------------------------------------
(* How a command goes on.                                                   *)

Updates(x) ==
    \/ x.step \in {"write", "tray", "agent", "slot", "config", "title"}
    \/ x.step = "copy" /\ x.kind = "save"

LEMMA WhoUpdates == Updating = {c \in Calls : Updates(calls[c])}
BY DEF Updating, Updates

LEMMA Stepped ==
    ASSUME Shape, NEW c \in Calls, NEW y, Step(c, y)
    PROVE  /\ DOMAIN calls' = Calls /\ calls'[c] = y
           /\ \A d \in Calls \ {c} : calls'[d] = calls[d]
BY DEF Step, Shape

LEMMA NewShape ==
    ASSUME Shape, NEW c \in Calls, NEW y, Step(c, y), DOMAIN config' = {"client", "title"},
           y.step = "none" \/ Starting(y) \/ Saving(y)
    PROVE  Shape'
BY Stepped DEF Shape, Starting, Saving

LEMMA GoneTo ==
    ASSUME NEW x, "step" \in DOMAIN x, NEW step, NEW y, y = [x EXCEPT !.step = step]
    PROVE  /\ DOMAIN y = DOMAIN x /\ y.step = step
           /\ \A f \in DOMAIN x \ {"step"} : y[f] = x[f]
OBVIOUS

-----------------------------------------------------------------------------
(* What becomes of the starts: a step of one command disturbs the others or *)
(* leaves what they rest on.                                                *)
LEMMA NewOwn ==
    ASSUME Shape, Own, NEW c \in Calls, NEW y, Step(c, y), OwnProvider',
           disturbed \ {c} \subseteq disturbed',
           Starting(y) /\ c \notin disturbed' => Undisturbed(y)',
           \A d \in Calls \ {c} : Starting(calls[d]) /\ d \notin disturbed' =>
              /\ calls[d].step = "load" => Saved' = Saved
              /\ calls[d].step \in {"slot", "config", "prepare", "run"} => agent' = agent
              /\ calls[d].step \in {"config", "prepare", "run", "entitle"} => slot' = slot
    PROVE  Own'
<1>1. ASSUME NEW d \in Calls, Starting(calls[d])', d \notin disturbed'
      PROVE  Undisturbed(calls[d])'
    <2>1. CASE d = c
        <3>1. calls'[d] = y
            BY <2>1, Stepped
        <3> QED
            BY <1>1, <2>1, <3>1 DEF Starting, Undisturbed
    <2>2. CASE d # c
        <3>1. PICK x : x = calls[d]
            OBVIOUS
        <3>2. calls'[d] = x /\ Starting(x) /\ d \notin disturbed
            BY <1>1, <2>2, <3>1, Stepped DEF Starting
        <3>3. Undisturbed(x)
            BY <3>1, <3>2 DEF Own
        <3>4. /\ x.step = "load" => Saved' = Saved
              /\ x.step \in {"slot", "config", "prepare", "run"} => agent' = agent
              /\ x.step \in {"config", "prepare", "run", "entitle"} => slot' = slot
            BY <1>1, <2>2, <3>1, <3>2
        <3> QED
            BY <3>2, <3>3, <3>4 DEF Undisturbed
    <2> QED
        BY <2>1, <2>2
<1> QED
    BY <1>1 DEF Own

(* A step that replaces neither the clients nor the file.                   *)
LEMMA QuietOwn ==
    ASSUME Shape, Own, NEW c \in Calls, NEW y, Step(c, y), OwnProvider',
           disturbed \ {c} \subseteq disturbed', UNCHANGED <<file, agent, slot>>,
           Starting(y) /\ c \notin disturbed' => Undisturbed(y)'
    PROVE  Own'
<1>1. Saved' = Saved
    BY DEF Saved, LoadAppSettings
<1> QED
    BY <1>1, NewOwn

LEMMA SameTasks ==
    ASSUME Own, tasks' = tasks
    PROVE  OwnProvider'
BY DEF Own, OwnProvider

-----------------------------------------------------------------------------
(* What becomes of the copies: a command is outside its update, enters it,  *)
(* is inside or leaves it.                                                  *)

LEMMA ChangedUpdating ==
    ASSUME Shape, NEW c \in Calls, NEW y, Step(c, y)
    PROVE  Updating' = (Updating \ {c}) \cup (IF Updates(y) THEN {c} ELSE {})
<1>1. Updating' = {d \in Calls : Updates(calls'[d])}
    BY DEF Updating, Updates
<1> QED
    BY <1>1, WhoUpdates, Stepped

LEMMA Outside ==
    ASSUME Shape, ForceInv, NEW c \in Calls, NEW y, Step(c, y), ~Updates(y), ~Updates(calls[c]),
           UNCHANGED <<file, agent, slot, config, closing, doubt>>,
           overlapped' \in {overlapped, overlapped \ {c}}
    PROVE  ForceInv'
<1>1. Updating' = Updating /\ c \notin Updating
    BY ChangedUpdating, WhoUpdates
<1>2. \A d \in Updating : calls'[d] = calls[d] /\ (d \in overlapped' <=> d \in overlapped)
    BY <1>1, Stepped, WhoUpdates
<1>3. UNCHANGED <<Saved, LoadAppSettings, OneClient, FileInForce>>
    BY DEF Saved, LoadAppSettings, OneClient, FileInForce
<1>4. InForce' = InForce
    BY <1>3 DEF InForce
<1>5. ASSUME NEW d \in Updating, d \notin overlapped' PROVE Alone(calls[d])'
    <2>1. Alone(calls[d])
        BY <1>2, <1>5 DEF ForceInv
    <2> QED
        BY <1>2, <1>3, <2>1 DEF Alone, StartsAlone, SavesAlone
<1> QED
    BY <1>1, <1>2, <1>4, <1>5 DEF ForceInv

LEMMA Entering ==
    ASSUME Shape, ForceInv, NEW c \in Calls, NEW y, Step(c, y), Updates(y), ~Updates(calls[c]),
           Enters(c), InForce /\ doubt' = doubt => Alone(y)'
    PROVE  ForceInv'
<1>1. Updating' = Updating \cup {c} /\ c \notin Updating
    BY ChangedUpdating, WhoUpdates
<1>2. calls'[c] = y
    BY Stepped
<1>3. CASE Updating = {}
    <2>1. Updating' = {c} /\ c \notin overlapped' /\ doubt' = doubt
        BY <1>1, <1>3 DEF Enters
    <2>2. Alone(calls[c])'
        BY <1>2, <1>3, <2>1 DEF ForceInv, Alone, StartsAlone, SavesAlone
    <2> QED
        BY <2>1, <2>2 DEF ForceInv
<1>4. CASE Updating # {}
    <2>1. doubt' = "all" /\ Updating' \subseteq overlapped'
        BY <1>1, <1>4 DEF Enters
    <2> QED
        BY <1>1, <2>1 DEF ForceInv
<1> QED
    BY <1>3, <1>4

LEMMA Inside ==
    ASSUME Shape, ForceInv, NEW c \in Calls, NEW y, Step(c, y), Updates(y), Updates(calls[c]),
           UNCHANGED <<doubt, overlapped>>, Alone(calls[c]) => Alone(y)'
    PROVE  ForceInv'
<1>1. Updating' = Updating /\ c \in Updating /\ calls'[c] = y
    BY ChangedUpdating, WhoUpdates, Stepped
<1>2. ASSUME NEW d \in Updating, d \notin overlapped PROVE Alone(calls[d])'
    <2>1. d = c
        BY <1>1, <1>2 DEF ForceInv
    <2>2. Alone(y)'
        BY <1>2, <2>1 DEF ForceInv
    <2> QED
        BY <1>1, <2>1, <2>2 DEF Alone, StartsAlone, SavesAlone
<1> QED
    BY <1>1, <1>2 DEF ForceInv

LEMMA Leaving ==
    ASSUME Shape, ForceInv, NEW c \in Calls, NEW y, Step(c, y), ~Updates(y), Updates(calls[c]),
           overlapped' \in {overlapped, overlapped \ {c}},
           c \in overlapped /\ doubt = "all" => doubt' = "all",
           c \notin overlapped /\ Alone(calls[c]) => InForce'
    PROVE  ForceInv'
<1>1. Updating' = Updating \ {c} /\ c \in Updating
    BY ChangedUpdating, WhoUpdates
<1>2. CASE c \notin overlapped
    <2>1. Updating' = {} /\ InForce'
        BY <1>1, <1>2 DEF ForceInv
    <2> QED
        BY <2>1 DEF ForceInv
<1>3. CASE c \in overlapped
    <2>1. doubt' = "all"
        BY <1>1, <1>3 DEF ForceInv
    <2>2. \A d \in Updating' : d \in overlapped'
        BY <1>1, <1>3 DEF ForceInv
    <2> QED
        BY <2>1, <2>2 DEF ForceInv, InForce
<1> QED
    BY <1>2, <1>3

-----------------------------------------------------------------------------
(* A command begins.                                                        *)

LEMMA BeginStep ==
    ASSUME SettingsInv, NEW c \in Calls,
           \/ \E p \in Providers : BeginStart(c, p)
           \/ \E settings \in Drafts : BeginSave(c, settings)
    PROVE  SettingsInv'
<1>1. /\ UNCHANGED <<file, agent, slot, config, closing, tasks, overlapped, doubt, disturbed>>
      /\ At(c, "none")
    BY DEF BeginStart, BeginSave, copies, history
<1>2. PICK y : /\ Step(c, y)
               /\ \/ /\ y.kind = "start" /\ y.step = "load" /\ y.since = Saved
                     /\ DOMAIN y = {"kind", "step", "provider", "since"}
                  \/ /\ y.kind = "save" /\ y.step = "truncate"
                     /\ DOMAIN y = {"kind", "step", "settings"}
    <2>1. CASE \E p \in Providers : BeginStart(c, p)
        <3>1. PICK p \in Providers : BeginStart(c, p)
            BY <2>1
        <3>2. PICK n : n = Saved
            OBVIOUS
        <3>3. Step(c, [kind |-> "start", step |-> "load", provider |-> p, since |-> n])
            BY <3>1, <3>2 DEF BeginStart, Saved
        <3> QED
            BY <3>2, <3>3
    <2>2. CASE \E settings \in Drafts : BeginSave(c, settings)
        <3>1. PICK settings \in Drafts : BeginSave(c, settings)
            BY <2>2
        <3> QED
            BY <3>1 DEF BeginSave
    <2> QED
        BY <2>1, <2>2
<1>3. Starting(y) \/ Saving(y)
    BY <1>2 DEF Starting, Saving, StartFields, SaveFields
<1>4. Shape'
    BY <1>1, <1>2, <1>3, NewShape DEF SettingsInv, Shape
<1>5. Saved' = Saved /\ OwnProvider'
    BY <1>1, SameTasks DEF SettingsInv, Saved, LoadAppSettings
<1>6. Starting(y) => Undisturbed(y)'
    BY <1>2, <1>5 DEF Starting, Undisturbed
<1>7. Own'
    BY <1>1, <1>2, <1>5, <1>6, QuietOwn DEF SettingsInv
<1>8. ~Updates(y) /\ ~Updates(calls[c])
    BY <1>1, <1>2 DEF Updates, At
<1>9. ForceInv'
    BY <1>1, <1>2, <1>8, Outside DEF SettingsInv
<1> QED
    BY <1>4, <1>7, <1>9 DEF SettingsInv

-----------------------------------------------------------------------------
(* A start.                                                                 *)

LEMMA LoadForStartStep ==
    ASSUME SettingsInv, NEW c \in Calls, LoadForStart(c)
    PROVE  SettingsInv'
<1>1. PICK x : x = calls[c]
    OBVIOUS
<1>2. PICK v : v = Connection(x.provider, Saved)
    OBVIOUS
<1>3. PICK y : y = Learns(x, "copy", "connection", v)
    OBVIOUS
<1>4. /\ x.step = "load" /\ Step(c, y)
      /\ UNCHANGED <<file, agent, slot, config, closing, tasks, overlapped, doubt, disturbed>>
    BY <1>1, <1>2, <1>3 DEF LoadForStart, At, ProviderConnection, Saved, copies, history
<1>5. Starting(x)
    BY <1>1, <1>4 DEF SettingsInv, Shape, Saving
<1>6. /\ DOMAIN y = DOMAIN x \cup {"connection"} /\ y.step = "copy" /\ y.connection = v
      /\ \A g \in DOMAIN x \ {"step", "connection"} : y[g] = x[g]
    <2>1. "step" \in DOMAIN x
        BY <1>5 DEF Starting, StartFields
    <2> QED
        BY <1>3, <2>1 DEF Learns
<1>7. Starting(y) /\ y.provider = x.provider /\ y.since = x.since /\ y.kind = "start"
    BY <1>4, <1>5, <1>6 DEF Starting, StartFields
<1>8. Shape'
    BY <1>4, <1>7, NewShape DEF SettingsInv, Shape
<1>9. Saved' = Saved /\ OwnProvider'
    BY <1>4, SameTasks DEF SettingsInv, Saved, LoadAppSettings
<1>10. c \notin disturbed => Undisturbed(y)'
    <2> HAVE c \notin disturbed
    <2>1. x.since = Saved
        BY <1>1, <1>4, <1>5 DEF SettingsInv, Own, Undisturbed
    <2> QED
        BY <1>2, <1>6, <1>7, <2>1 DEF Undisturbed
<1>11. Own'
    BY <1>4, <1>9, <1>10, QuietOwn DEF SettingsInv
<1>12. ~Updates(y) /\ ~Updates(x)
    BY <1>4, <1>6, <1>7 DEF Updates
<1>13. ForceInv'
    BY <1>1, <1>4, <1>12, Outside DEF SettingsInv
<1> QED
    BY <1>8, <1>11, <1>13 DEF SettingsInv

LEMMA CopyForStartStep ==
    ASSUME SettingsInv, NEW c \in Calls, CopyForStart(c)
    PROVE  SettingsInv'
<1>1. PICK x : x = calls[c]
    OBVIOUS
<1>2. PICK v : v = Client(x.connection, config.client.window)
    OBVIOUS
<1>3. PICK y : y = Learns(x, "agent", "client", v)
    OBVIOUS
<1>4. /\ x.step = "copy" /\ x.kind = "start" /\ Step(c, y) /\ Enters(c)
      /\ UNCHANGED <<file, agent, slot, config, closing, tasks, disturbed>>
    BY <1>1, <1>2, <1>3 DEF CopyForStart, At, copies
<1>5. Starting(x)
    BY <1>1, <1>4 DEF SettingsInv, Shape, Saving
<1>6. /\ DOMAIN y = DOMAIN x \cup {"client"} /\ y.step = "agent" /\ y.client = v
      /\ \A g \in DOMAIN x \ {"step", "client"} : y[g] = x[g]
    <2>1. "step" \in DOMAIN x
        BY <1>5 DEF Starting, StartFields
    <2> QED
        BY <1>3, <2>1 DEF Learns
<1>7. /\ Starting(y) /\ y.provider = x.provider /\ y.since = x.since /\ y.kind = "start"
      /\ y.connection = x.connection
    BY <1>4, <1>5, <1>6 DEF Starting, StartFields
<1>8. v.connection = x.connection /\ v.window = config.client.window
    BY <1>2 DEF Client
<1>9. Shape'
    BY <1>4, <1>7, NewShape DEF SettingsInv, Shape
<1>10. Saved' = Saved /\ OwnProvider' /\ LoadAppSettings' = LoadAppSettings
    BY <1>4, SameTasks DEF SettingsInv, Saved, LoadAppSettings
<1>11. c \notin disturbed => Undisturbed(y)'
    <2> HAVE c \notin disturbed
    <2>1. x.connection = Connection(x.provider, x.since)
        BY <1>1, <1>4, <1>5 DEF SettingsInv, Own, Undisturbed
    <2> QED
        BY <1>6, <1>7, <1>8, <2>1 DEF Undisturbed
<1>12. Own'
    BY <1>4, <1>10, <1>11, QuietOwn DEF SettingsInv
<1>13. Updates(y) /\ ~Updates(x)
    BY <1>4, <1>6 DEF Updates
<1>14. InForce /\ doubt' = doubt => Alone(y)'
    BY <1>4, <1>6, <1>7, <1>8, <1>10
       DEF Alone, StartsAlone, InForce, OneClient, FileInForce
<1>15. ForceInv'
    BY <1>1, <1>4, <1>13, <1>14, Entering DEF SettingsInv
<1> QED
    BY <1>9, <1>12, <1>15 DEF SettingsInv

(* The two uses of the clients.                                             *)
LEMMA UseStep ==
    ASSUME SettingsInv, NEW c \in Calls, Prepare(c) \/ Run(c)
    PROVE  SettingsInv'
<1>1. PICK x : x = calls[c]
    OBVIOUS
<1>2. PICK v : v = IF x.step = "prepare" THEN slot ELSE agent
    OBVIOUS
<1>3. PICK f \in {"compacts", "runs"}, step \in {"run", "entitle"} :
          /\ f = "compacts" <=> step = "run"
          /\ step = "run" => x.step = "prepare"
          /\ step = "entitle" => x.step = "run"
          /\ Step(c, Learns(x, step, f, v))
    BY <1>1, <1>2 DEF Prepare, Run, At
<1>4. PICK y : y = Learns(x, step, f, v)
    OBVIOUS
<1>5. /\ Step(c, y)
      /\ UNCHANGED <<file, agent, slot, config, closing, tasks, overlapped, doubt, disturbed>>
    BY <1>3, <1>4 DEF Prepare, Run, copies, history
<1>6. Starting(x) /\ x.step \in {"prepare", "run"}
    BY <1>1, <1>3 DEF SettingsInv, Shape, Saving
<1>7. /\ DOMAIN y = DOMAIN x \cup {f} /\ y.step = step /\ y[f] = v
      /\ \A g \in DOMAIN x \ {"step", f} : y[g] = x[g]
    <2>1. "step" \in DOMAIN x
        BY <1>6 DEF Starting, StartFields
    <2> QED
        BY <1>4, <2>1 DEF Learns
<1>8. /\ Starting(y) /\ y.provider = x.provider /\ y.since = x.since /\ y.kind = "start"
      /\ y.connection = x.connection /\ y.client = x.client
      /\ step = "run" => y.compacts = v
      /\ step = "entitle" => y.compacts = x.compacts /\ y.runs = v
    BY <1>3, <1>6, <1>7 DEF Starting, StartFields
<1>9. Shape'
    BY <1>5, <1>8, NewShape DEF SettingsInv, Shape
<1>10. OwnProvider'
    BY <1>5, SameTasks DEF SettingsInv
<1>11. c \notin disturbed => Undisturbed(y)'
    <2> HAVE c \notin disturbed
    <2>1. Undisturbed(x)
        BY <1>1, <1>6 DEF SettingsInv, Own
    <2> QED
        BY <1>2, <1>3, <1>5, <1>6, <1>7, <1>8, <2>1 DEF Undisturbed
<1>12. Own'
    BY <1>5, <1>10, <1>11, QuietOwn DEF SettingsInv
<1>13. ~Updates(y) /\ ~Updates(x)
    BY <1>3, <1>6, <1>7, <1>8 DEF Updates
<1>14. ForceInv'
    BY <1>1, <1>5, <1>13, Outside DEF SettingsInv
<1> QED
    BY <1>9, <1>12, <1>14 DEF SettingsInv

(* A start is over: it has failed, or its task is under way.                *)
LEMMA EndStartStep ==
    ASSUME SettingsInv, NEW c \in Calls, StartFails(c) \/ Entitle(c)
    PROVE  SettingsInv'
<1>1. PICK x : x = calls[c]
    OBVIOUS
<1>2. /\ Step(c, NoCall) /\ overlapped' = overlapped \ {c} /\ disturbed' = disturbed \ {c}
      /\ UNCHANGED <<file, agent, slot, config, closing, doubt>>
      /\ x.step \in {"load", "agent", "prepare", "run", "entitle"}
      /\ x.step = "agent" => x.kind = "start"
    BY <1>1 DEF StartFails, Entitle, Over, At, copies
<1>3. Starting(x)
    BY <1>1, <1>2 DEF SettingsInv, Shape, Saving
<1>4. ~Starting(NoCall) /\ NoCall.step = "none" /\ ~Updates(NoCall)
    BY DEF NoCall, Starting, Updates
<1>5. Shape'
    BY <1>2, <1>4, NewShape DEF SettingsInv, Shape
<1>6. OwnProvider'
    <2>1. CASE StartFails(c)
        BY <2>1, SameTasks DEF StartFails, SettingsInv
    <2>2. CASE Entitle(c)
        <3>1. PICK t : t = [provider |-> x.provider, since |-> x.since, runs |-> x.runs,
                            compacts |-> x.compacts, entitles |-> slot,
                            disturbed |-> c \in disturbed]
            OBVIOUS
        <3>2. tasks' = tasks \cup {t} /\ x.step = "entitle"
            BY <1>1, <2>2, <3>1 DEF Entitle, At
        <3>3. /\ t.provider = x.provider /\ t.since = x.since /\ t.runs = x.runs
              /\ t.compacts = x.compacts /\ t.entitles = slot
            BY <3>1
        <3>4. t.disturbed = (c \in disturbed)
            BY <3>1
        <3>5. ASSUME ~t.disturbed, NEW client \in {t.runs, t.compacts, t.entitles}
              PROVE  client.connection = Connection(t.provider, t.since)
            <4>1. c \notin disturbed
                BY <3>4, <3>5
            <4>2. Undisturbed(x)
                BY <1>1, <1>3, <4>1 DEF SettingsInv, Own
            <4> QED
                BY <3>2, <3>3, <3>5, <4>2 DEF Undisturbed
        <3> QED
            BY <3>2, <3>5 DEF SettingsInv, Own, OwnProvider
    <2> QED
        BY <2>1, <2>2
<1>7. Own'
    BY <1>2, <1>4, <1>6, QuietOwn DEF SettingsInv
<1>8. ForceInv'
    <2>1. CASE x.step # "agent"
        BY <1>1, <1>2, <1>4, <2>1, Outside DEF SettingsInv, Updates
    <2>2. CASE x.step = "agent"
        <3>1. UNCHANGED <<OneClient, FileInForce>>
            BY <1>2 DEF OneClient, FileInForce, Saved, LoadAppSettings
        <3>2. Alone(x) => InForce'
            BY <1>2, <2>2, <3>1 DEF Alone, StartsAlone, InForce
        <3>3. Updates(x)
            BY <2>2 DEF Updates
        <3> QED
            BY <1>1, <1>2, <1>4, <3>2, <3>3, Leaving DEF SettingsInv
    <2> QED
        BY <2>1, <2>2
<1> QED
    BY <1>5, <1>7, <1>8 DEF SettingsInv

-----------------------------------------------------------------------------
(* The three writes of both commands.                                       *)

(* What the new step changes, for a command that goes on.                   *)
LEMMA SameFields ==
    ASSUME NEW x, NEW y, DOMAIN y = DOMAIN x, \A f \in DOMAIN x \ {"step"} : y[f] = x[f],
           Starting(x) \/ Saving(x), x.step \in {"agent", "slot", "config"}
    PROVE  /\ y.kind = x.kind /\ y.client = x.client
           /\ x.kind = "start" =>
                 y.provider = x.provider /\ y.since = x.since /\ y.connection = x.connection
           /\ x.kind = "save" => y.settings = x.settings
BY DEF Starting, Saving, StartFields, SaveFields

LEMMA WriteClientStep ==
    ASSUME SettingsInv, NEW c \in Calls, SetAgent(c) \/ SetSlot(c)
    PROVE  SettingsInv'
<1>1. PICK x : x = calls[c]
    OBVIOUS
<1>2. PICK step \in {"slot", "config"} :
          /\ GoTo(c, step)
          /\ step = "slot" => x.step = "agent" /\ agent' = x.client /\ slot' = slot
          /\ step = "config" => x.step = "slot" /\ slot' = x.client /\ agent' = agent
    BY <1>1 DEF SetAgent, SetSlot, At
<1>3. PICK y : y = [x EXCEPT !.step = step]
    OBVIOUS
<1>4. /\ Step(c, y) /\ UNCHANGED <<file, config, closing, tasks, overlapped, doubt>>
      /\ disturbed \subseteq disturbed'
    BY <1>1, <1>2, <1>3 DEF GoTo, SetAgent, SetSlot, Disturbs
<1>5. Starting(x) \/ Saving(x)
    BY <1>1, <1>2 DEF SettingsInv, Shape
<1>6. "step" \in DOMAIN x
    BY <1>5 DEF Starting, Saving, StartFields, SaveFields
<1>7. /\ DOMAIN y = DOMAIN x /\ y.step = step
      /\ \A f \in DOMAIN x \ {"step"} : y[f] = x[f]
    BY <1>3, <1>6, GoneTo
<1>8. /\ y.kind = x.kind /\ y.client = x.client
      /\ x.kind = "start" =>
            y.provider = x.provider /\ y.since = x.since /\ y.connection = x.connection
      /\ x.kind = "save" => y.settings = x.settings
    BY <1>2, <1>5, <1>7, SameFields
<1>9. (Starting(y) <=> Starting(x)) /\ (Saving(y) <=> Saving(x))
    BY <1>2, <1>5, <1>7, <1>8 DEF Starting, Saving, StartFields, SaveFields
<1>10. Shape'
    BY <1>4, <1>5, <1>9, NewShape DEF SettingsInv, Shape
<1>11. Saved' = Saved /\ OwnProvider' /\ LoadAppSettings' = LoadAppSettings
    BY <1>4, SameTasks DEF SettingsInv, Saved, LoadAppSettings
<1>12. Starting(y) /\ c \notin disturbed' => Undisturbed(y)'
    <2> HAVE Starting(y) /\ c \notin disturbed'
    <2>1. Undisturbed(x) /\ x.kind = "start"
        BY <1>1, <1>4, <1>9 DEF SettingsInv, Own, Starting
    <2> QED
        BY <1>2, <1>7, <1>8, <2>1 DEF Undisturbed
<1>13. ASSUME NEW d \in Calls \ {c}, Starting(calls[d]), d \notin disturbed'
       PROVE  /\ calls[d].step \in {"slot", "config", "prepare", "run"} => agent' = agent
              /\ calls[d].step \in {"config", "prepare", "run", "entitle"} => slot' = slot
    <2>1. calls[d].kind = "start"
        BY <1>13 DEF Starting
    <2>2. CASE SetAgent(c)
        BY <1>13, <2>1, <2>2 DEF SetAgent, Disturbs, Starts
    <2>3. CASE SetSlot(c)
        BY <1>13, <2>1, <2>3 DEF SetSlot, Disturbs, Starts
    <2> QED
        BY <2>2, <2>3
<1>14. Own'
    BY <1>4, <1>11, <1>12, <1>13, NewOwn DEF SettingsInv
<1>15. Updates(y) /\ Updates(x)
    BY <1>2, <1>7 DEF Updates
<1>16. Alone(x) => Alone(y)'
    <2> HAVE Alone(x)
    <2>1. CASE x.kind = "start"
        BY <1>2, <1>4, <1>7, <1>8, <1>11, <2>1 DEF Alone, StartsAlone, OneClient, FileInForce
    <2>2. CASE x.kind # "start"
        <3>1. x.kind = "save"
            BY <1>5, <2>2 DEF Starting, Saving
        <3> QED
            BY <1>2, <1>4, <1>7, <1>8, <1>11, <2>2, <3>1 DEF Alone, SavesAlone
    <2> QED
        BY <2>1, <2>2
<1>17. ForceInv'
    BY <1>1, <1>4, <1>15, <1>16, Inside DEF SettingsInv
<1> QED
    BY <1>10, <1>14, <1>17 DEF SettingsInv

LEMMA SetConfigStep ==
    ASSUME SettingsInv, NEW c \in Calls, SetConfig(c)
    PROVE  SettingsInv'
<1>1. PICK x : x = calls[c]
    OBVIOUS
<1>2. PICK step : step = IF x.kind = "start" THEN "prepare" ELSE "title"
    OBVIOUS
<1>3. PICK y : y = [x EXCEPT !.step = step]
    OBVIOUS
<1>4. /\ Step(c, y) /\ x.step = "config" /\ config' = [config EXCEPT !.client = x.client]
      /\ UNCHANGED <<file, agent, slot, closing, tasks, overlapped, doubt, disturbed>>
    BY <1>1, <1>2, <1>3 DEF SetConfig, GoTo, At, history
<1>5. Starting(x) \/ Saving(x)
    BY <1>1, <1>4 DEF SettingsInv, Shape
<1>6. "step" \in DOMAIN x
    BY <1>5 DEF Starting, Saving, StartFields, SaveFields
<1>7. /\ DOMAIN y = DOMAIN x /\ y.step = step
      /\ \A f \in DOMAIN x \ {"step"} : y[f] = x[f]
    BY <1>3, <1>6, GoneTo
<1>8. /\ y.kind = x.kind /\ y.client = x.client
      /\ x.kind = "start" =>
            y.provider = x.provider /\ y.since = x.since /\ y.connection = x.connection
      /\ x.kind = "save" => y.settings = x.settings
    BY <1>4, <1>5, <1>7, SameFields
<1>9. (Starting(y) <=> Starting(x)) /\ (Saving(y) <=> Saving(x))
    BY <1>2, <1>4, <1>5, <1>7, <1>8 DEF Starting, Saving, StartFields, SaveFields
<1>10. /\ DOMAIN config' = {"client", "title"} /\ config'.client = x.client
       /\ config'.title = config.title
    BY <1>4 DEF SettingsInv, Shape
<1>11. Shape'
    BY <1>4, <1>5, <1>9, <1>10, NewShape DEF SettingsInv
<1>12. Saved' = Saved /\ OwnProvider' /\ LoadAppSettings' = LoadAppSettings
    BY <1>4, SameTasks DEF SettingsInv, Saved, LoadAppSettings
<1>13. Starting(y) /\ c \notin disturbed => Undisturbed(y)'
    <2> HAVE Starting(y) /\ c \notin disturbed
    <2>1. Undisturbed(x) /\ x.kind = "start"
        BY <1>1, <1>9 DEF SettingsInv, Own, Starting
    <2> QED
        BY <1>2, <1>4, <1>7, <1>8, <2>1 DEF Undisturbed
<1>14. Own'
    BY <1>4, <1>12, <1>13, QuietOwn DEF SettingsInv
<1>15. Updates(x)
    BY <1>4 DEF Updates
<1>16. CASE x.kind = "start"
    <2>1. ~Updates(y)
        BY <1>2, <1>7, <1>16 DEF Updates
    <2>2. Alone(x) => InForce'
        BY <1>4, <1>10, <1>12, <1>16
           DEF Alone, StartsAlone, InForce, OneClient, FileInForce
    <2>3. ForceInv'
        <3>1. Alone(calls[c]) => InForce'
            BY <1>1, <2>2
        <3> QED
            BY <1>1, <1>4, <1>15, <2>1, <3>1, Leaving DEF SettingsInv
    <2> QED
        BY <1>11, <1>14, <2>3 DEF SettingsInv
<1>17. CASE x.kind # "start"
    <2>1. Updates(y) /\ y.kind = x.kind /\ x.kind = "save" /\ y.step = "title"
        BY <1>2, <1>5, <1>7, <1>8, <1>17 DEF Updates, Starting, Saving
    <2>2. Alone(x) => Alone(y)'
        BY <1>4, <1>8, <1>10, <1>12, <2>1 DEF Alone, SavesAlone
    <2>3. ForceInv'
        BY <1>1, <1>4, <1>15, <2>1, <2>2, Inside DEF SettingsInv
    <2> QED
        BY <1>11, <1>14, <2>3 DEF SettingsInv
<1> QED
    BY <1>16, <1>17

-----------------------------------------------------------------------------
(* A save.                                                                  *)

LEMMA FileStep ==
    ASSUME SettingsInv, NEW c \in Calls, Truncate(c) \/ Write(c) \/ UpdateTray(c)
    PROVE  SettingsInv'
<1>1. PICK x : x = calls[c]
    OBVIOUS
<1>2. PICK step \in {"write", "tray", "copy"} :
          /\ GoTo(c, step)
          /\ step = "write" => x.step = "truncate" /\ Enters(c)
          /\ step = "tray" => x.step = "write" /\ file' = Whole(x.settings)
          /\ step = "copy" =>
                /\ x.step = "tray" /\ file' = file
                /\ closing' = [configured |-> TRUE, tray |-> x.settings.tray]
          /\ step # "write" => UNCHANGED <<overlapped, doubt>>
          /\ step # "copy" => closing' = closing
    BY <1>1 DEF Truncate, Write, UpdateTray, At, copies, history
<1>3. PICK y : y = [x EXCEPT !.step = step]
    OBVIOUS
<1>4. Step(c, y) /\ UNCHANGED <<agent, slot, config, tasks>> /\ disturbed \subseteq disturbed'
    BY <1>1, <1>2, <1>3 DEF GoTo, Truncate, Write, UpdateTray, Disturbs, copies, history
<1>5. Saving(x)
    BY <1>1, <1>2 DEF SettingsInv, Shape, Starting
<1>6. "step" \in DOMAIN x
    BY <1>5 DEF Saving, SaveFields
<1>7. /\ DOMAIN y = DOMAIN x /\ y.step = step
      /\ \A f \in DOMAIN x \ {"step"} : y[f] = x[f]
    BY <1>3, <1>6, GoneTo
<1>8. Saving(y) /\ y.kind = "save" /\ y.settings = x.settings /\ ~Starting(y)
    BY <1>2, <1>5, <1>7 DEF Saving, SaveFields, Starting
<1>9. Shape'
    BY <1>4, <1>8, NewShape DEF SettingsInv, Shape
<1>10. OwnProvider'
    BY <1>4, SameTasks DEF SettingsInv
<1>11. ASSUME NEW d \in Calls \ {c}, Starting(calls[d]), d \notin disturbed',
              calls[d].step = "load"
       PROVE  Saved' = Saved
    <2>1. calls[d].kind = "start"
        BY <1>11 DEF Starting
    <2>2. ~Truncate(c) /\ ~Write(c)
        BY <1>11, <2>1 DEF Truncate, Write, Disturbs, Starts
    <2>3. file' = file
        BY <2>2 DEF UpdateTray
    <2> QED
        BY <2>3 DEF Saved, LoadAppSettings
<1>12. Own'
    BY <1>4, <1>8, <1>10, <1>11, NewOwn DEF SettingsInv
<1>13. Updates(y)
    BY <1>2, <1>7, <1>8 DEF Updates
<1>14. CASE step = "write"
    <2>1. ~Updates(x)
        BY <1>2, <1>14 DEF Updates
    <2>2. InForce /\ doubt' = doubt => Alone(y)'
        BY <1>4, <1>7, <1>8, <1>14 DEF InForce, Alone, SavesAlone, OneClient
    <2>3. ForceInv'
        BY <1>1, <1>2, <1>4, <1>13, <1>14, <2>1, <2>2, Entering DEF SettingsInv
    <2> QED
        BY <1>9, <1>12, <2>3 DEF SettingsInv
<1>15. CASE step # "write"
    <2>1. Updates(x) /\ x.kind = "save"
        BY <1>2, <1>5, <1>15 DEF Updates, Saving
    <2>2. step = "tray" => LoadAppSettings' = x.settings
        BY <1>2 DEF LoadAppSettings, Whole
    <2>3. step = "copy" => LoadAppSettings' = LoadAppSettings /\ closing'.tray = x.settings.tray
        BY <1>2 DEF LoadAppSettings
    <2>4. Alone(x) => Alone(y)'
        BY <1>2, <1>4, <1>7, <1>8, <1>15, <2>1, <2>2, <2>3 DEF Alone, SavesAlone, OneClient
    <2>5. ForceInv'
        BY <1>1, <1>2, <1>4, <1>13, <1>15, <2>1, <2>4, Inside DEF SettingsInv
    <2> QED
        BY <1>9, <1>12, <2>5 DEF SettingsInv
<1> QED
    BY <1>14, <1>15

LEMMA CopyForSaveStep ==
    ASSUME SettingsInv, NEW c \in Calls, CopyForSave(c)
    PROVE  SettingsInv'
<1>1. PICK x : x = calls[c]
    OBVIOUS
<1>2. PICK n : n = x.settings.save
    OBVIOUS
<1>3. PICK v : v = Client(Connection(Default, n), n)
    OBVIOUS
<1>4. PICK y : y = Learns(x, "agent", "client", v)
    OBVIOUS
<1>5. /\ x.step = "copy" /\ x.kind = "save" /\ Step(c, y)
      /\ UNCHANGED <<file, agent, slot, config, closing, tasks, overlapped, doubt, disturbed>>
    BY <1>1, <1>2, <1>3, <1>4 DEF CopyForSave, At, copies, history
<1>6. Saving(x)
    BY <1>1, <1>5 DEF SettingsInv, Shape, Starting
<1>7. "step" \in DOMAIN x
    BY <1>6 DEF Saving, SaveFields
<1>8. /\ DOMAIN y = DOMAIN x \cup {"client"} /\ y.step = "agent" /\ y.client = v
      /\ \A g \in DOMAIN x \ {"step", "client"} : y[g] = x[g]
    BY <1>4, <1>7 DEF Learns
<1>9. Saving(y) /\ y.kind = "save" /\ y.settings = x.settings /\ ~Starting(y) /\ v.window = n
    BY <1>3, <1>5, <1>6, <1>8 DEF Saving, SaveFields, Starting, Client
<1>10. Shape'
    BY <1>5, <1>9, NewShape DEF SettingsInv, Shape
<1>11. OwnProvider' /\ LoadAppSettings' = LoadAppSettings
    BY <1>5, SameTasks DEF SettingsInv, LoadAppSettings
<1>12. Own'
    BY <1>5, <1>9, <1>11, QuietOwn DEF SettingsInv
<1>13. Updates(y) /\ Updates(x)
    BY <1>5, <1>8 DEF Updates
<1>14. Alone(x) => Alone(y)'
    BY <1>2, <1>5, <1>8, <1>9, <1>11 DEF Alone, SavesAlone, OneClient
<1>15. ForceInv'
    BY <1>1, <1>5, <1>13, <1>14, Inside DEF SettingsInv
<1> QED
    BY <1>10, <1>12, <1>15 DEF SettingsInv

(* A save is over: everything has been replaced, or it has failed.          *)
LEMMA EndSaveStep ==
    ASSUME SettingsInv, NEW c \in Calls, SetTitle(c) \/ SaveFails(c)
    PROVE  SettingsInv'
<1>1. PICK x : x = calls[c]
    OBVIOUS
<1>2. /\ Step(c, NoCall) /\ overlapped' = overlapped \ {c} /\ disturbed' = disturbed \ {c}
      /\ UNCHANGED <<file, agent, slot, closing, tasks>>
      /\ x.step \in {"truncate", "write", "agent", "title"}
      /\ x.step = "agent" => x.kind = "save"
      /\ IF x.step = "title"
         THEN config' = [config EXCEPT !.title = x.settings.save]
         ELSE config' = config
      /\ doubt' = CASE x.step = "title" /\ c \notin overlapped -> "none"
                    [] x.step \in {"write", "agent"} /\ doubt # "all" -> "file"
                    [] OTHER -> doubt
    BY <1>1 DEF SetTitle, SaveFails, Fails, Over, At, copies
<1>3. Saving(x)
    BY <1>1, <1>2 DEF SettingsInv, Shape, Starting
<1>4. ~Starting(NoCall) /\ NoCall.step = "none" /\ ~Updates(NoCall)
    BY DEF NoCall, Starting, Updates
<1>5. /\ DOMAIN config' = {"client", "title"} /\ config'.client = config.client
      /\ config'.title = IF x.step = "title" THEN x.settings.save ELSE config.title
    BY <1>2 DEF SettingsInv, Shape
<1>6. Shape'
    BY <1>2, <1>4, <1>5, NewShape DEF SettingsInv
<1>7. OwnProvider' /\ Saved' = Saved /\ LoadAppSettings' = LoadAppSettings
    BY <1>2, SameTasks DEF SettingsInv, Saved, LoadAppSettings
<1>8. Own'
    BY <1>2, <1>4, <1>7, QuietOwn DEF SettingsInv
<1>9. CASE x.step = "truncate"
    <2>1. ~Updates(x) /\ config' = config /\ doubt' = doubt
        BY <1>2, <1>9 DEF Updates
    <2>2. ForceInv'
        BY <1>1, <1>2, <1>4, <2>1, Outside DEF SettingsInv
    <2> QED
        BY <1>6, <1>8, <2>2 DEF SettingsInv
<1>10. CASE x.step # "truncate"
    <2>1. Updates(x) /\ x.kind = "save"
        BY <1>2, <1>3, <1>10 DEF Updates, Saving
    <2>2. c \in overlapped /\ doubt = "all" => doubt' = "all"
        BY <1>2
    <2>3. c \notin overlapped /\ Alone(x) => InForce'
        <3> HAVE c \notin overlapped /\ Alone(x)
        <3>1. SavesAlone(x)
            BY <2>1 DEF Alone
        <3>2. CASE x.step = "title"
            <4>1. OneClient' /\ FileInForce'
                BY <1>2, <1>5, <1>7, <3>1, <3>2 DEF SavesAlone, OneClient, FileInForce, Saved
            <4> QED
                BY <4>1 DEF InForce
        <3>3. CASE x.step # "title"
            <4>1. x.step \in {"write", "agent"} /\ config' = config
                BY <1>2, <1>10, <3>3
            <4>2. doubt' = IF doubt = "all" THEN "all" ELSE "file"
                BY <1>2, <4>1
            <4>3. doubt # "all" => OneClient'
                BY <1>2, <3>1, <4>1 DEF SavesAlone, OneClient
            <4> QED
                BY <4>2, <4>3 DEF InForce
        <3> QED
            BY <3>2, <3>3
    <2>4. ForceInv'
        BY <1>1, <1>2, <1>4, <2>1, <2>2, <2>3, Leaving DEF SettingsInv
    <2> QED
        BY <1>6, <1>8, <2>4 DEF SettingsInv
<1> QED
    BY <1>9, <1>10

-----------------------------------------------------------------------------
(* A process that starts has what the file says.                            *)
Anew ==
    /\ calls = [c \in Calls |-> NoCall] /\ tasks = {} /\ doubt = "none"
    /\ agent = Initial(LoadAppSettings) /\ slot = agent
    /\ config = [client |-> agent, title |-> LoadAppSettings.save]
    /\ closing = [configured |-> LoadAppSettings.configured, tray |-> LoadAppSettings.tray]

LEMMA Started == Anew => SettingsInv
<1> SUFFICES ASSUME Anew PROVE SettingsInv
    OBVIOUS
<1> USE DEF Anew
<1>1. PICK client : client = Initial(LoadAppSettings)
    OBVIOUS
<1>2. PICK was : was = LoadAppSettings
    OBVIOUS
<1>3. client.window = was.save
    BY <1>1, <1>2 DEF Initial, Client
<1>4. config.client = client /\ config.title = was.save /\ DOMAIN config = {"client", "title"}
    BY <1>1, <1>2
<1>5. closing.tray = was.tray
    BY <1>2
<1>6. OneClient /\ FileInForce
    BY <1>1, <1>2, <1>3, <1>4, <1>5 DEF OneClient, FileInForce, Saved
<1>7. \A c \in Calls : calls[c].step = "none"
    BY DEF NoCall
<1>8. Updating = {}
    BY <1>7 DEF Updating
<1>9. ForceInv
    BY <1>6, <1>8 DEF ForceInv, InForce
<1>10. Shape
    BY <1>4, <1>7 DEF Shape
<1>11. Own
    BY <1>7 DEF Own, OwnProvider, Starting
<1> QED
    BY <1>9, <1>10, <1>11 DEF SettingsInv

LEMMA RestartStep ==
    ASSUME Restart
    PROVE  SettingsInv'
<1>1. LoadAppSettings' = LoadAppSettings
    BY DEF Restart, LoadAppSettings
<1>2. Anew'
    BY <1>1 DEF Restart, Anew
<1> QED
    BY <1>2, Started, PTL

LEMMA NoStep ==
    ASSUME SettingsInv, UNCHANGED vars
    PROVE  SettingsInv'
<1>1. UNCHANGED <<file, agent, slot, config, closing, calls, tasks, overlapped, doubt, disturbed>>
    BY DEF vars, copies, history
<1>2. UNCHANGED <<Saved, LoadAppSettings>>
    BY <1>1 DEF Saved, LoadAppSettings
<1>3. Shape'
    BY <1>1 DEF SettingsInv, Shape, Starting, Saving
<1>4. Own'
    BY <1>1, <1>2 DEF SettingsInv, Own, OwnProvider, Starting, Undisturbed
<1>5. Updating' = Updating /\ (InForce' <=> InForce)
    BY <1>1, <1>2 DEF Updating, InForce, OneClient, FileInForce
<1>6. ASSUME NEW c \in Updating, c \notin overlapped PROVE Alone(calls[c])'
    <2>1. Alone(calls[c])
        BY <1>6 DEF SettingsInv, ForceInv
    <2> QED
        BY <1>1, <1>2, <2>1 DEF Alone, StartsAlone, SavesAlone, OneClient, FileInForce
<1>7. ForceInv'
    BY <1>1, <1>5, <1>6 DEF SettingsInv, ForceInv
<1> QED
    BY <1>3, <1>4, <1>7 DEF SettingsInv

LEMMA SettingsInvariant == Spec => []SettingsInv
<1>1. Init => SettingsInv
    BY Started DEF Init, Anew
<1>2. SettingsInv /\ [Next]_vars => SettingsInv'
    <2> SUFFICES ASSUME SettingsInv, [Next]_vars PROVE SettingsInv'
        OBVIOUS
    <2>1. ASSUME NEW c \in Calls, Progress(c) PROVE SettingsInv'
        BY <2>1, LoadForStartStep, CopyForStartStep, WriteClientStep, SetConfigStep, UseStep,
           EndStartStep, FileStep, CopyForSaveStep, EndSaveStep DEF Progress
    <2> QED
        BY <2>1, BeginStep, RestartStep, NoStep DEF Next
<1> QED
    BY <1>1, <1>2, PTL DEF Spec

\* A task runs, compacts and is named with the provider its session was set to
\* when it was started, and with the address and the key the file then had,
\* unless another command wrote the file before the start had read it or
\* replaced a client between the start's write of it and its use: however many
\* commands run at the same time (start_agent_task, update_deepseek_config).
THEOREM OwnProviderTheorem == Spec => []OwnProvider
<1>1. SettingsInv => OwnProvider
    BY DEF SettingsInv, Own
<1> QED
    BY <1>1, SettingsInvariant, PTL

\* Whenever no command is updating the copies, and none did while another one did
\* since the last save that ran alone, the clients and the configuration are one
\* and of one save, and of that of the file unless a save has failed behind the
\* truncation, whatever tasks were started, whichever command failed and wherever
\* the process died (update_deepseek_config, save_app_settings).
THEOREM SavedIsInForceTheorem == Spec => []SavedIsInForce
<1>1. SettingsInv => SavedIsInForce
    BY DEF SettingsInv, ForceInv, InForce, OneClient, FileInForce, SavedIsInForce, Saved
<1> QED
    BY <1>1, SettingsInvariant, PTL
=============================================================================
