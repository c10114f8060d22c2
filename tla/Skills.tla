------------------------------- MODULE Skills -------------------------------
(***************************************************************************)
(* The skills directory of kernex-skills (skills.rs, permissions.rs,       *)
(* parse.rs): the migration of flat skill files, the loading of skills,    *)
(* and the tools that a message makes available.                           *)
(*                                                                         *)
(* Several hosts share the directory.  Migration and loading go from entry *)
(* to entry, so that hosts, installers and crashes come in between.  A     *)
(* SKILL.md is the record of what its frontmatter says; the order of a     *)
(* HashMap, which no result here depends on, is left out: entries are sets.*)
(***************************************************************************)
EXTENDS Integers, Sequences, FiniteSets, SequencesExt

CONSTANTS
  Hosts,
  Stems,      \* names of entries of skills/
  Outside,    \* stems whose directory is a link that leads out of skills/
  Files,      \* contents of skill files
  Sidecars,   \* contents of mcp.json and toolbox.json: [mcp, toolbox], each a
              \*   set of entries, or Broken
  Bundles,    \* what an installer may bring: [file, json]
  Runners,    \* MCP_BARE_COMMAND_ALLOWLIST
  Commands,   \* what may be installed on the PATH
  NoFile, Broken, NoModel

(* The entries of a HashMap have different names.                          *)
OneByName(entries) == \A d, e \in entries : d.name = e.name => d = e

Command     == [dir : STRING, base : STRING]
ServerEntry == [name : STRING, command : Command, plain : BOOLEAN]
ToolEntry   == [name : STRING, command : Command, plain : BOOLEAN, network : BOOLEAN]

(* env, model and form are compared and handed on, whatever they are.      *)
SkillFile ==
  [form : {f.form : f \in Files}, name : Nat, requires : SUBSET STRING, bins : SUBSET STRING,
   trigger : SUBSET STRING, lazy : BOOLEAN, model : {f.model : f \in Files},
   commands : SUBSET Command, network : BOOLEAN, env : {f.env : f \in Files},
   mcp : SUBSET ServerEntry, toolbox : SUBSET ToolEntry]

ASSUME SkillConstantsOK ==
  /\ Outside \subseteq Stems
  /\ {NoFile, Broken} \cap Files = {}
  /\ \A f \in Files : f \in SkillFile /\ OneByName(f.mcp) /\ OneByName(f.toolbox)
  /\ \A json \in Sidecars :
       /\ json.mcp # Broken => json.mcp \subseteq ServerEntry /\ OneByName(json.mcp)
       /\ json.toolbox # Broken => json.toolbox \subseteq ToolEntry /\ OneByName(json.toolbox)
  /\ \A b \in Bundles : b.file \in Files /\ b.json \in Sidecars

VARIABLES
  flat,       \* skills/x.md
  dirs,       \* the directories skills/x/
  skillFile,  \* skills/x/SKILL.md
  sidecar,    \* skills/x/mcp.json and toolbox.json
  installed,  \* the commands that which_exists finds
  proc,       \* the hosts: [at, todo, stem, skills]
  raced       \* history: the stems that somebody else gave a SKILL.md
              \*   between a migration's look at them and its rename

disk == <<flat, dirs, skillFile, sidecar>>
skillVars == <<disk, installed, proc, raced>>

SkillsInit ==
  /\ flat \in [Stems -> Files \cup {NoFile}]
  /\ dirs \in SUBSET Stems
  /\ skillFile \in [Stems -> Files \cup {NoFile}]
  /\ \A s \in Stems \ dirs : skillFile[s] = NoFile
  /\ sidecar \in [Stems -> Sidecars]
  /\ installed \in SUBSET Commands
  /\ raced = {}

Off == [at |-> "off", todo |-> {}, stem |-> "", skills |-> <<>>]
At(h, stage) == proc[h].at = stage

-----------------------------------------------------------------------------
(* The migration of skills/x.md to skills/x/SKILL.md.                      *)

MigrateList(h) ==
  /\ At(h, "configured")
  /\ proc' = [proc EXCEPT ![h].at = "migrate", ![h].todo = {s \in Stems : flat[s] # NoFile}]
  /\ UNCHANGED <<disk, installed, raced>>

MigrateCheckLate(h, s) == \* mutant: does not look whether the directory exists
  /\ At(h, "migrate")
  /\ s \in proc[h].todo
  /\ proc' = [proc EXCEPT ![h].todo = @ \ {s}, ![h].stem = s, ![h].at = "make"]
  /\ UNCHANGED <<disk, installed, raced>>

MigrateCheck(h, s) ==
  /\ At(h, "migrate")
  /\ s \in proc[h].todo
  /\ proc' = [proc EXCEPT ![h].todo = @ \ {s}, ![h].stem = s,
                          ![h].at = IF s \in dirs THEN "migrate" ELSE "make"]
  /\ UNCHANGED <<disk, installed, raced>>

(* create_dir_all also succeeds on a directory that has appeared meanwhile;*)
(* where it fails the next file is tried.                                  *)
MigrateMake(h) ==
  /\ At(h, "make")
  /\ \/ dirs' = dirs \cup {proc[h].stem} /\ proc' = [proc EXCEPT ![h].at = "move"]
     \/ UNCHANGED dirs /\ proc' = [proc EXCEPT ![h].at = "migrate"]
  /\ UNCHANGED <<flat, skillFile, sidecar, installed, raced>>

(* rename replaces its target, whoever put it there since the look, and    *)
(* fails if another host has moved the file.                               *)
MigrateMove(h) ==
  /\ At(h, "move")
  /\ proc' = [proc EXCEPT ![h].at = "migrate"]
  /\ LET s == proc[h].stem IN
     \/ /\ flat[s] # NoFile
        /\ skillFile' = [skillFile EXCEPT ![s] = flat[s]]
        /\ flat' = [flat EXCEPT ![s] = NoFile]
     \/ UNCHANGED <<skillFile, flat>>
  /\ UNCHANGED <<dirs, sidecar, installed, raced>>

MigrateDone(h) ==
  /\ At(h, "migrate")
  /\ proc[h].todo = {}
  /\ proc' = [proc EXCEPT ![h].at = "migrated"]
  /\ UNCHANGED <<disk, installed, raced>>

-----------------------------------------------------------------------------
(* What a skill may declare.  A command is [dir, base]: dir is "" for a    *)
(* bare name, "/system" for the prefixes of is_safe_command_token, and     *)
(* anything else, a relative path among others, is refused.                *)

SafeToken(c) == c.base # "odd" /\ c.dir \in {"", "/system"}
SafeMcp(c)   == SafeToken(c) /\ (c.dir = "" => c.base \in Runners)

AllowsCommand(allowed, c) ==
  \/ allowed = {}
  \/ \E a \in allowed : IF a.dir = "" THEN a.base = c.base ELSE a = c

(* The entries of one source that survive.                                 *)
McpServers(entries, f) ==
  {[name |-> e.name, command |-> e.command] :
     e \in {x \in entries : SafeMcp(x.command) /\ AllowsCommand(f.commands, x.command) /\ x.plain}}

Granted(e, f) == [name |-> e.name, command |-> e.command, commands |-> f.commands,
                  env |-> f.env, network |-> e.network \/ f.network]

FrontToolboxes(f) ==
  {Granted(e, f) : e \in {x \in f.toolbox : SafeToken(x.command) /\ AllowsCommand(f.commands, x.command) /\ x.plain}}

(* load_toolbox_json, load_mcp_json: a file that is absent, too large or   *)
(* not JSON holds no entries.                                              *)
Entries(json) == IF json = Broken THEN {} ELSE json

JsonToolboxesUnchecked(json, f) == \* mutant: toolbox.json is not held to the allow-list
  {Granted(e, f) : e \in {x \in Entries(json) : SafeToken(x.command) /\ x.plain}}

JsonToolboxes(json, f) ==
  {Granted(e, f) : e \in {x \in Entries(json) :
     SafeToken(x.command) /\ AllowsCommand(f.commands, x.command) /\ x.plain}}

(* Entries of the JSON file replace those of the frontmatter by name.      *)
Merged(front, json) == json \cup {e \in front : \A j \in json : j.name # e.name}

(* parse_skill_file: TOML, or else the YAML lines, which know no toolboxes *)
(* and drop an unsafe server on the spot.                                  *)
Parses(f) == f # NoFile /\ f.form \in {"toml", "yaml"}

ParseYamlFrontmatter(f) ==
  [f EXCEPT !.toolbox = {},
            !.mcp = {e \in f.mcp : SafeMcp(e.command)},
            !.requires = IF f.requires = {} THEN f.bins ELSE f.requires]

Parsed(f) == IF f.form = "toml" THEN f ELSE ParseYamlFrontmatter(f)

(* The Skill made of the files of a directory, with the commands that are  *)
(* found; "read" is history.                                               *)
LoadedSkill(file, json, commands) ==
  LET f == Parsed(file) IN
  [ name      |-> f.name,
    available |-> f.requires \subseteq commands,
    trigger   |-> f.trigger,
    lazy      |-> f.lazy,
    model     |-> f.model,
    servers   |-> Merged(McpServers(f.mcp, f), McpServers(Entries(json.mcp), f)),
    toolboxes |-> Merged(FrontToolboxes(f), JsonToolboxes(json.toolbox, f)),
    read      |-> [file |-> f, json |-> json] ]

(* Skills are kept sorted by name; the sort is stable.                     *)
InOrder(skills, skill) ==
  LET k == Cardinality({i \in DOMAIN skills : skills[i].name <= skill.name})
  IN  InsertAt(skills, k + 1, skill)

LoadList(h) ==
  /\ At(h, "store")
  /\ proc' = [proc EXCEPT ![h].at = "load", ![h].skills = <<>>, ![h].todo = dirs \ Outside]
  /\ UNCHANGED <<disk, installed, raced>>

LoadEntry(h, s) ==
  /\ At(h, "load")
  /\ s \in proc[h].todo
  /\ proc' = [proc EXCEPT
       ![h].todo = @ \ {s},
       ![h].skills = IF Parses(skillFile[s])
                     THEN InOrder(@, LoadedSkill(skillFile[s], sidecar[s], installed))
                     ELSE @]
  /\ UNCHANGED <<disk, installed, raced>>

LoadDone(h) ==
  /\ At(h, "load")
  /\ proc[h].todo = {}
  /\ proc' = [proc EXCEPT ![h].at = "loaded"]
  /\ UNCHANGED <<disk, installed, raced>>

-----------------------------------------------------------------------------
(* What a message, the set of the words in it, brings along.               *)

Triggered(skill, message) == skill.available /\ skill.trigger \cap message # {}

(* The first skill that has a tool of a name provides it.                  *)
Adds(tools, more) == tools \cup {t \in more : \A u \in tools : u.name # t.name}

(* What the first n of several sources give, of those that are on.         *)
Gathered(on, more) ==
  LET gives[n \in 0..Len(more)] ==
        IF n = 0 THEN {} ELSE IF on[n] THEN Adds(gives[n - 1], more[n]) ELSE gives[n - 1]
  IN  gives

MatchSkillTriggers(skills, message) ==
  Gathered([i \in DOMAIN skills |-> Triggered(skills[i], message)],
           [i \in DOMAIN skills |-> skills[i].servers])[Len(skills)]

MatchSkillToolboxes(skills, message) ==
  Gathered([i \in DOMAIN skills |-> Triggered(skills[i], message) /\ ~ skills[i].lazy],
           [i \in DOMAIN skills |-> skills[i].toolboxes])[Len(skills)]

(* build_skill_prompt: the model of the first skill that names one.        *)
ModelOverride(skills) ==
  LET named == {i \in DOMAIN skills : skills[i].model # NoModel}
  IN  IF named = {} THEN NoModel ELSE skills[Min(named)].model

LazySkillDirectory(skills) == {skills[i].name : i \in {j \in DOMAIN skills : skills[j].lazy /\ skills[j].available}}

GetToolboxesForSkill(skills, name) ==
  LET named == {i \in DOMAIN skills : skills[i].name = name}
  IN  IF named = {} THEN {} ELSE skills[Min(named)].toolboxes

-----------------------------------------------------------------------------
(* Others at work on the directory and on the PATH.  An installer replaces *)
(* no SKILL.md, and does not care for flat files or migrations.            *)
BeingMigrated(s) == \E h \in Hosts : proc[h].at \in {"make", "move"} /\ proc[h].stem = s

InstallSkill(s, bundle) ==
  /\ skillFile[s] = NoFile
  /\ dirs' = dirs \cup {s}
  /\ skillFile' = [skillFile EXCEPT ![s] = bundle.file]
  /\ sidecar' = [sidecar EXCEPT ![s] = bundle.json]
  /\ raced' = IF BeingMigrated(s) THEN raced \cup {s} ELSE raced
  /\ UNCHANGED <<flat, installed, proc>>

InstallCommand(c) ==
  /\ c \notin installed
  /\ installed' = installed \cup {c}
  /\ UNCHANGED <<disk, proc, raced>>

-----------------------------------------------------------------------------
(* Whichever hosts migrate at once, fail half-way or die, and whatever is  *)
(* installed meanwhile, a SKILL.md stays as it is, unless it came while a  *)
(* migration had already looked for its directory; and a flat file goes    *)
(* nowhere but to its SKILL.md.  The doc comment of migrate_flat_skills    *)
(* (skills.rs:15) knows no exception: "Existing directories are never      *)
(* overwritten."                                                           *)
SkillFilesSurvive ==
  [][\A s \in Stems :
       /\ skillFile[s] # NoFile /\ s \notin raced => skillFile'[s] = skillFile[s]
       /\ flat[s] # NoFile => flat[s] \in {flat'[s], skillFile'[s]}]_disk

(* The tools of a request are those that its skills declare: each comes    *)
(* from the first triggered skill with an admissible entry of its name,    *)
(* from its JSON file if the entry there is admissible, and carries that   *)
(* skill's grants and no other's.                                          *)
Admissible(e, file) ==
  /\ e.plain
  /\ e.command.dir \in {"", "/system"} /\ e.command.base # "odd"
  /\ file.commands # {} =>
       \E a \in file.commands : a.base = e.command.base /\ a.dir \in {"", e.command.dir}

Declares(skill, e) ==
  /\ Admissible(e, skill.read.file)
  /\ \/ skill.read.json.toolbox # Broken /\ e \in skill.read.json.toolbox
     \/ /\ e \in skill.read.file.toolbox
        /\ skill.read.json.toolbox # Broken =>
             ~ \E j \in skill.read.json.toolbox : j.name = e.name /\ Admissible(j, skill.read.file)

ToolsAreGranted(tools, skills, message) ==
  LET Offers(i) == Triggered(skills[i], message) /\ ~ skills[i].lazy IN
  /\ \A t \in tools : \E i \in DOMAIN skills :
       LET file == skills[i].read.file
           Entry == {e \in file.toolbox \cup Entries(skills[i].read.json.toolbox) : Declares(skills[i], e)} IN
       /\ Offers(i)
       /\ \E e \in Entry : e.name = t.name /\ e.command = t.command /\ (t.network <=> e.network \/ file.network)
       /\ t.commands = file.commands /\ t.env = file.env
       /\ \A j \in 1..(i - 1) : Offers(j) => t.name \notin {x.name : x \in skills[j].toolboxes}
  /\ \A i \in DOMAIN skills : Offers(i) =>
       \A e \in skills[i].read.file.toolbox :
         Admissible(e, skills[i].read.file) => e.name \in {t.name : t \in tools}
  /\ OneByName(tools)

ServersAreGranted(servers, skills, message) ==
  \A t \in servers : \E i \in DOMAIN skills :
    LET file == skills[i].read.file IN
    /\ Triggered(skills[i], message)
    /\ \E e \in file.mcp \cup Entries(skills[i].read.json.mcp) :
         /\ e.name = t.name /\ e.command = t.command
         /\ Admissible(e, file)
         /\ e.command.dir = "" => e.command.base \in Runners
=============================================================================
