------------------------------- MODULE Startup ------------------------------
(***************************************************************************)
(* From a configuration to a request: the configuration of kernex-core,    *)
(* RuntimeBuilder and the enrichment of a turn's context in kernex-runtime *)
(* (lib.rs), projects.rs, and the provider factory (factory.rs), over the  *)
(* skills directory of Skills.                                             *)
(*                                                                         *)
(* A host configures itself, may migrate the skills of its data directory, *)
(* builds a runtime, which takes several steps, makes a provider and runs  *)
(* turns.  It may die at any moment.                                       *)
(***************************************************************************)
EXTENDS Skills

CONSTANTS
  Settings,         \* per host, the configurations: [how, dir, db]
  SkillsDir,        \* the data directory whose skills/ is modelled; others have none
  DefaultDir,       \* ~/.kernex
  DefaultDb,        \* ~/.kernex/data/memory.db
  ProjectFiles,     \* per project directory: what AGENTS.md and ROLE.md hold
  ProviderConfigs,  \* per host: [kind, url, model, tier]
  Messages,
  ServerTools,      \* the tools that a server lists
  InLowerCase,      \* names that are not in lower case, and their lower-case forms
  NoValue,          \* None
  MaxDeaths         \* bound: crashes

BuiltinToolDefs == {"bash", "read", "write", "edit", "grep", "glob", "web_fetch"}

ASSUME StartupConstantsOK ==
  /\ MaxDeaths \in Nat
  /\ BuiltinToolDefs \cap DOMAIN InLowerCase = {}

VARIABLES
  builder,   \* per host: [dir, db]
  runtime,   \* per host: [db, projects]
  provider,  \* per host: [kind, url, model], or NoValue
  request,   \* per host: what the last turn sends, or NoValue
  deaths     \* history

startVars == <<builder, runtime, provider, request, deaths>>
startupVars == <<skillVars, startVars>>

-----------------------------------------------------------------------------
(* Configuration.                                                          *)

New == [dir |-> DefaultDir, db |-> NoValue]

Or(value, default) == IF value = NoValue THEN default ELSE value

(* from_env: what is set replaces the defaults of new().                   *)
FromEnv(c) == [dir |-> Or(c.dir, New.dir), db |-> c.db]

(* load_file: a file that does not exist is the default configuration.     *)
(* from_config: the configuration always has a database path.              *)
FromFile(c) ==
  IF c.how = "missing" THEN [dir |-> DefaultDir, db |-> DefaultDb]
                       ELSE [dir |-> Or(c.dir, DefaultDir), db |-> Or(c.db, DefaultDb)]

Configured(c) == CASE c.how = "new" -> New
                   [] c.how = "env" -> FromEnv(c)
                   [] OTHER         -> FromFile(c)

Configure(h, c) ==
  /\ At(h, "off")
  /\ c.how # "broken"
  /\ builder' = [builder EXCEPT ![h] = Configured(c)]
  /\ proc' = [proc EXCEPT ![h].at = "configured"]
  /\ UNCHANGED <<disk, installed, raced, runtime, provider, request, deaths>>

-----------------------------------------------------------------------------
(* RuntimeBuilder::build.                                                  *)

Moves(h, stage) ==
  /\ proc' = [proc EXCEPT ![h].at = stage]
  /\ UNCHANGED <<disk, installed, raced, builder, provider, request, deaths>>

CreateDir(h) ==
  /\ proc[h].at \in {"configured", "migrated"}
  /\ Moves(h, "dir")
  /\ UNCHANGED runtime

DbPath(b) == IF b.db = NoValue THEN <<b.dir, "memory.db">> ELSE b.db

OpenStore(h) ==
  /\ At(h, "dir")
  /\ Moves(h, IF builder[h].dir = SkillsDir THEN "store" ELSE "loaded")
  /\ runtime' = [runtime EXCEPT ![h].db = DbPath(builder[h])]

(* The directory cannot be made, or the store does not open.               *)
BuildFails(h) ==
  /\ proc[h].at \in {"configured", "migrated", "dir"}
  /\ Moves(h, "off")
  /\ UNCHANGED runtime

(* AGENTS.md if it exists, whatever is in it, or else ROLE.md; an empty    *)
(* file makes no project, and a file that is all frontmatter is taken      *)
(* whole.                                                                  *)
Instructions(files) == IF files.agents # "absent" THEN files.agents ELSE files.role

Projects == {[name |-> p, text |-> IF Instructions(ProjectFiles[p]) = "frontmatter" THEN "whole" ELSE "body"] :
               p \in {q \in DOMAIN ProjectFiles : Instructions(ProjectFiles[q]) \notin {"absent", "empty"}}}

LoadProjects(h) ==
  /\ At(h, "loaded")
  /\ Moves(h, "ready")
  /\ runtime' = [runtime EXCEPT ![h].projects = IF builder[h].dir = SkillsDir THEN Projects ELSE {}]

-----------------------------------------------------------------------------
(* ProviderFactory::create.                                                *)

OpenAiLike == {"openai", "groq", "mistral", "deepseek", "fireworks", "xai"}
Clis       == {"claude-code", "opencode"}
Kinds      == OpenAiLike \cup Clis \cup {"anthropic", "gemini", "ollama", "openrouter", "bedrock"}

(* The base_url that a provider uses; for bedrock it is the region, and    *)
(* the others have one of their own.                                       *)
BaseUrl(c) == IF c.kind \in OpenAiLike \cup {"ollama", "bedrock"} THEN Or(c.url, <<c.kind, "url">>)
              ELSE <<c.kind, "url">>

HttpsIfKeyed(c) == c.kind \in OpenAiLike => c.url # "http"

ModelFromTier(kind, tier) == IF kind \in Clis THEN NoModel ELSE <<kind, tier>>

ResolveModel(c) == IF c.model # NoModel THEN c.model
                   ELSE IF c.tier # NoValue THEN ModelFromTier(c.kind, c.tier)
                   ELSE NoModel

DefaultModel(kind) == IF kind \in Clis THEN "" ELSE <<kind, "default">>

Creatable(c) == c.kind \in Kinds /\ HttpsIfKeyed(c)

Created(c) == [kind |-> c.kind, url |-> BaseUrl(c),
               model |-> IF ResolveModel(c) = NoModel THEN DefaultModel(c.kind) ELSE ResolveModel(c)]

Create(h, c) ==
  /\ At(h, "ready")
  /\ provider[h] = NoValue
  /\ Creatable(c)
  /\ provider' = [provider EXCEPT ![h] = Created(c)]
  /\ UNCHANGED <<skillVars, builder, runtime, request, deaths>>

-----------------------------------------------------------------------------
(* Runtime::complete_with_needs, from the skill context to the provider.   *)

Turn(h, message) ==
  /\ At(h, "ready")
  /\ provider[h] # NoValue
  /\ LET skills == proc[h].skills
         override == ModelOverride(skills) IN
     request' = [request EXCEPT ![h] =
       [ message   |-> message,
         model     |-> IF override = NoModel THEN provider[h].model ELSE override,
         servers   |-> MatchSkillTriggers(skills, message),
         toolboxes |-> MatchSkillToolboxes(skills, message),
         deferred  |-> {} ]]
  /\ UNCHANGED <<skillVars, builder, runtime, provider, deaths>>

(* The host answers skill_search with the schemas of a deferred skill that *)
(* the directory lists.                                                    *)
SkillSearch(h, name) ==
  /\ At(h, "ready")
  /\ request[h] # NoValue
  /\ name \in LazySkillDirectory(proc[h].skills)
  /\ request' = [request EXCEPT ![h].deferred = GetToolboxesForSkill(proc[h].skills, name)]
  /\ UNCHANGED <<skillVars, builder, runtime, provider, deaths>>

-----------------------------------------------------------------------------
(* ToolExecutor: what a provider with tools offers in a request, and what  *)
(* runs a call of it.  up are the servers that connected.                  *)

BuiltIn       == <<"built-in">>
FromToolbox   == <<"toolbox">>
FromServer(s) == <<"server", s>>

Offer(names, by) == {[name |-> n, by |-> by] : n \in names}

AllToolDefs(toolboxes, up) ==
  Offer(BuiltinToolDefs, BuiltIn) \cup Offer({t.name : t \in toolboxes}, FromToolbox)
    \cup UNION {Offer(ServerTools[s.name], FromServer(s.name)) : s \in up}

(* A tool is called at the last server to connect that lists it.  Servers  *)
(* connect in the order of the skills, which is that of a directory.       *)
McpToolMap(up, name) == {FromServer(s.name) : s \in {server \in up : name \in ServerTools[server.name]}}

Lower(name) == IF name \in DOMAIN InLowerCase THEN InLowerCase[name] ELSE name

Dispatch(name, toolboxes, up) ==
  IF Lower(name) \in BuiltinToolDefs THEN {BuiltIn}
  ELSE IF \E t \in toolboxes : t.name = name THEN {FromToolbox}
  ELSE McpToolMap(up, name)

-----------------------------------------------------------------------------
NoRuntime == [db |-> NoValue, projects |-> {}]

Die(h) ==
  /\ ~ At(h, "off")
  /\ deaths < MaxDeaths
  /\ deaths' = deaths + 1
  /\ proc' = [proc EXCEPT ![h] = Off]
  /\ builder' = [builder EXCEPT ![h] = New]
  /\ runtime' = [runtime EXCEPT ![h] = NoRuntime]
  /\ provider' = [provider EXCEPT ![h] = NoValue]
  /\ request' = [request EXCEPT ![h] = NoValue]
  /\ UNCHANGED <<disk, installed, raced>>

StartInit ==
  /\ SkillsInit
  /\ proc = [h \in Hosts |-> Off]
  /\ builder = [h \in Hosts |-> New]
  /\ runtime = [h \in Hosts |-> NoRuntime]
  /\ provider = [h \in Hosts |-> NoValue]
  /\ request = [h \in Hosts |-> NoValue]
  /\ deaths = 0

(* A host migrates the flat files of its own data directory.               *)
Migrates(h) ==
  \/ builder[h].dir = SkillsDir /\ MigrateList(h)
  \/ \E s \in Stems : MigrateCheck(h, s)
  \/ MigrateMake(h) \/ MigrateMove(h) \/ MigrateDone(h)

LoadsSkills(h) == LoadList(h) \/ LoadDone(h) \/ \E s \in Stems : LoadEntry(h, s)

Others ==
  \/ \E s \in Stems, bundle \in Bundles : InstallSkill(s, bundle)
  \/ \E c \in Commands : InstallCommand(c)

HostNext(h) ==
  \/ \E c \in Settings[h] : Configure(h, c)
  \/ CreateDir(h) \/ OpenStore(h) \/ BuildFails(h) \/ LoadProjects(h)
  \/ \E c \in ProviderConfigs[h] : Create(h, c)
  \/ \E m \in Messages : Turn(h, m)
  \/ \E s \in {proc[h].skills[i].name : i \in DOMAIN proc[h].skills} : SkillSearch(h, s)
  \/ Die(h)

StartNext ==
  \/ (Others \/ \E h \in Hosts : Migrates(h) \/ LoadsSkills(h)) /\ UNCHANGED startVars
  \/ \E h \in Hosts : HostNext(h)

StartSpec == StartInit /\ [][StartNext]_startupVars

-----------------------------------------------------------------------------
(* Whichever servers connect, a tool that is offered is run by something   *)
(* that offers it, which is the one its definition came from unless two    *)
(* offer the same name, in whatever case: then a built-in tool comes       *)
(* first and a toolbox before a server.                                    *)
OffersAreAnswered(toolboxes, servers) ==
  \A up \in SUBSET servers :
    LET offers == AllToolDefs(toolboxes, up) IN
    \A o \in offers :
      LET alike == {other.by : other \in {x \in offers : Lower(x.name) = Lower(o.name)}}
          runs  == Dispatch(o.name, toolboxes, up)
      IN  /\ runs # {} /\ runs \subseteq alike
          /\ o.by = BuiltIn => runs = {BuiltIn}
          /\ o.by = FromToolbox => runs \subseteq {BuiltIn, FromToolbox}

(* A request offers the tools that its runtime's skills declare for the    *)
(* message, as their files allow (ToolsAreGranted), runs only servers that *)
(* they may run, and the schemas that are looked up later are those of an  *)
(* available deferred skill, or of the first skill of the same name.       *)
RequestIsGranted ==
  \A h \in Hosts : request[h] # NoValue =>
    /\ ToolsAreGranted(request[h].toolboxes, proc[h].skills, request[h].message)
    /\ ServersAreGranted(request[h].servers, proc[h].skills, request[h].message)
    /\ OffersAreAnswered(request[h].toolboxes, request[h].servers)
    /\ request[h].deferred # {} =>
         \E i, j \in DOMAIN proc[h].skills :
           /\ proc[h].skills[i].lazy /\ proc[h].skills[i].available
           /\ request[h].deferred = proc[h].skills[j].toolboxes
           /\ j = i \/ (j < i /\ proc[h].skills[j].name = proc[h].skills[i].name)
=============================================================================
