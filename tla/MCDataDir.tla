------------------------------ MODULE MCDataDir -----------------------------
(* A data directory for TLC, two parts that share no state: a behaviour is *)
(* about a pipeline and its checkpoints (Pipelines), or about two hosts on *)
(* one skills directory (Startup).                                         *)
EXTENDS Pipelines, Startup

VARIABLE part

dataDirVars == <<vars, startupVars, part>>

-----------------------------------------------------------------------------
(* Some topologies: a group in the middle, two groups one after the other, *)
(* a group that is interrupted and taken up again, and a corrective loop.  *)
Phase(n, g, max) == [name |-> n, group |-> g, agent |-> n,
                     fix |-> IF max = 0 THEN NoAgent ELSE "fixer", max |-> max]

MCTopologies == {
  <<Phase("a", NoGroup, 0), Phase("b", "g", 0), Phase("c", "g", 1), Phase("d", NoGroup, 0)>>,
  <<Phase("a", "g", 0), Phase("b", "g", 0), Phase("c", "h", 0), Phase("d", "h", 0)>>,
  <<Phase("a", "g", 0), Phase("b", NoGroup, 1), Phase("c", "g", 0)>>,
  <<Phase("a", NoGroup, 2), Phase("../b", NoGroup, 0)>> }

MCValid == {"a", "b", "c", "d", "fixer", "extra"}

-----------------------------------------------------------------------------
(* The skills.  The entries a and b are flat files; a and c are            *)
(* directories; b may be installed as well.                                *)
Bare(b)  == [dir |-> "", base |-> b]
Tool(n, c)  == [name |-> n, command |-> c, plain |-> TRUE, network |-> FALSE]
Server(n, c) == [name |-> n, command |-> c, plain |-> TRUE]

(* Restricted: one command allowed, one refused, an argument refused.      *)
Restricted ==
  [form |-> "toml", name |-> 1, requires |-> {}, bins |-> {}, trigger |-> {"web"},
   lazy |-> FALSE, model |-> NoModel, commands |-> {Bare("node")}, network |-> TRUE, env |-> {"KEY"},
   mcp |-> {Server("s", Bare("node")), Server("x", Bare("uvx"))},
   toolbox |-> {Tool("t", Bare("node")), Tool("u", Bare("sh")),
                [Tool("v", Bare("node")) EXCEPT !.plain = FALSE]}]

(* Open: no allow-list, tools of the same names, a relative command; needs *)
(* a command.                                                              *)
Open ==
  [form |-> "toml", name |-> 2, requires |-> {"git"}, bins |-> {}, trigger |-> {"web", "mail"},
   lazy |-> FALSE, model |-> "m", commands |-> {}, network |-> FALSE, env |-> {},
   mcp |-> {Server("s", [dir |-> "/system", base |-> "uvx"]), Server("y", Bare("sh")),
           Server("f", Bare("uvx"))},
   toolbox |-> {Tool("t", Bare("sh")), Tool("w", [dir |-> "bin", base |-> "sh"])}]

Deferred ==
  [Open EXCEPT !.name = 3, !.requires = {}, !.lazy = TRUE, !.model = NoModel,
               !.toolbox = {Tool("z", Bare("sh"))}]

Yaml == [Open EXCEPT !.form = "yaml", !.name = 4, !.requires = {}, !.bins = {"git"}]

Garbled == [Open EXCEPT !.form = "garbled"]

MCFiles == {Restricted, Open, Deferred, Yaml, Garbled}

NoSidecar == [mcp |-> Broken, toolbox |-> Broken]

(* Replaces t, tries to bring u past the allow-list, and adds one.         *)
Overriding ==
  [mcp |-> {Server("s", [dir |-> "/system", base |-> "node"])},
   toolbox |-> {[Tool("t", [dir |-> "/system", base |-> "node"]) EXCEPT !.network = TRUE],
                Tool("u", Bare("sh")), Tool("q", Bare("node"))}]

MCSidecars == {NoSidecar, Overriding}

MCBundles == [file : {Yaml, Garbled}, json : {NoSidecar}]

MCInit ==
  /\ flat = [s \in Stems |-> CASE s = "a" -> Garbled [] s = "b" -> Open [] OTHER -> NoFile]
  /\ dirs = {"a", "c"}
  /\ skillFile = [s \in Stems |-> CASE s = "a" -> Restricted [] s = "c" -> Deferred [] OTHER -> NoFile]
  /\ \E json \in MCSidecars : sidecar = [s \in Stems |-> IF s = "a" THEN json ELSE NoSidecar]
  /\ installed = {}

Conf(how, dir, db) == [how |-> how, dir |-> dir, db |-> db]

MCSettings ==
  [h1 |-> {Conf("env", "work", NoValue), Conf("missing", NoValue, NoValue), Conf("broken", NoValue, NoValue)},
   h2 |-> {Conf("file", "work", NoValue)}]

Prov(kind, url, model, tier) == [kind |-> kind, url |-> url, model |-> model, tier |-> tier]

MCProviders ==
  [h1 |-> {Prov("groq", "http", NoModel, NoValue), Prov("ollama", "http", NoModel, "flagship"),
           Prov("claude-code", NoValue, NoModel, "standard"), Prov("nobody", NoValue, NoModel, NoValue)},
   h2 |-> {}]

MCProjects ==
  [p1 |-> [agents |-> "empty", role |-> "body"], p2 |-> [agents |-> "absent", role |-> "frontmatter"]]

(* Both list fetch; the other names are those of two toolboxes and, but    *)
(* for the case of its letters, of a built-in tool.                        *)
MCServerTools == [s |-> {"fetch", "t"}, f |-> {"fetch", "w", "Read"}]

MCInLowerCase == [Read |-> "read"]

MCMessages == {{"web"}, {"mail", "news"}}

-----------------------------------------------------------------------------
(* Where nothing happens to the skills, or to a pipeline, one initial      *)
(* state is enough.                                                        *)
DataDirInit ==
  /\ part \in {"pipeline", "skills"}
  /\ Init /\ MCInit /\ StartInit
  /\ part # "pipeline" => phases = (CHOOSE t \in Topologies : TRUE) /\ "extra" \in files
  /\ part # "skills" => sidecar["a"] = NoSidecar

DataDirNext ==
  \/ part = "pipeline" /\ Next /\ UNCHANGED <<startupVars, part>>
  \/ part = "skills" /\ StartNext /\ UNCHANGED <<vars, part>>

DataDirSpec == DataDirInit /\ [][DataDirNext]_dataDirVars
=============================================================================
