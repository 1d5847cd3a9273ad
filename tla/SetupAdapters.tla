--------------------------- MODULE SetupAdapters ---------------------------
(***************************************************************************)
(* The setup of a session: what the organization declares (skills, MCP     *)
(* servers, hooks), resolved against the registry and written into the     *)
(* session's directory by the adapter of the session's harness             *)
(* (orbit/src/adapter/, called from post_message in                        *)
(* axis/src/server/routes/sessions.rs).                                    *)
(*                                                                         *)
(* Every prompt materializes the setup again, in Union mode, on the        *)
(* directory the prompts before it left behind.  The prompt holds the      *)
(* views' read lock meanwhile: declarations, the registry and the          *)
(* session's harness cannot change under it, but another prompt may write  *)
(* the same files.                                                         *)
(*                                                                         *)
(* Abstracted: plugins (no harness activates them), and the warnings,      *)
(* which are returned and appended to CLAUDE.md or AGENTS.md; what is kept *)
(* of them is that writing that file may fail.  fs::write truncates the    *)
(* file and then fills it; a truncated file reads as an empty one.         *)
(***************************************************************************)
EXTENDS Naturals, Sequences, SequencesExt

CONSTANTS Server,       \* slugs of kind "mcp"
          Skill,        \* slugs of kind "skill"
          Hook,         \* slugs of kind "hook"
          Event,        \* the keys a hook's definition sets
          EventOf,      \* [Hook -> Event]
          Definition,   \* usable definitions
          Absent,       \* no such entry in the registry, in a file, in a directory
          Invalid,      \* an entry that does not parse or names no directory
          Poster,       \* prompts of the session
          MaxPosts,     \* bound: materializations
          MaxChanges    \* bound: changes of the registry, declaration and harness

ASSUME AdapterAssumption ==
  /\ EventOf \in [Hook -> Event]
  /\ Absent # Invalid /\ {Absent, Invalid} \cap Definition = {}

VARIABLES registry,  \* [slug -> its definition]
          declared,  \* the slugs the organization declares
          agent,     \* the harness the session is bound to
          mcpJson,   \* .mcp.json: [Server -> definition]
          config,    \* .codex/config.toml: [Server -> the sections it has, in order]
          settings,  \* .claude/settings.json: [Event -> <<hook, definition>>]
          skills,    \* [harness -> [Skill -> what its skill directory holds]]
          post,      \* [Poster -> the prompt's place in materialize]
          current,   \* history: since the last change the files had prompts, none failed
          posts,     \* materializations so far
          changes    \* changes so far

files == <<mcpJson, config, settings, skills>>
setup == <<registry, declared, agent>>
adapterVars == <<setup, files, post, current, posts, changes>>

Harness == {"hermes", "claude", "codex"}
Slug == Server \cup Skill \cup Hook
Idle == [at |-> "idle"]
NoSettings == [e \in Event |-> <<Absent, Absent>>]

AdaptersInit ==
  /\ registry = [s \in Slug |-> Absent]
  /\ declared = {}
  /\ agent \in Harness
  /\ mcpJson = [s \in Server |-> Absent]
  /\ config = [s \in Server |-> <<>>]
  /\ settings = NoSettings
  /\ skills = [h \in Harness |-> [s \in Skill |-> Absent]]
  /\ post = [p \in Poster |-> Idle]
  /\ current = FALSE
  /\ posts = 0
  /\ changes = 0

-----------------------------------------------------------------------------
(* What may change between the prompts, under the views' write lock. *)

Unlocked == \A p \in Poster : post[p] = Idle

Changed ==
  /\ Unlocked /\ changes < MaxChanges
  /\ changes' = changes + 1
  /\ current' = FALSE
  /\ UNCHANGED <<files, post, posts>>

\* EntryRegistered, or the reconciliation of a package's contributions.
Register(slug, definition) ==
  /\ Changed
  /\ definition # registry[slug]
  /\ registry' = [registry EXCEPT ![slug] = definition]
  /\ UNCHANGED <<declared, agent>>

\* SetupDeclared replaces the whole declaration of its scope.
Declare(slugs) ==
  /\ Changed
  /\ slugs # declared
  /\ declared' = slugs
  /\ UNCHANGED <<registry, agent>>

\* SessionUpdated binds the session to another harness; the directory stays.
Rebind(harness) ==
  /\ Changed
  /\ harness # agent
  /\ agent' = harness
  /\ UNCHANGED <<registry, declared>>

-----------------------------------------------------------------------------
(* materialize: one prompt, one step per file operation. *)

\* The declared slugs of a kind that resolve and parse; the others are warned of.
Usable(kind) == {s \in declared \cap kind : registry[s] \in Definition}

FirstStep == CASE agent = "claude" -> "mcp"
               [] agent = "codex"  -> "readConfig"
               [] OTHER            -> "skills"

Stays(names) == UNCHANGED <<setup, changes, names>>

Goto(p, step) == post' = [post EXCEPT ![p] = [at |-> step]]
GotoWith(p, step, content) ==
  post' = [post EXCEPT ![p] = [at |-> step, content |-> content]]

\* post_message: resolve the effective setup and choose the adapter.
Materialize(p) ==
  /\ post[p] = Idle /\ posts < MaxPosts
  /\ posts' = posts + 1
  /\ Goto(p, FirstStep)
  /\ current' = (Unlocked \/ current)
  /\ Stays(files)

\* What a step would write; without it there is no operation that could fail.
Resolved(kind) == {s \in declared \cap kind : registry[s] # Absent}
MayFail(step) ==
  CASE step = "mcp"    -> Usable(Server) # {}
    [] step = "skills" -> Resolved(Skill) # {}
    [] step = "hooks"  -> Resolved(Hook) # {}
    [] step = "notes"  -> agent # "hermes"
    [] OTHER           -> TRUE

\* A directory is not created or a file not written: the prompt goes on with an
\* empty setup.
Fail(p) ==
  /\ post[p] # Idle
  /\ MayFail(post[p].at)
  /\ Goto(p, "idle")
  /\ current' = FALSE
  /\ Stays(<<files, posts>>)

\* Claude Code: .mcp.json is rewritten, unless there is nothing to write.
TruncateMcp(p) ==
  /\ post[p].at = "mcp"
  /\ Usable(Server) # {}
  /\ mcpJson' = [s \in Server |-> Absent]
  /\ Goto(p, "fillMcp")
  /\ Stays(<<config, settings, skills, current, posts>>)

SkipMcp(p) ==
  /\ post[p].at = "mcp"
  /\ Usable(Server) = {}
  /\ Goto(p, "skills")
  /\ Stays(<<files, current, posts>>)

FillMcp(p) ==
  /\ post[p].at = "fillMcp"
  /\ mcpJson' = [s \in Server |-> IF s \in Usable(Server) THEN registry[s] ELSE Absent]
  /\ Goto(p, "skills")
  /\ Stays(<<config, settings, skills, current, posts>>)

\* Codex: every line of the present file is kept, and a section added for each
\* server.
Sections(content) ==
  [s \in Server |-> content[s] \o (IF s \in Usable(Server) THEN <<registry[s]>> ELSE <<>>)]

ReadHarness(p) ==
  /\ post[p].at = "readConfig"
  /\ LET content == Sections(config) IN
     IF content = [s \in Server |-> <<>>] THEN Goto(p, "skills")
                                          ELSE GotoWith(p, "writeConfig", content)
  /\ Stays(<<files, current, posts>>)

TruncateConfig(p) ==
  /\ post[p].at = "writeConfig"
  /\ config' = [s \in Server |-> <<>>]
  /\ GotoWith(p, "fillConfig", post[p].content)
  /\ Stays(<<mcpJson, settings, skills, current, posts>>)

FillConfig(p) ==
  /\ post[p].at = "fillConfig"
  /\ config' = post[p].content
  /\ Goto(p, "skills")
  /\ Stays(<<mcpJson, settings, skills, current, posts>>)

\* Skills are copied over what an earlier prompt copied; Hermes gets symlinks,
\* and a link that exists stays as it is.
AfterSkills == IF agent = "claude" THEN "hooks" ELSE "notes"
PlacedOnce(done) ==   \* faulty: a copy that exists stays, as a link does
  [s \in Skill |->
     IF s \notin done \/ skills[agent][s] # Absent THEN skills[agent][s] ELSE registry[s]]
Placed(done) ==
  [s \in Skill |->
     IF s \notin done \/ (agent = "hermes" /\ skills[agent][s] # Absent)
     THEN skills[agent][s] ELSE registry[s]]

PlaceSkills(p) ==
  /\ post[p].at = "skills"
  /\ skills' = [skills EXCEPT ![agent] = Placed(Usable(Skill))]
  /\ Goto(p, AfterSkills)
  /\ Stays(<<mcpJson, config, settings, current, posts>>)

\* A copy fails half way: the skills before it are in place.  A link never fails.
PlaceSomeSkills(p) ==
  /\ post[p].at = "skills" /\ agent # "hermes"
  /\ \E done \in SUBSET Usable(Skill) :
       /\ done # Usable(Skill)
       /\ skills' = [skills EXCEPT ![agent] = Placed(done)]
  /\ Goto(p, "idle")
  /\ current' = FALSE
  /\ Stays(<<mcpJson, config, settings, posts>>)

\* Claude Code's hooks: the keys of every definition are set in settings.json,
\* where the last hook of a key wins.
Merged(content, merged) ==
  \A e \in Event :
    LET sets == {h \in Usable(Hook) : EventOf[h] = e} IN
    IF sets = {} THEN merged[e] = content[e]
                 ELSE \E h \in sets : merged[e] = <<h, registry[h]>>

Settings == [Event -> (Hook \cup {Absent}) \X (Definition \cup {Absent})]

\* Nothing is written when no declared hook resolves.
ReadSettings(p) ==
  /\ post[p].at = "hooks"
  /\ Resolved(Hook) # {}
  /\ \E merged \in Settings :
       Merged(settings, merged) /\ GotoWith(p, "writeSettings", merged)
  /\ Stays(<<files, current, posts>>)

SkipHooks(p) ==
  /\ post[p].at = "hooks"
  /\ Resolved(Hook) = {}
  /\ Goto(p, "notes")
  /\ Stays(<<files, current, posts>>)

TruncateSettings(p) ==
  /\ post[p].at = "writeSettings"
  /\ settings' = NoSettings
  /\ GotoWith(p, "fillSettings", post[p].content)
  /\ Stays(<<mcpJson, config, skills, current, posts>>)

FillSettings(p) ==
  /\ post[p].at = "fillSettings"
  /\ settings' = post[p].content
  /\ Goto(p, "notes")
  /\ Stays(<<mcpJson, config, skills, current, posts>>)

\* The notes are appended, and the overlay is handed to the runtime.
Finish(p) ==
  /\ post[p].at = "notes"
  /\ Goto(p, "idle")
  /\ Stays(<<files, current, posts>>)

Write(p) ==
  \/ TruncateMcp(p) \/ SkipMcp(p) \/ FillMcp(p)
  \/ ReadHarness(p) \/ TruncateConfig(p) \/ FillConfig(p)
  \/ PlaceSkills(p) \/ PlaceSomeSkills(p)
  \/ ReadSettings(p) \/ SkipHooks(p) \/ TruncateSettings(p) \/ FillSettings(p)

AdaptersNext ==
  \/ \E slug \in Slug, d \in Definition \cup {Absent, Invalid} : Register(slug, d)
  \/ \E slugs \in SUBSET Slug : Declare(slugs)
  \/ \E h \in Harness : Rebind(h)
  \/ \E p \in Poster : Materialize(p) \/ Fail(p) \/ Write(p) \/ Finish(p)

AdaptersSpec == AdaptersInit /\ [][AdaptersNext]_adapterVars

-----------------------------------------------------------------------------

\* What a prompt that is about to write a file carries along.
Places == {"idle", "mcp", "fillMcp", "readConfig", "writeConfig", "fillConfig", "skills",
           "hooks", "writeSettings", "fillSettings", "notes"}
Carries(q) ==
  /\ q.at \in Places
  /\ q.at \in {"writeConfig", "fillConfig"} => q.content \in [Server -> Seq(Definition)]
  /\ q.at \in {"writeSettings", "fillSettings"} => q.content \in Settings

\* Every variable has its type.
AdaptersTypeOK ==
  /\ registry \in [Slug -> Definition \cup {Absent, Invalid}]
  /\ declared \subseteq Slug /\ agent \in Harness
  /\ mcpJson \in [Server -> Definition \cup {Absent}]
  /\ config \in [Server -> Seq(Definition)]
  /\ settings \in Settings
  /\ skills \in [Harness -> [Skill -> Definition \cup {Absent}]]
  /\ post = [p \in Poster |-> post[p]] /\ \A p \in Poster : Carries(post[p])
  /\ current \in BOOLEAN /\ posts \in Nat /\ changes \in Nat

MCPThere ==
  CASE agent = "claude" -> \A s \in Usable(Server) : mcpJson[s] = registry[s]
    [] agent = "codex"  -> \A s \in Usable(Server) :
                             config[s] # <<>> /\ Last(config[s]) = registry[s]
    [] OTHER            -> TRUE

SkillsThere ==
  \A s \in Usable(Skill) :
    IF agent = "hermes" THEN skills[agent][s] # Absent
                        ELSE skills[agent][s] = registry[s]

HooksThere ==
  agent = "claude" =>
    \A h \in Usable(Hook) :
      \E g \in Usable(Hook) :
        EventOf[g] = EventOf[h] /\ settings[EventOf[h]] = <<g, registry[g]>>

\* Once the prompts that wrote a session's directory at the same time are done
\* and none failed, it holds the present definition of every declared entry that
\* resolves: the servers in the harness's own file, the skills in its own
\* directory (for Hermes, a link of any age), and for each hook event one of the
\* hooks declared for it.
DeclaredIsThere ==
  (Unlocked /\ current) => (MCPThere /\ SkillsThere /\ HooksThere)
=============================================================================
