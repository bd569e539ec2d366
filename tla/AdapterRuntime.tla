--------------------------- MODULE AdapterRuntime ---------------------------
(***************************************************************************)
(* Connections to model runtimes: when a configured connection is valid,   *)
(* how the assistant and the command line build one, what the adapters     *)
(* check before they send a request, and the error class under which each  *)
(* way an invocation can end reaches the caller.                           *)
(*                                                                         *)
(* Source: .ai/foundation/ai_runtime_adapters/runtime_configuration.py,    *)
(* reference_adapters.py, stdio_adapter.py, runtime_mcp.py and             *)
(* Scripts/Security/secure_file_io.py.                                     *)
(***************************************************************************)
EXTENDS Naturals, TLC

CONSTANTS
  None,        \* no value
  DataClass,   \* the classes of data a request may carry
  Cloud        \* the models whose name has a cloud marker

Adapters == {"ollama", "openai-compatible", "stdio"}
Outside == {"LOCAL_NETWORK", "REMOTE", "UNKNOWN"}
Boundaries == Outside \cup {"HOST"}
Sources == {"NONE", "ENVIRONMENT", "DOTENV_REFERENCE"}

Stdio(c) == c.adapter = "stdio"

\* The connections a new entry starts from.
Defaults(adapter) ==
  [adapter |-> adapter, sane |-> TRUE, boundary |-> "UNKNOWN", secure |-> FALSE,
   host |-> IF adapter = "stdio" THEN None ELSE "LOOPBACK",
   program |-> None, exported |-> FALSE, trust |-> FALSE,
   network |-> adapter # "stdio", cloud |-> FALSE,
   allowed |-> {"PUBLIC"}, remote |-> {}, credential |-> "NONE",
   mode |-> "ROUTER", model |-> None]

-----------------------------------------------------------------------------
(* Validation. "sane" stands for the checks of form: the exact set of      *)
(* fields, names, absolute roots, bounded times.                           *)

ValidProgram(c) == c.program = "EXECUTABLE"

ValidOrigin(c) ==
  /\ c.host \in {"LOOPBACK", "NAMED"}
  /\ c.boundary = "HOST" /\ c.host = "LOOPBACK" => c.trust

ValidCredential(c) ==
  /\ c.credential \in Sources
  /\ Stdio(c) /\ c.credential # "NONE" => c.exported

ValidSelection(c) ==
  /\ c.mode \in {"MANUAL", "PINNED", "ROUTER"}
  /\ c.mode = "PINNED" <=> c.model # None

ValidConnection(c) ==
  /\ c.sane
  /\ c.adapter \in Adapters
  /\ c.boundary \in Boundaries
  /\ IF Stdio(c) THEN ValidProgram(c) ELSE ValidOrigin(c)
  /\ c.allowed \cup c.remote \subseteq DataClass
  /\ ValidCredential(c)
  /\ ValidSelection(c)

\* The entry an edit of an existing one, of another adapter or of nothing
\* starts from.
Current(old, adapter) ==
  IF old = None THEN Defaults(adapter)
  ELSE IF ValidConnection(old) /\ old.adapter = adapter THEN old
  ELSE Defaults(adapter)

\* The assistant asks every field again and drops what the others exclude.
Asked(current, a) ==
  LET http == ~Stdio(current)
      leaves == (http /\ a.cloud) \/ a.boundary \in Outside
  IN  [current EXCEPT
         !.program = IF http THEN None ELSE a.program,
         !.host = IF http THEN a.host ELSE None,
         !.boundary = a.boundary,
         !.trust = http /\ a.boundary = "HOST" /\ a.host = "LOOPBACK" /\ a.trust,
         !.network = a.network,
         !.allowed = a.allowed,
         !.cloud = http /\ a.cloud,
         !.remote = IF leaves THEN a.remote ELSE {},
         !.mode = a.mode,
         !.model = IF a.mode = "PINNED" THEN a.model ELSE None,
         !.credential = a.credential]

\* The command line replaces the fields it was given and keeps the others.
Overridden(current, args) == args @@ current

-----------------------------------------------------------------------------
(* Catalogs: fragments of models, each with the boundary it lies behind.   *)

Rank(boundary) ==
  CASE boundary = "HOST" -> 0 [] boundary = "LOCAL_NETWORK" -> 1
    [] boundary = "REMOTE" -> 2 [] OTHER -> 3

Fragment(boundary, models, priced) ==
  [boundary |-> boundary, models |-> models, priced |-> priced]

\* A tag with a cloud marker is listed behind a remote boundary, whatever the
\* boundary of the runtime that serves it, and has no price.
OllamaCatalog(c, named) ==
  {f \in {Fragment(c.boundary, named \ Cloud, TRUE), Fragment("REMOTE", named \cap Cloud, FALSE)} :
     f.models # {}}

\* Beyond the host the price is missing.
OpenAICatalog(c, named) == {Fragment(c.boundary, named, c.boundary \notin Outside)}

\* A program lists fragments itself; one beyond the boundary configured for
\* it spoils the catalog, the others are taken to lie behind that boundary.
StdioCatalog(c, listed) ==
  IF \E f \in listed : Rank(f.boundary) > Rank(c.boundary) THEN {}
  ELSE {[f EXCEPT !.boundary = c.boundary] : f \in listed}

CatalogOf(c, named) ==
  CASE c.adapter = "ollama" -> OllamaCatalog(c, named)
    [] c.adapter = "openai-compatible" -> OpenAICatalog(c, named)
    [] OTHER -> StdioCatalog(c, {Fragment("HOST", named, TRUE)})

-----------------------------------------------------------------------------
(* The checks of an invocation.                                            *)

\* A credential travels over HTTPS, or to a host-local endpoint trusted
\* explicitly; the constructor of the HTTP adapters refuses anything else.
Constructed(c) ==
  \/ c.credential = "NONE"
  \/ c.secure
  \/ c.host = "LOOPBACK" /\ c.boundary = "HOST" /\ c.trust

\* Data leave the host when the boundary says so, or with a cloud model.
Leaves(c, model) ==
  c.boundary \in Outside \/ (c.adapter = "ollama" /\ model \in Cloud)

Permitted(c, model, call) ==
  /\ c.adapter = "ollama" /\ model \in Cloud =>
       c.cloud /\ call.remote /\ call.class \in c.remote
  /\ c.boundary \in Outside => call.remote /\ call.class \in c.remote
  /\ call.class \in c.allowed
  /\ c.network

\* The class of the refusal of an invocation before anything is sent. An
\* error of the configuration store carries no class and counts as unknown.
Refusal(c, model, call, secrets) ==
  IF c = None \/ ~ValidConnection(c) THEN "UNKNOWN"
  ELSE IF c.credential # "NONE" /\ c.credential \notin secrets THEN "UNKNOWN"
  ELSE IF Stdio(c) THEN "CAPABILITY"
  ELSE IF ~Constructed(c) THEN "CONFIGURATION"
  ELSE IF ~Permitted(c, model, call) THEN "PERMISSION"
  ELSE None

\* Every way an HTTP request that was permitted can end, with the class of
\* the error the caller sees. First, what the adapter itself reports; then the
\* reading of the body; then the files: the output is open around the request,
\* and whatever leaves that block as an error of the system, a connection reset
\* after the request was sent included, becomes a refused file handle.
RequestClass ==
  [NOT_REACHED |-> "AVAILABILITY",    \* no connection to the endpoint
   DENIED |-> "CREDENTIAL",           \* answered 401 or 403
   TIMED_OUT |-> "TIMEOUT",
   BAD_REPLY |-> "PROTOCOL",          \* another status, or no JSON
   ANSWERED |-> None]

BodyClass ==
  [INCOMPLETE |-> "PROTOCOL",         \* too long, or shorter than declared
   CUT_SHORT |-> "UNKNOWN"]           \* the transfer itself broke off

HandleClass ==
  [UNREADABLE |-> "INPUT",            \* the input handle could not be read
   RESET |-> "INPUT",                 \* connection lost while waiting
   NOT_PUBLISHED |-> "INPUT"]         \* answered, output could not be placed

ErrorClass ==
  [end \in DOMAIN RequestClass \cup DOMAIN BodyClass \cup DOMAIN HandleClass |->
     IF end \in DOMAIN RequestClass THEN RequestClass[end]
     ELSE IF end \in DOMAIN BodyClass THEN BodyClass[end] ELSE HandleClass[end]]
=============================================================================
