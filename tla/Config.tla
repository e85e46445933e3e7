-------------------------------- MODULE Config --------------------------------
(***************************************************************************)
(* How the API process gets its settings: config.Load reads a YAML file    *)
(* and lets environment variables override part of it, config.Validate     *)
(* accepts or refuses the outcome, and database.New sizes the pool by it.  *)
(*                                                                         *)
(* Settings that only have to be there are kept as the set of those that   *)
(* are not empty, the JWT secret as its length in bytes.                   *)
(***************************************************************************)
EXTENDS Integers

DatabaseStrings == {"host", "name", "user", "password"}

(* String settings that Validate wants, and those with a variable.           *)
Overridable ==
    {"service_id", "google_client_id", "google_client_secret",
     "github_client_id", "github_client_secret"}
Required == Overridable \cup DatabaseStrings

validEnvironments == {"development", "staging", "production"}
validSSLModes == {"disable", "require", "verify-full"}

(* Strings that are neither empty nor valid are one and the same here. *)
Environments == validEnvironments \cup {"", "other"}
SSLModes == validSSLModes \cup {"", "other"}

Settings ==
    [port : Int, timeout : Int, dbPort : Int, maxOpen : Int, secret : Nat,
     environment : Environments, sslMode : SSLModes, strings : SUBSET Required]

(* The zero value of Config. *)
Zero ==
    [port |-> 0, timeout |-> 0, dbPort |-> 0, maxOpen |-> 0, secret |-> 0,
     environment |-> "", sslMode |-> "", strings |-> {}]

(* Text of a variable that should hold an integer; n is what Atoi makes of a *)
(* number once the spaces around it are trimmed.                             *)
Text == [kind : {"empty", "garbage", "number"}, n : Int]

(* What a process is started with: whether POSTULATE_CONFIG_FILE is set, the *)
(* file at the path in use, and the environment.                             *)
Source ==
    [explicit : BOOLEAN,
     file : [state : {"missing", "unreadable", "malformed", "parsed"}, settings : Settings],
     env : [port : Text, timeout : Text, secret : Nat, environment : Environments,
            strings : SUBSET Required]]

-------------------------------------------------------------------------------
(* loadYAML returns no error: only the default path may be missing. *)
FileAccepted(src) ==
    src.file.state = "parsed" \/ (src.file.state = "missing" /\ ~src.explicit)

FromFile(src) == IF src.file.state = "parsed" THEN src.file.settings ELSE Zero

(* Mutated form of setInt: a variable only fills what the file left out. *)
setIntUnlessSet(field, text) ==
    IF text.kind = "number" /\ field = 0 THEN text.n ELSE field

(* A value that is no integer is ignored. *)
setInt(field, text) == IF text.kind = "number" THEN text.n ELSE field

(* An empty value cannot override; database settings have no variable. *)
applyEnvOverrides(cfg, env) ==
    [cfg EXCEPT
        !.port        = setInt(@, env.port),
        !.timeout     = setInt(@, env.timeout),
        !.environment = IF env.environment = "" THEN @ ELSE env.environment,
        !.secret      = IF env.secret = 0 THEN @ ELSE env.secret,
        !.strings     = @ \cup (env.strings \cap Overridable)]

Load(src) == applyEnvOverrides(FromFile(src), src.env)

ValidPort(port) == port \in 1..65535

Validate(cfg) ==
    /\ ValidPort(cfg.port)
    /\ cfg.environment \in validEnvironments
    /\ cfg.timeout >= 1
    /\ Required \subseteq cfg.strings
    /\ ValidPort(cfg.dbPort)
    /\ cfg.sslMode \in validSSLModes
    /\ cfg.secret >= 32

(* maxConns of buildPoolConfig. *)
PoolSize(cfg) == IF cfg.maxOpen = 0 THEN 25 ELSE cfg.maxOpen
===============================================================================
