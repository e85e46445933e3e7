------------------------------ MODULE MCLifecycle ------------------------------
(* Instance of Lifecycle for TLC; liveness is checked, so without symmetry. *)
EXTENDS Lifecycle

(* A file that is complete, with room for one connection, and no environment. *)
File ==
    [port |-> 8080, timeout |-> 10, dbPort |-> 5432, maxOpen |-> 1, secret |-> 32,
     environment |-> "staging", sslMode |-> "require", strings |-> Required]

Empty == [kind |-> "empty", n |-> 0]
Garbage == [kind |-> "garbage", n |-> 0]
Number(n) == [kind |-> "number", n |-> n]

Plain ==
    [explicit |-> TRUE, file |-> [state |-> "parsed", settings |-> File],
     env |-> [port |-> Empty, timeout |-> Empty, secret |-> 0, environment |-> "",
              strings |-> {}]]

(* Accepted: a complete file, one that is completed by the environment, one  *)
(* with default sizes that a misspelt number does not disturb.  Refused: by  *)
(* Load, by Validate and by the pool.                                        *)
MCSources ==
    { Plain,
      [Plain EXCEPT !.file.settings.timeout = 0, !.file.settings.maxOpen = 2,
                    !.file.settings.strings = DatabaseStrings,
                    !.env.timeout = Number(30), !.env.strings = Required],
      [Plain EXCEPT !.file.settings.maxOpen = 0, !.env.timeout = Garbage],
      [Plain EXCEPT !.file.state = "missing"],
      [Plain EXCEPT !.explicit = FALSE, !.file.state = "missing",
                    !.env.port = Number(80), !.env.timeout = Number(5), !.env.secret = 40,
                    !.env.environment = "production", !.env.strings = Required],
      [Plain EXCEPT !.env.timeout = Number(0)],
      [Plain EXCEPT !.env.secret = 31],
      [Plain EXCEPT !.file.settings.maxOpen = -1] }
===============================================================================
