------------------------------- MODULE Config -------------------------------
(***************************************************************************)
(* The server's configuration (src/config/config.cpp), of which the event  *)
(* loop uses the password.  A file is its sequence of lines; a line is a   *)
(* setting [key, value] or Blank, which also stands for a comment.         *)
(***************************************************************************)
EXTENDS Integers, Sequences

Blank == [key |-> "#", value |-> ""]

\* A file that cannot be opened.
Unreadable == <<>>

set_defaults == [key \in {"port", "requirepass"} |-> IF key = "port" THEN "6399" ELSE ""]

\* config_[key] = value, for the lines that set something.
Config_set(config, line) ==
    IF line = Blank THEN config
    ELSE [key \in DOMAIN config \cup {line.key} |->
            IF key = line.key THEN line.value ELSE config[key]]

\* A file that cannot be opened changes nothing.
load_file(config, file) ==
    LET after[n \in 0 .. Len(file)] ==
            IF n = 0 THEN config ELSE Config_set(after[n - 1], file[n])
    IN  after[Len(file)]

\* Every --config argument in turn; main goes on whether it loads or not.
Loaded(files) ==
    LET after[n \in 0 .. Len(files)] ==
            IF n = 0 THEN set_defaults ELSE load_file(after[n - 1], files[n])
    IN  after[Len(files)]

Config_get(config, key) == IF key \in DOMAIN config THEN config[key] ELSE ""

Config_password(config) == Config_get(config, "requirepass")

=============================================================================
