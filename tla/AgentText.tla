------------------------------ MODULE AgentText ------------------------------
(***************************************************************************)
(* What the agent makes of the text of its cluster: the states and the     *)
(* resources of a job as PBS prints them, in JSON or line by line, and as  *)
(* Slurm prints them; the limits written into a job script; the answer of a *)
(* software manager.                                                       *)
(*                                                                         *)
(* A text that is parsed is what the parser tells apart: a line is a key   *)
(* and a value, a duration the sequence of its numbers, an amount of       *)
(* memory a number and a unit.                                             *)
(***************************************************************************)
EXTENDS Integers, Sequences, FiniteSets, FiniteSetsExt, SequencesExt

JobStates == {"Queuing", "Running", "Suspended", "Completing", "Completed", "Failed", "Unknown"}

(***************************************************************************)
(* Numbers.                                                                *)
(***************************************************************************)

\* hh:mm:ss, with days in front of it or fields missing at the front.
ParseDuration(parts) ==
  LET field(k) == IF k < Len(parts) THEN parts[Len(parts) - k] ELSE 0
  IN field(0) + 60 * field(1) + 3600 * field(2) + 86400 * field(3)

\* A mutant: the minutes of all hours together.
FormatMinutes(d) == <<d \div 3600, d \div 60, d % 60>>

FormatDuration(d) == <<d \div 3600, (d % 3600) \div 60, (d % 3600) % 60>>

Units == <<"kb", "mb", "gb", "tb", "pb">>

ParseMemory(mem) ==
  IF mem.unit = "b" THEN mem.size
  ELSE IF \E i \in DOMAIN Units : Units[i] = mem.unit
       THEN mem.size * 1024 ^ (CHOOSE i \in DOMAIN Units : Units[i] = mem.unit)
       ELSE mem.size * 1024

(***************************************************************************)
(* Jobs.                                                                   *)
(***************************************************************************)

Well(exit) == exit \in {0, 254}

\* A mutant: whatever has left the queue has ended well.
PbsStateEnded(letter, exit) ==
  IF letter = "F" THEN "Completed" ELSE IF letter = "R" THEN "Running" ELSE "Queuing"

PbsState(letter, exit) ==
  CASE letter = "R" -> "Running"
    [] letter = "E" -> IF Well(exit) THEN "Completing" ELSE "Failed"
    [] letter = "F" -> IF Well(exit) THEN "Completed" ELSE "Failed"
    [] letter \in {"S", "U", "H"} -> "Suspended"
    [] letter = "Q" -> "Queuing"
    [] OTHER -> "Unknown"

\* One job of `qstat -xfF json`.
PbsJob(item) ==
  [state |-> PbsState(item.job_state, item.exit_status), exit |-> item.exit_status,
   cpu |-> item.ncpus, max_memory |-> ParseMemory(item.mem),
   wall_time |-> ParseDuration(item.walltime), cpu_time |-> ParseDuration(item.cput),
   start_time |-> item.stime,
   end_time |-> IF item.job_state \in {"F", "E"} THEN item.mtime ELSE 0,
   node |-> item.nodect]

NewJob == [state |-> "Unknown", exit |-> 0, cpu |-> 0, max_memory |-> 0, wall_time |-> 0,
           cpu_time |-> 0, start_time |-> 0, end_time |-> 0, node |-> 0]

\* One line of `qstat -xfw`: the state is decided with the exit status read so far.
PbsLine(job, line) ==
  LET v == line[2] IN
  CASE line[1] = "job_state" -> [job EXCEPT !.state = PbsState(v, job.exit)]
    [] line[1] = "Exit_status" -> [job EXCEPT !.exit = v]
    [] line[1] = "resources_used.walltime" -> [job EXCEPT !.wall_time = ParseDuration(v)]
    [] line[1] = "resources_used.cput" -> [job EXCEPT !.cpu_time = ParseDuration(v)]
    [] line[1] = "resources_used.ncpus" -> [job EXCEPT !.cpu = v]
    [] line[1] = "resources_used.mem" -> [job EXCEPT !.max_memory = ParseMemory(v)]
    [] line[1] = "stime" -> [job EXCEPT !.start_time = v]
    [] line[1] = "mtime" ->
         [job EXCEPT !.end_time =
            IF job.state \in {"Failed", "Completed", "Completing"} THEN v ELSE @]
    [] line[1] = "Resource_List.nodect" -> [job EXCEPT !.node = v]
    [] OTHER -> job

PbsTextJob(lines) == FoldLeft(PbsLine, NewJob, lines)

\* The order in which qstat prints the attributes of a job.
QstatLines(item) ==
  << <<"resources_used.cput", item.cput>>, <<"resources_used.mem", item.mem>>,
     <<"resources_used.ncpus", item.ncpus>>, <<"resources_used.walltime", item.walltime>>,
     <<"job_state", item.job_state>>, <<"mtime", item.mtime>>,
     <<"Resource_List.nodect", item.nodect>>, <<"stime", item.stime>>,
     <<"Exit_status", item.exit_status>> >>

SlurmState(state) ==
  CASE state \in {"BOOT_FAIL", "FAILED", "NODE_FAIL", "OUT_OF_MEMORY", "TIMEOUT", "DEADLINE"} -> "Failed"
    [] state = "CANCELLED" -> "Suspended"
    [] state = "COMPLETED" -> "Completed"
    [] state = "PENDING" -> "Queuing"
    [] state = "COMPLETING" -> "Completing"
    [] state = "RUNNING" -> "Running"
    [] OTHER -> "Unknown"

(***************************************************************************)
(* Scripts: the directives that limit a job, 0 for those left out. The     *)
(* requirements are a record of optional numbers, 0 for none.              *)
(***************************************************************************)
PbsScript(req) ==
  [nodes |-> IF req.node_count = 0 THEN 1 ELSE req.node_count,
   ppn |-> IF req.cpu_cores = 0 THEN 1 ELSE req.cpu_cores,
   walltime |-> IF req.max_wall_time = 0 THEN <<>> ELSE FormatDuration(req.max_wall_time),
   cput |-> IF req.max_cpu_time = 0 THEN <<>> ELSE FormatDuration(req.max_cpu_time)]

\* The bare number of --time: sbatch reads it as minutes.
SlurmScript(req) ==
  LET cores == (IF req.node_count = 0 THEN 1 ELSE req.node_count)
               * (IF req.cpu_cores = 0 THEN 1 ELSE req.cpu_cores)
  IN [nodes |-> IF req.node_count = 0 THEN 1 ELSE req.node_count,
      ntasks |-> req.cpu_cores,
      time |-> IF req.max_cpu_time # 0 THEN req.max_cpu_time \div cores ELSE req.max_wall_time]

\* What a scheduler makes of the directive: the seconds after which it stops a job.
PbsSeconds(req) == ParseDuration(PbsScript(req).walltime)
SlurmSeconds(req) == 60 * SlurmScript(req).time

(***************************************************************************)
(* The hash of an installed software: "found", "missing" or "error".       *)
(***************************************************************************)
SpackFind(json, lines) == IF json # "error" THEN json ELSE lines

ApptainerFind(image, tag) == IF image /\ tag THEN "found" ELSE "missing"
=============================================================================
