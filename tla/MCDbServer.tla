---------------------------- MODULE MCDbServer ----------------------------
(***************************************************************************)
(* Instances of DbServer for TLC, with the upgrade scripts of the engine.  *)
(***************************************************************************)
EXTENDS DbServer

CONSTANTS a, b, c, s1, s2, t1, t2

Creates(objs) == [creates |-> objs, job_sql |-> NoDef]
Defines(n)    == [creates |-> {}, job_sql |-> n]

Objects == {"job", "log", "output", "performance", "output.size_mb", "log_job_id",
            "performance_job_id", "output_job_id", "checksum"}

\* 0000-base_schema.sql to 0006-checksum.sql
Upgrades == <<
  << [creates |-> {"job"}, job_sql |-> 1], Creates({"log"}), Creates({"output"}),
     Creates({"performance"}) >>,
  << Defines(2) >>,
  << Defines(3) >>,
  << Creates({"output.size_mb"}) >>,
  << Defines(5) >>,
  << Creates({"log_job_id"}), Creates({"performance_job_id"}), Creates({"output_job_id"}) >>,
  << Creates({"checksum"}) >> >>
=============================================================================
