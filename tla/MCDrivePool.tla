---- MODULE MCDrivePool ----
(* Four drives on two threads: one with two jobs, one with none. *)
EXTENDS DrivePool

MCJobs == <<2, 0, 1, 1>>
====
