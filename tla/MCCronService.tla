---------------------------- MODULE MCCronService ----------------------------
(* Small instances of CronService: a recurring job and a one-shot job, or    *)
(* two recurring jobs.                                                       *)
EXTENDS CronService

CONSTANTS daily, hourly, once

MCJobs == {daily, once}
MCOneShot == {once}
MCRecurring == {daily, hourly}
MCDaily == {daily}
MCNone == {}
==============================================================================
