---------------------------- MODULE MCCronService ----------------------------
(* A job that is due and one still to be created, and one worker.            *)
EXTENDS CronService

CONSTANTS j1, j2, w1
===============================================================================
