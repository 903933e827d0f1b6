---------------------------- MODULE MCScheduler ----------------------------
EXTENDS Scheduler

\* gui_task and a terminal worker on level 0, network_task on level 1
MCBootLevels == <<0, 0, 1>>

\* out of range on both sides: task_run keeps the level, or clamps it
MCCallLevels == {-1, 0, MAX_TASKLEVELS}

============================================================================
