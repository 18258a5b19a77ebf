------------------------------ MODULE SysArch ------------------------------
(***************************************************************************)
(* The operating system layer of lwIP (lwip/sys_arch.c): mailboxes,        *)
(* semaphores and mutexes on the queues of FreeRTOS, with timeouts in      *)
(* milliseconds.  A call that loops until it succeeds waits for ever in    *)
(* each round, and so has one round.                                       *)
(***************************************************************************)
EXTENDS Queue

CONSTANT TICK_PERIOD_MS     \* portTICK_PERIOD_MS

(* No timeout is 0; a timeout below a tick does not block. *)
Timeout(ms) == IF ms = 0 THEN portMAX_DELAY ELSE ms \div TICK_PERIOD_MS

sys_mbox_post(t, mbox, msg) == CallQueue(t, "back", mbox, portMAX_DELAY, msg)

sys_mbox_trypost(t, mbox, msg) == CallQueue(t, "back", mbox, 0, msg)

sys_arch_mbox_fetch(t, mbox, ms) == CallQueue(t, "receive", mbox, Timeout(ms), NoTask)

sys_arch_mbox_tryfetch(t, mbox) == CallQueue(t, "receive", mbox, 0, NoTask)

(* A signal of a semaphore that is signalled already fails, unnoticed. *)
sys_sem_signal(t, sem) == CallQueue(t, "back", sem, 0, NoTask)

sys_arch_sem_wait(t, sem, ms) == CallQueue(t, "take", sem, Timeout(ms), NoTask)

sys_mutex_lock(t, mutex) == xQueueTakeMutexRecursive(t, mutex, portMAX_DELAY)

sys_mutex_unlock(t, mutex) == xQueueGiveMutexRecursive(t, mutex)

sys_arch_msleep(t, ms) == vTaskDelay(t, ms \div TICK_PERIOD_MS)

=============================================================================
