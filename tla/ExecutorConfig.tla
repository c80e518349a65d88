--------------------------- MODULE ExecutorConfig ---------------------------
(***************************************************************************)
(* ExecutorConfig (src/src/config.ts) and the two places where options     *)
(* meet defaults a second time: executeTask (executor.ts) and the          *)
(* constructor of Task (task.ts).                                          *)
(*                                                                         *)
(* An option the user may leave out is the set of its value: empty if it   *)
(* is undefined.  A duration is a number of milliseconds; a timer is armed *)
(* for a number that is not zero only.  The options that are handed on     *)
(* unseen (market, payment, demand, logger, ...) are left out.             *)
(***************************************************************************)
EXTENDS Integers

(* What a user may pass, with the numbers of a set.                        *)
Optional(S) == {{}} \cup {{v} : v \in S}

ExecutorOptions(Numbers) ==
  [maxParallelTasks : Optional(Numbers),
   maxTaskRetries : Optional(Numbers),
   taskTimeout : Optional(Numbers),
   taskStartupTimeout : Optional(Numbers),
   taskRetryOnTimeout : Optional(BOOLEAN),
   startupTimeout : Optional(Numbers),
   vpn : Optional(BOOLEAN),
   skipProcessSignals : Optional(BOOLEAN)]

RunOptions(Numbers) ==
  [maxRetries : Optional(Numbers),
   timeout : Optional(Numbers),
   startupTimeout : Optional(Numbers),
   retryOnTimeout : Optional(BOOLEAN)]

(* `option ?? default`, for a default that is a value and one that is an   *)
(* option itself.                                                          *)
Or(option, default) ==
  IF option = {} THEN default ELSE CHOOSE v \in option : TRUE

OrOption(option, default) == IF option = {} THEN default ELSE option

(* Is the option a number other than 0?                                    *)
Truthy(option) == \E n \in option : n # 0

DEFAULTS ==
  [vpn |-> FALSE, skipProcessSignals |-> FALSE, maxParallelTasks |-> 5,
   maxTaskRetries |-> 3, taskRetryOnTimeout |-> FALSE]

(* The constructor throws, and create() rejects.                           *)
ConfigIsRefused(options) == \E n \in options.maxTaskRetries : n < 0

Config(options) ==
  [maxParallelTasks |-> Or(options.maxParallelTasks, DEFAULTS.maxParallelTasks),
   taskRetryOnTimeout |->
     Or(options.taskRetryOnTimeout, DEFAULTS.taskRetryOnTimeout),
   maxTaskRetries |-> Or(options.maxTaskRetries, DEFAULTS.maxTaskRetries),
   taskTimeout |-> options.taskTimeout,
   taskStartupTimeout |-> options.taskStartupTimeout,
   startupTimeout |-> options.startupTimeout,
   skipProcessSignals |->
     Or(options.skipProcessSignals, DEFAULTS.skipProcessSignals),
   vpn |-> Or(options.vpn, DEFAULTS.vpn)]

(* The options of the task that run(f, options) makes.                     *)
TaskOptions(config, options) ==
  [maxRetries |-> Or(options.maxRetries, config.maxTaskRetries),
   timeout |-> OrOption(options.timeout, config.taskTimeout),
   startupTimeout |-> OrOption(options.startupTimeout, config.taskStartupTimeout),
   retryOnTimeout |-> Or(options.retryOnTimeout, config.taskRetryOnTimeout)]

(* The constructor of Task throws, and run() rejects.                      *)
TaskIsRefused(options) == options.maxRetries < 0

(* Options that leave everything out.                                      *)
NoOptions ==
  [maxParallelTasks |-> {}, maxTaskRetries |-> {}, taskTimeout |-> {},
   taskStartupTimeout |-> {}, taskRetryOnTimeout |-> {}, startupTimeout |-> {},
   vpn |-> {}, skipProcessSignals |-> {}]

NoRunOptions ==
  [maxRetries |-> {}, timeout |-> {}, startupTimeout |-> {},
   retryOnTimeout |-> {}]
=============================================================================
