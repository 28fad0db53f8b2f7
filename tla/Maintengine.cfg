\* Two tasks that share one of two subjects; cron's runs and that of one
\* request; users change something once.
SPECIFICATION FairSpec
CONSTANTS
  Task = {"upgrade", "repair"}
  Subject = {"a", "b"}
  SubjectsOf <- MCSubjects
  Endless = {"upgrade"}
  Invalid = {"repair"}
  Cron = "cron"
  Request = {"request"}
  MaxChanges = 1
  MaxQueue = 1
PROPERTIES
  OnlyCurrentTasks
  Converges
  EndlessTasksEnd
