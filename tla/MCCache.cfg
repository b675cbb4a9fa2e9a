\* Two directories and the companion of a file of one of them: two workers and
\* the watcher, changes from both sides, seen by the watcher or not, renames
\* and failures of the chain.
CONSTANTS
    src = src  lib = lib  main = main  view = view
    t1 = t1  t2 = t2
    Threads = {t1, t2}
    Plain = {src, lib}
    Companions = {view}
    Names = {main}
    FileOf <- ViewOfMain
    Everything = Everything
    Resolved <- SomeKeys
    MaxChanges = 2
SPECIFICATION Spec
SYMMETRY Symmetry
CHECK_DEADLOCK FALSE
INVARIANTS HitsAreCurrent OwedIsUnderWay
