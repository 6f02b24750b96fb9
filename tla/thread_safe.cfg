SPECIFICATION Spec
CONSTANTS
    Thread = {t1, t2}
    Key = {key}
    Round = {1}
INVARIANT ThreadSafe
