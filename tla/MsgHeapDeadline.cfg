SPECIFICATION FairSpec
CONSTANTS
    put = put
    must = must
    tail = tail
    pop = pop
    popd = popd
    ma = ma
    mb = mb
    Cap = 2
    Val = {ma, mb}
    NoVal = NoVal
    Putter = {}
    MustPutter = {must}
    Tailer = {}
    Popper = {popd}
    Timed = {popd}
    Want <- MCWant
PROPERTIES
    DeadlineReturns
