SPECIFICATION Spec
CONSTANTS
    put = put
    must = must
    tail = tail
    pop = pop
    popd = popd
    ma = ma
    mb = mb
    Cap = 3
    Val = {ma, mb}
    NoVal = NoVal
    Putter = {put}
    MustPutter = {must}
    Tailer = {tail}
    Popper = {pop, popd}
    Timed = {popd}
    Want <- MCWant
PROPERTIES
    FIFO
