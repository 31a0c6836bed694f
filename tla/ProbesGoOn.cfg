SPECIFICATION Spec
CONSTANTS
    Upstreams = {u1, u2}
PROPERTY ProbesGoOn
