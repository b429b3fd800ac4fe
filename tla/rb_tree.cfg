SPECIFICATION Spec
CONSTANTS
    Key = {1, 2, 3, 4, 5, 6}
    Nil = Nil
    Null = Null
    Features = {}
INVARIANT RedBlack
INVARIANT Walkable
PROPERTY Promise
