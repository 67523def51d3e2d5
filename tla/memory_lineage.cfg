SPECIFICATION Spec
CONSTANTS
    user = user  dream = dream  tea = tea  coffee = coffee  likes = likes
    Gone = Gone
    Users = {user}
    Dream = dream
    Texts = {tea, coffee}
    Keys = {likes}
    MaxRows = 3  MaxFacts = 3  MaxAged = 1  MaxTemporary = 1  MaxRaces = 2  MaxEnded = 1
SYMMETRY Symmetry
INVARIANTS LatestFound
CHECK_DEADLOCK FALSE
