CONSTANTS
    Contexts = {one, two}
    Consonants = {k}
    Vowels = {a}
    MaxTyped = 3
    Faults = {"err", "drop"}
SPECIFICATION AddonSpec
INVARIANTS AddonConsistent NoOrphan
PROPERTY CommitsWhatIsShown
